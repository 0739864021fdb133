--------------------------- MODULE SequenceLemmas ---------------------------
(***************************************************************************)
(* Facts about numbers, recursive functions and sequences that the proofs  *)
(* of several components need.                                             *)
(*                                                                         *)
(* The induction theorems of the library take an operator as a parameter;  *)
(* these take a set of numbers instead.  A function defined by recursion   *)
(* is a CHOOSE, so that nothing is known of it until some function is      *)
(* shown to satisfy its equation: Iterates and Jumps are for that, and     *)
(* Unrolled for the function itself.                                       *)
(***************************************************************************)
EXTENDS Integers, Sequences, SequencesExt, Functions, FiniteSets, FiniteSetTheorems,
        WellFoundedInduction, TLAPS

----------------------------------------------------------------------------
(* Numbers                                                                 *)

\* The least-number principle, for sets.
LEMMA LeastNatural ==
    ASSUME NEW T, T \subseteq Nat, T # {}
    PROVE  \E x \in T : \A y \in T : x <= y
  <1>1. \E x \in T : \A y \in T : ~(y < x)
    <2>1. PICK x \in T : \A y \in T : ~(<<y, x>> \in OpToRel(<, Nat))
      BY WFMin, NatLessThanWellFounded
    <2>2. \A y \in T : ~(y < x)
      BY <2>1 DEF OpToRel
    <2>3. QED
      BY <2>1, <2>2
  <1>2. PICK x \in T : \A y \in T : ~(y < x)
    BY <1>1
  <1>3. QED
    BY <1>2

\* A set of numbers that is not empty has its Min.
LEMMA MinOfNaturals ==
    ASSUME NEW S, S \subseteq Nat, S # {}
    PROVE  Min(S) \in S /\ \A x \in S : Min(S) <= x
  <1>1. \E x \in S : \A y \in S : x <= y
    BY LeastNatural
  <1>2. QED
    BY <1>1 DEF Min

\* A set of numbers that is not empty and has a bound has its Max.
LEMMA MaxOfBounded ==
    ASSUME NEW S, S \subseteq Nat, S # {}, NEW b \in Nat, \A x \in S : x <= b
    PROVE  Max(S) \in S /\ \A x \in S : x <= Max(S)
  <1> DEFINE T == {b - x : x \in S}
  <1>1. T \subseteq Nat /\ T # {}
    <2>1. \A x \in S : b - x \in Nat
      OBVIOUS
    <2>2. QED
      BY <2>1
  <1>2. PICK m \in T : \A y \in T : m <= y
    BY <1>1, LeastNatural
  <1>3. PICK x \in S : m = b - x
    BY <1>2
  <1>4. \A y \in S : b - x <= b - y
    BY <1>2, <1>3
  <1>5. \A y \in S : x >= y
    BY <1>4
  <1>6. \E z \in S : \A y \in S : z >= y
    BY <1>5
  <1>7. Max(S) \in S /\ \A y \in S : Max(S) >= y
    BY <1>6 DEF Max
  <1>8. QED
    BY <1>7

\* Induction up to n.
LEMMA UpTo ==
    ASSUME NEW n \in Nat, NEW T, 0 \in T, \A i \in 1 .. n : i - 1 \in T => i \in T
    PROVE  0 .. n \subseteq T
  <1> DEFINE bad == {i \in 0 .. n : i \notin T}
  <1>1. SUFFICES ASSUME bad # {}
                 PROVE  FALSE
    OBVIOUS
  <1>2. PICK i \in bad : \A j \in bad : i <= j
    <2>1. bad \subseteq Nat
      OBVIOUS
    <2> HIDE DEF bad
    <2>2. QED
      BY <1>1, <2>1, LeastNatural
  <1>3. i \in 1 .. n /\ i - 1 \in 0 .. n /\ ~(i <= i - 1)
    BY <1>2
  <1>4. QED
    BY <1>2, <1>3

\* Counting from 1.
LEMMA CountTo ==
    ASSUME NEW n \in Nat
    PROVE  Cardinality(1 .. n) = n
  BY FS_Interval

----------------------------------------------------------------------------
(* Orders                                                                  *)

\* x is the one of 1 .. n that has place k in the order L.
HasPlace(x, k, n, L) ==
    x \in 1 .. n /\ Cardinality({y \in 1 .. n : <<y, x>> \in L}) = k - 1

\* The places are taken in the order L.
Places(n, L) ==
    /\ \A k \in 1 .. n : \E x \in 1 .. n : HasPlace(x, k, n, L)
    /\ \A i, j, x, y \in 1 .. n :
          HasPlace(x, i, n, L) /\ HasPlace(y, j, n, L) /\ i < j => <<x, y>> \in L

\* L is a strict total order of 1 .. n.
Orders(L, n) ==
    /\ \A i \in 1 .. n : <<i, i>> \notin L
    /\ \A i, j \in 1 .. n : i = j \/ <<i, j>> \in L \/ <<j, i>> \in L
    /\ \A i, j, k \in 1 .. n : <<i, j>> \in L /\ <<j, k>> \in L => <<i, k>> \in L

\* In a strict total order, the number of those before it is a place of its
\* own for each.
LEMMA Ordering ==
    ASSUME NEW n \in Nat, NEW L, Orders(L, n)
    PROVE  Places(n, L)
  <1> DEFINE D == 1 .. n
             below == [x \in D |-> {y \in D : <<y, x>> \in L}]
             rank == [x \in D |-> Cardinality(below[x]) + 1]
  <1>1. IsFiniteSet(D) /\ Cardinality(D) = n
    BY FS_Interval
  <1>2. \A x \in D : x \notin below[x] /\ below[x] \subseteq D
    BY DEF Orders
  <1>3. ASSUME NEW x \in D, NEW y \in D, <<x, y>> \in L
        PROVE  x \in below[y] /\ below[x] \subseteq below[y]
    BY <1>3 DEF Orders
  <1> HIDE DEF below
  <1>4. ASSUME NEW x \in D
        PROVE  IsFiniteSet(below[x]) /\ Cardinality(below[x]) \in 0 .. n - 1
    <2> DEFINE b == below[x]
    <2>1. b \subseteq D /\ x \notin b
      BY <1>2
    <2> HIDE DEF b, D
    <2>2. IsFiniteSet(b) /\ Cardinality(b) <= n /\ (Cardinality(b) = n => b = D)
      BY <2>1, <1>1, FS_Subset
    <2>3. Cardinality(b) \in Nat
      BY <2>2, FS_CardinalityType
    <2>4. Cardinality(b) # n
      BY <2>1, <2>2
    <2>5. Cardinality(b) \in 0 .. n - 1
      BY <2>2, <2>3, <2>4
    <2>6. QED
      BY <2>2, <2>5 DEF b
  <1>5. ASSUME NEW x \in D, NEW y \in D, <<x, y>> \in L
        PROVE  rank[x] < rank[y]
    <2> DEFINE b == below[x]
               c == below[y]
    <2>1. b \subseteq c /\ x \in c /\ x \notin b
      BY <1>2, <1>3, <1>5
    <2>2. IsFiniteSet(c) /\ Cardinality(b) \in Nat /\ Cardinality(c) \in Nat
      BY <1>4
    <2>3. rank[x] = Cardinality(b) + 1 /\ rank[y] = Cardinality(c) + 1
      OBVIOUS
    <2> HIDE DEF b, c, D, rank
    <2>4. Cardinality(b) <= Cardinality(c) /\ (Cardinality(c) = Cardinality(b) => c = b)
      BY <2>1, <2>2, FS_Subset
    <2>5. Cardinality(b) # Cardinality(c)
      BY <2>1, <2>4
    <2>6. QED
      BY <2>2, <2>3, <2>4, <2>5
  <1>6. rank \in [D -> D]
    <2>1. ASSUME NEW x \in D
          PROVE  Cardinality(below[x]) + 1 \in D
      BY <1>4
    <2>2. QED
      BY <2>1
  <1> HIDE DEF rank
  <1>7. \A x, y \in D : rank[x] = rank[y] => x = y
    <2>1. ASSUME NEW x \in D, NEW y \in D, rank[x] = rank[y]
          PROVE  x = y
      <3>1. rank[x] \in Nat /\ rank[y] \in Nat
        BY <1>6
      <3>2. <<x, y>> \notin L /\ <<y, x>> \notin L
        BY <1>5, <2>1, <3>1
      <3>3. QED
        BY <3>2 DEF Orders
    <2>2. QED
      BY <2>1
  <1>8. \A k \in D : \E x \in D : rank[x] = k
    <2> HIDE DEF D
    <2>1. rank \in Injection(D, D)
      BY <1>6, <1>7 DEF Injection, IsInjective
    <2>2. rank \in Surjection(D, D)
      BY <2>1, <1>1, FS_Injection
    <2>3. QED
      BY <2>2 DEF Surjection
  <1>9. \A x, k \in D : HasPlace(x, k, n, L) <=> rank[x] = k
    <2>1. ASSUME NEW x \in D, NEW k \in D
          PROVE  HasPlace(x, k, n, L) <=> rank[x] = k
      <3>1. Cardinality(below[x]) \in Nat /\ rank[x] = Cardinality(below[x]) + 1
        BY <1>4 DEF rank
      <3>2. below[x] = {y \in D : <<y, x>> \in L}
        BY DEF below
      <3>3. HasPlace(x, k, n, L) <=> Cardinality(below[x]) = k - 1
        BY <3>2 DEF HasPlace
      <3>4. QED
        BY <3>1, <3>3
    <2>2. QED
      BY <2>1
  <1>10. \A k \in D : \E x \in D : HasPlace(x, k, n, L)
    BY <1>8, <1>9
  <1>11. ASSUME NEW i \in D, NEW j \in D, NEW x \in D, NEW y \in D,
                HasPlace(x, i, n, L), HasPlace(y, j, n, L), i < j
         PROVE  <<x, y>> \in L
    <2>1. rank[x] = i /\ rank[y] = j
      BY <1>9, <1>11
    <2>2. x # y /\ ~(j < i)
      BY <2>1, <1>11
    <2>3. <<y, x>> \notin L
      BY <1>5, <2>1, <2>2
    <2>4. QED
      BY <2>2, <2>3 DEF Orders
  <1>12. QED
    BY <1>10, <1>11 DEF Places

----------------------------------------------------------------------------
(* Recursive functions                                                     *)

\* The values of f up to m are those that the steps of G lead to from a.
Iterated(f, m, A, a, G) ==
    /\ f \in [0 .. m -> A] /\ f[0] = a
    /\ \A i \in 1 .. m : f[i] = G[i][f[i - 1]]

\* Some function applies the steps of G one after the other.
LEMMA Iterates ==
    ASSUME NEW n \in Nat, NEW A, NEW a \in A, NEW G \in [1 .. n -> [A -> A]]
    PROVE  \E f : Iterated(f, n, A, a, G)
  <1> DEFINE Solves(f, m) == Iterated(f, m, A, a, G)
             T == {m \in 0 .. n : \E f : Solves(f, m)}
  <1> USE DEF Iterated
  <1>1. 0 \in T
    <2>1. Solves([i \in 0 .. 0 |-> a], 0)
      OBVIOUS
    <2> HIDE DEF Solves
    <2>2. QED
      BY <2>1
  <1>2. ASSUME NEW m \in 1 .. n, m - 1 \in T
        PROVE  m \in T
    <2>1. PICK f : Solves(f, m - 1)
      BY <1>2
    <2> DEFINE g == [i \in 0 .. m |-> IF i = m THEN G[m][f[m - 1]] ELSE f[i]]
    <2>2. m \in Nat /\ m >= 1 /\ m - 1 \in 0 .. m - 1 /\ f[m - 1] \in A
      BY <2>1
    <2>3. \A i \in 0 .. m : i = m \/ i \in 0 .. m - 1
      BY <2>2
    <2>4. g \in [0 .. m -> A]
      BY <2>1, <2>2, <2>3
    <2>5. g[0] = a
      BY <2>1, <2>2
    <2>6. \A i \in 1 .. m : g[i - 1] = f[i - 1] /\ (i = m \/ (i \in 1 .. m - 1 /\ g[i] = f[i]))
      BY <2>2
    <2>7. g[m] = G[m][f[m - 1]]
      BY <2>2
    <2> HIDE DEF g
    <2>8. \A i \in 1 .. m : g[i] = G[i][g[i - 1]]
      BY <2>1, <2>6, <2>7
    <2>9. Solves(g, m)
      BY <2>4, <2>5, <2>8
    <2> HIDE DEF Solves
    <2>10. QED
      BY <2>9
  <1> HIDE DEF T
  <1>3. n \in T
    <2>1. 0 .. n \subseteq T
      BY <1>1, <1>2, UpTo
    <2>2. QED
      BY <2>1
  <1>4. QED
    BY <1>3 DEF T

\* A function that satisfies the equations of a recursion is the one that
\* Iterates gives.
LEMMA Unrolled ==
    ASSUME NEW n \in Nat, NEW A, NEW a \in A, NEW G \in [1 .. n -> [A -> A]],
           NEW c, c = [i \in 0 .. n |-> c[i]], c[0] = a,
           \A i \in 1 .. n : c[i - 1] \in A => c[i] = G[i][c[i - 1]]
    PROVE  Iterated(c, n, A, a, G)
  <1> DEFINE T == {i \in 0 .. n : c[i] \in A}
  <1>1. 0 \in T
    OBVIOUS
  <1>2. ASSUME NEW i \in 1 .. n, i - 1 \in T
        PROVE  i \in T
    <2>1. c[i - 1] \in A /\ G[i] \in [A -> A] /\ i \in 0 .. n
      BY <1>2
    <2>2. c[i] \in A
      BY <2>1
    <2>3. QED
      BY <2>1, <2>2
  <1>3. 0 .. n \subseteq T
    <2> HIDE DEF T
    <2>1. QED
      BY <1>1, <1>2, UpTo
  <1>4. \A i \in 0 .. n : c[i] \in A
    BY <1>3
  <1>5. c \in [0 .. n -> A]
    BY <1>4
  <1>6. \A i \in 1 .. n : i - 1 \in 0 .. n
    OBVIOUS
  <1>7. QED
    BY <1>4, <1>5, <1>6 DEF Iterated

\* Two functions that start alike and go on alike end alike.
LEMMA Alike ==
    ASSUME NEW n \in Nat, NEW f, NEW g, f[0] = g[0],
           \A i \in 1 .. n : f[i - 1] = g[i - 1] => f[i] = g[i]
    PROVE  f[n] = g[n]
  <1> DEFINE T == {i \in 0 .. n : f[i] = g[i]}
  <1>1. 0 \in T
    OBVIOUS
  <1>2. \A i \in 1 .. n : i - 1 \in T => i \in T
    OBVIOUS
  <1>3. 0 .. n \subseteq T
    <2> HIDE DEF T
    <2>1. QED
      BY <1>1, <1>2, UpTo
  <1>4. QED
    BY <1>3

\* f follows nxt from b on, upwards to n, until it stops.
Follows(f, b, n, stop, nxt) ==
    /\ f \in [b .. n -> 0 .. n]
    /\ \A k \in b .. n : f[k] = IF k \in stop THEN k ELSE f[nxt[k]]

\* Some function follows nxt.
LEMMA Jumps ==
    ASSUME NEW n \in Nat, NEW stop, NEW nxt \in [0 .. n -> 0 .. n],
           \A k \in 0 .. n : k \in stop \/ k < nxt[k]
    PROVE  \E f : Follows(f, 0, n, stop, nxt)
  <1> DEFINE Solves(f, b) == Follows(f, b, n, stop, nxt)
             T == {m \in 0 .. n : \E f : Solves(f, n - m)}
  <1> USE DEF Follows
  <1>1. 0 \in T
    <2>1. n \in stop
      OBVIOUS
    <2>2. Solves([k \in n .. n |-> n], n)
      BY <2>1
    <2>3. n - 0 = n
      OBVIOUS
    <2> HIDE DEF Solves
    <2>4. QED
      BY <2>2, <2>3
  <1>2. ASSUME NEW m \in 1 .. n, m - 1 \in T
        PROVE  m \in T
    <2> DEFINE b == n - m
    <2>1. b \in 0 .. n /\ n - (m - 1) = b + 1 /\ b < n
      OBVIOUS
    <2>2. PICK f : Solves(f, b + 1)
      BY <1>2, <2>1
    <2> DEFINE g == [k \in b .. n |-> IF k = b THEN (IF b \in stop THEN b ELSE f[nxt[b]]) ELSE f[k]]
    <2> HIDE DEF b
    <2>3. \A k \in b .. n : k = b \/ k \in b + 1 .. n
      BY <2>1
    <2>4. \A k \in b .. n : k \in stop \/ nxt[k] \in b + 1 .. n
      BY <2>1
    <2>5. b \in b .. n
      BY <2>1
    <2>6. g \in [b .. n -> 0 .. n]
      BY <2>1, <2>2, <2>3, <2>4, <2>5
    <2>7. \A k \in b + 1 .. n : g[k] = f[k]
      BY <2>1
    <2>8. g[b] = IF b \in stop THEN b ELSE f[nxt[b]]
      BY <2>5
    <2> HIDE DEF g
    <2>9. \A k \in b .. n : g[k] = IF k \in stop THEN k ELSE g[nxt[k]]
      BY <2>2, <2>3, <2>4, <2>7, <2>8
    <2>10. Solves(g, b)
      BY <2>6, <2>9
    <2> HIDE DEF Solves
    <2>11. QED
      BY <2>10 DEF b
  <1> HIDE DEF T
  <1>3. n \in T
    <2>1. 0 .. n \subseteq T
      BY <1>1, <1>2, UpTo
    <2>2. QED
      BY <2>1
  <1>4. n - n = 0
    OBVIOUS
  <1>5. QED
    BY <1>3, <1>4 DEF T
----------------------------------------------------------------------------
(* Sequences                                                               *)

\* The elements of a longer list.
LEMMA AppendToSet ==
    ASSUME NEW S, NEW s \in Seq(S), NEW e \in S
    PROVE  Append(s, e) \in Seq(S) /\ ToSet(Append(s, e)) = ToSet(s) \cup {e}
  <1>1. /\ Append(s, e) \in Seq(S) /\ Len(s) \in Nat /\ DOMAIN s = 1 .. Len(s)
        /\ DOMAIN Append(s, e) = 1 .. Len(s) + 1
        /\ \A i \in 1 .. Len(s) : Append(s, e)[i] = s[i]
        /\ Append(s, e)[Len(s) + 1] = e
    OBVIOUS
  <1>2. \A i \in 1 .. Len(s) + 1 : i \in 1 .. Len(s) \/ i = Len(s) + 1
    BY <1>1
  <1>3. 1 .. Len(s) \subseteq 1 .. Len(s) + 1 /\ Len(s) + 1 \in 1 .. Len(s) + 1
    BY <1>1
  <1>4. \A x \in ToSet(Append(s, e)) : x \in ToSet(s) \cup {e}
    BY <1>1, <1>2 DEF ToSet
  <1>5. \A x \in ToSet(s) \cup {e} : x \in ToSet(Append(s, e))
    BY <1>1, <1>3 DEF ToSet
  <1>6. QED
    BY <1>1, <1>4, <1>5

\* A listing of a finite set is a sequence of all its elements.
LEMMA ListingHolds ==
    ASSUME NEW S, IsFiniteSet(S), NEW s \in SetToSeqs(S)
    PROVE  s \in Seq(S) /\ ToSet(s) = S
  <1> DEFINE n == Cardinality(S)
  <1>1. n \in Nat
    BY FS_CardinalityType
  <1>2. s \in [1 .. n -> S] /\ \A i, j \in 1 .. n : i # j => s[i] # s[j]
    BY DEF SetToSeqs
  <1>3. s \in Injection(1 .. n, S)
    BY <1>2 DEF Injection, IsInjective
  <1>4. Cardinality(1 .. n) = n
    BY <1>1, FS_Interval
  <1>5. s \in Surjection(1 .. n, S)
    BY <1>3, <1>4, FS_Injection
  <1>6. \A e \in S : \E i \in 1 .. n : s[i] = e
    BY <1>5 DEF Surjection
  <1>7. s \in Seq(S)
    BY <1>1, <1>2
  <1>8. ToSet(s) = S
    BY <1>2, <1>6 DEF ToSet
  <1> QED
    BY <1>7, <1>8

\* u is s with t behind it; t is s with e behind its first k.
IsJoined(u, s, t) ==
    /\ Len(u) = Len(s) + Len(t)
    /\ \A i \in 1 .. Len(s) : u[i] = s[i]
    /\ \A i \in 1 .. Len(t) : u[Len(s) + i] = t[i]

IsInserted(t, s, k, e) ==
    /\ Len(t) = Len(s) + 1
    /\ \A i \in 1 .. k : t[i] = s[i]
    /\ t[k + 1] = e
    /\ \A i \in k + 1 .. Len(s) : t[i + 1] = s[i]

\* An element behind a list.
LEMMA Appended ==
    ASSUME NEW S, NEW s \in Seq(S), NEW e \in S
    PROVE  Append(s, e) \in Seq(S) /\ IsJoined(Append(s, e), s, <<e>>)
  BY DEF IsJoined

\* Two lists, one behind the other.
LEMMA Joined ==
    ASSUME NEW S, NEW s \in Seq(S), NEW t \in Seq(S)
    PROVE  s \o t \in Seq(S) /\ IsJoined(s \o t, s, t)
  BY DEF IsJoined

\* Where an element of a joined list comes from.
LEMMA JoinedFrom ==
    ASSUME NEW S, NEW s \in Seq(S), NEW t \in Seq(S), NEW u \in Seq(S),
           IsJoined(u, s, t)
    PROVE  /\ DOMAIN u = 1 .. Len(s) + Len(t) /\ DOMAIN s = 1 .. Len(s) /\ DOMAIN t = 1 .. Len(t)
           /\ Len(s) \in Nat /\ Len(t) \in Nat /\ Len(u) = Len(s) + Len(t)
           /\ \A i \in DOMAIN s : i \in DOMAIN u /\ u[i] = s[i]
           /\ \A i \in DOMAIN t : Len(s) + i \in DOMAIN u /\ u[Len(s) + i] = t[i]
           /\ \A i \in DOMAIN u : \/ i \in DOMAIN s
                                  \/ i - Len(s) \in DOMAIN t /\ u[i] = t[i - Len(s)]
  <1> DEFINE l == Len(s)
             n == Len(t)
  <1>1. l \in Nat /\ n \in Nat /\ Len(u) = l + n
    BY DEF IsJoined
  <1>2. DOMAIN s = 1 .. l /\ DOMAIN t = 1 .. n /\ DOMAIN u = 1 .. l + n
    BY <1>1
  <1>3. (\A i \in 1 .. l : u[i] = s[i]) /\ \A i \in 1 .. n : u[l + i] = t[i]
    BY DEF IsJoined
  <1> HIDE DEF l, n
  <1>4. \A i \in 1 .. l + n : i \in 1 .. l \/ (i - l \in 1 .. n /\ l + (i - l) = i)
    BY <1>1
  <1>5. (\A i \in 1 .. l : i \in 1 .. l + n) /\ \A i \in 1 .. n : l + i \in 1 .. l + n
    BY <1>1
  <1>6. QED
    BY <1>1, <1>2, <1>3, <1>4, <1>5 DEF l, n

\* A list with an element inserted behind its first k.
LEMMA Inserted ==
    ASSUME NEW S, NEW s \in Seq(S), NEW e \in S, NEW k \in 0 .. Len(s)
    PROVE  InsertAt(s, k + 1, e) \in Seq(S) /\ IsInserted(InsertAt(s, k + 1, e), s, k, e)
  <1> DEFINE n == Len(s)
             a == SubSeq(s, 1, k)
             b == SubSeq(s, k + 1, n)
             u == a \o <<e>>
             t == u \o b
  <1>1. n \in Nat /\ k \in Nat /\ k <= n /\ (k + 1) - 1 = k
    OBVIOUS
  <1>2. a \in Seq(S) /\ Len(a) = k /\ \A i \in 1 .. k : a[i] = s[i]
    BY <1>1
  <1>3. b \in Seq(S) /\ Len(b) = n - k /\ \A i \in 1 .. n - k : b[i] = s[k + i]
    BY <1>1
  <1>4. InsertAt(s, k + 1, e) = t
    <2>1. InsertAt(s, k + 1, e) = (SubSeq(s, 1, (k + 1) - 1) \o <<e>>) \o SubSeq(s, k + 1, n)
      BY Zenon DEF InsertAt
    <2>2. SubSeq(s, 1, (k + 1) - 1) = a
      BY <1>1
    <2>3. QED
      BY <2>1, <2>2
  <1>5. <<e>> \in Seq(S) /\ Len(<<e>>) = 1 /\ <<e>>[1] = e
    OBVIOUS
  <1>6. u \in Seq(S) /\ IsJoined(u, a, <<e>>)
    <2> HIDE DEF a
    <2>1. QED
      BY <1>2, <1>5, Joined
  <1>7. t \in Seq(S) /\ IsJoined(t, u, b)
    <2> HIDE DEF u, b
    <2>1. QED
      BY <1>3, <1>6, Joined
  <1> HIDE DEF a, b, u, t, n
  <1>8. Len(u) = k + 1 /\ u[k + 1] = e /\ \A i \in 1 .. k : u[i] = s[i]
    <2>1. 1 \in 1 .. 1
      OBVIOUS
    <2>2. QED
      BY <1>2, <1>5, <1>6, <2>1 DEF IsJoined
  <1>9. /\ Len(t) = (k + 1) + (n - k)
        /\ \A i \in 1 .. k + 1 : t[i] = u[i]
        /\ \A i \in 1 .. n - k : t[(k + 1) + i] = b[i]
    BY <1>3, <1>7, <1>8 DEF IsJoined
  <1>10. \A i \in k + 1 .. n : i - k \in 1 .. n - k /\ k + (i - k) = i /\ (k + 1) + (i - k) = i + 1
    BY <1>1
  <1>11. (k + 1) + (n - k) = n + 1 /\ k + 1 \in 1 .. k + 1 /\ \A i \in 1 .. k : i \in 1 .. k + 1
    BY <1>1
  <1>12. \A i \in k + 1 .. n : t[i + 1] = s[i]
    <2> SUFFICES ASSUME NEW i \in k + 1 .. n
                 PROVE  t[i + 1] = s[i]
      OBVIOUS
    <2>1. t[(k + 1) + (i - k)] = b[i - k] /\ b[i - k] = s[k + (i - k)]
      BY <1>3, <1>9, <1>10
    <2>2. QED
      BY <1>10, <2>1
  <1>13. n = Len(s)
    BY DEF n
  <1>14. IsInserted(t, s, k, e)
    BY <1>8, <1>9, <1>11, <1>12, <1>13 DEF IsInserted
  <1>15. QED
    BY <1>4, <1>7, <1>14

----------------------------------------------------------------------------
(* Last parts, and lists one behind the other                              *)

\* The lists spoken of here.
Lists == Seq(Nat)

\* s is the last part of t.
LastPart(s, t) ==
    /\ Len(s) <= Len(t)
    /\ \A i \in 1 .. Len(s) : s[i] = t[(Len(t) - Len(s)) + i]

\* The suffixes of the library are those.
LEMMA SuffixIs ==
    ASSUME NEW s \in Lists, NEW t \in Lists
    PROVE  IsSuffix(s, t) <=> LastPart(s, t)
  <1> DEFINE l == Len(s)
             n == Len(t)
             r == Reverse(s)
             u == Reverse(t)
  <1>1. l \in Nat /\ n \in Nat /\ DOMAIN s = 1 .. l /\ DOMAIN t = 1 .. n
    BY DEF Lists
  <1>2. r = [i \in 1 .. l |-> s[(l - i) + 1]] /\ u = [i \in 1 .. n |-> t[(n - i) + 1]]
    BY DEF Reverse
  <1>3. r \in Lists /\ Len(r) = l /\ u \in Lists /\ Len(u) = n
    <2>1. (\A i \in 1 .. l : s[(l - i) + 1] \in Nat) /\ \A i \in 1 .. n : t[(n - i) + 1] \in Nat
      BY <1>1 DEF Lists
    <2>2. r \in [1 .. l -> Nat] /\ u \in [1 .. n -> Nat]
      BY <1>2, <2>1
    <2> HIDE DEF r, u, l, n
    <2>3. QED
      BY <1>1, <2>2 DEF Lists
  <1>4. ASSUME l <= n
        PROVE  SubSeq(r, 1, l) = SubSeq(u, 1, l) <=> \A i \in 1 .. l : r[i] = u[i]
    <2> HIDE DEF r, u, l, n
    <2>1. /\ SubSeq(r, 1, l) \in Lists /\ Len(SubSeq(r, 1, l)) = l
          /\ \A i \in 1 .. l : SubSeq(r, 1, l)[i] = r[i]
      BY <1>1, <1>3 DEF Lists
    <2>2. /\ SubSeq(u, 1, l) \in Lists /\ Len(SubSeq(u, 1, l)) = l
          /\ \A i \in 1 .. l : SubSeq(u, 1, l)[i] = u[i]
      BY <1>1, <1>3, <1>4 DEF Lists
    <2>3. QED
      BY <1>1, <2>1, <2>2 DEF Lists
  <1>5. ASSUME l <= n
        PROVE  (\A i \in 1 .. l : r[i] = u[i]) <=> \A i \in 1 .. l : s[i] = t[(n - l) + i]
    <2>1. \A i \in 1 .. l : r[i] = s[(l - i) + 1] /\ u[i] = t[(n - i) + 1]
      BY <1>1, <1>2, <1>5
    <2> HIDE DEF r, u, l, n
    <2>2. \A i \in 1 .. l : /\ (l - i) + 1 \in 1 .. l /\ (l - ((l - i) + 1)) + 1 = i
                            /\ (n - l) + ((l - i) + 1) = (n - i) + 1
                            /\ (n - ((l - i) + 1)) + 1 = (n - l) + i
      BY <1>1, <1>5
    <2>3. ASSUME \A i \in 1 .. l : r[i] = u[i], NEW i \in 1 .. l
          PROVE  s[i] = t[(n - l) + i]
      <3>1. r[(l - i) + 1] = u[(l - i) + 1]
        BY <2>2, <2>3
      <3>2. r[(l - i) + 1] = s[(l - ((l - i) + 1)) + 1] /\ u[(l - i) + 1] = t[(n - ((l - i) + 1)) + 1]
        BY <2>1, <2>2
      <3>3. QED
        BY <2>2, <3>1, <3>2
    <2>4. ASSUME \A i \in 1 .. l : s[i] = t[(n - l) + i], NEW i \in 1 .. l
          PROVE  r[i] = u[i]
      <3>1. s[(l - i) + 1] = t[(n - l) + ((l - i) + 1)]
        BY <2>2, <2>4
      <3>2. QED
        BY <2>1, <2>2, <3>1
    <2>5. QED
      BY <2>3, <2>4
  <1>6. IsSuffix(s, t) <=> l <= n /\ SubSeq(r, 1, l) = SubSeq(u, 1, l)
    BY <1>3, Zenon DEF IsSuffix, IsPrefix
  <1>7. QED
    BY <1>4, <1>5, <1>6 DEF LastPart

\* Last parts of last parts, and what is put behind both.
LEMMA EndsOn ==
    ASSUME NEW s \in Lists, NEW t \in Lists, NEW u \in Lists, NEW e \in Nat
    PROVE  /\ LastPart(s, s) /\ LastPart(<<>>, s)
           /\ LastPart(s, t) /\ LastPart(t, u) => LastPart(s, u)
           /\ LastPart(s, t) => LastPart(s \o u, t \o u) /\ LastPart(Append(s, e), Append(t, e))
           /\ LastPart(s, t) => LastPart(s, u \o t)
           /\ s \o <<>> = s /\ <<>> \o s = s
           /\ Append(s, e) \in Lists /\ s \o u \in Lists
           /\ s \o Append(u, e) = Append(s \o u, e)
  <1> USE DEF Lists
  <1>1. LastPart(s, s) /\ LastPart(<<>>, s)
    BY DEF LastPart
  <1>2. ASSUME LastPart(s, t), LastPart(t, u)
        PROVE  LastPart(s, u)
    <2>1. ASSUME NEW i \in 1 .. Len(s)
          PROVE  s[i] = u[(Len(u) - Len(s)) + i]
      <3>1. /\ (Len(t) - Len(s)) + i \in 1 .. Len(t)
            /\ (Len(u) - Len(t)) + ((Len(t) - Len(s)) + i) = (Len(u) - Len(s)) + i
        BY <1>2 DEF LastPart
      <3>2. s[i] = t[(Len(t) - Len(s)) + i]
        BY <1>2 DEF LastPart
      <3>3. QED
        BY <1>2, <3>1, <3>2 DEF LastPart
    <2>2. QED
      BY <1>2, <2>1 DEF LastPart
  <1>3. ASSUME LastPart(s, t)
        PROVE  LastPart(s \o u, t \o u)
    BY <1>3 DEF LastPart
  <1>4. ASSUME LastPart(s, t)
        PROVE  LastPart(Append(s, e), Append(t, e))
    <2> DEFINE a == Append(s, e)
               b == Append(t, e)
    <2>1. /\ Len(a) = Len(s) + 1 /\ Len(b) = Len(t) + 1 /\ Len(s) \in Nat /\ Len(t) \in Nat
          /\ a[Len(s) + 1] = e /\ b[Len(t) + 1] = e
          /\ \A i \in 1 .. Len(s) : a[i] = s[i]
          /\ \A i \in 1 .. Len(t) : b[i] = t[i]
      OBVIOUS
    <2>2. Len(s) <= Len(t) /\ \A i \in 1 .. Len(s) : s[i] = t[(Len(t) - Len(s)) + i]
      BY <1>4 DEF LastPart
    <2> HIDE DEF a, b
    <2>3. \A i \in 1 .. Len(s) + 1 :
            \/ i = Len(s) + 1 /\ (Len(b) - Len(a)) + i = Len(t) + 1
            \/ /\ i \in 1 .. Len(s) /\ (Len(b) - Len(a)) + i = (Len(t) - Len(s)) + i
               /\ (Len(t) - Len(s)) + i \in 1 .. Len(t)
      <3>1. /\ Len(a) = Len(s) + 1 /\ Len(b) = Len(t) + 1 /\ Len(s) \in Nat /\ Len(t) \in Nat
            /\ Len(s) <= Len(t)
        BY <2>1, <2>2
      <3>2. \A l, n \in Nat : l <= n => \A i \in 1 .. l + 1 :
              \/ i = l + 1 /\ ((n + 1) - (l + 1)) + i = n + 1
              \/ i \in 1 .. l /\ ((n + 1) - (l + 1)) + i = (n - l) + i /\ (n - l) + i \in 1 .. n
        OBVIOUS
      <3>3. QED
        BY <3>1, <3>2
    <2>4. \A i \in 1 .. Len(a) : a[i] = b[(Len(b) - Len(a)) + i]
      BY <2>1, <2>2, <2>3
    <2>5. LastPart(a, b)
      BY <2>1, <2>2, <2>4 DEF LastPart
    <2>6. QED
      BY <2>5 DEF a, b
  <1>5. ASSUME LastPart(s, t)
        PROVE  LastPart(s, u \o t)
    BY <1>5 DEF LastPart
  <1>6. s \o <<>> = s /\ <<>> \o s = s
    OBVIOUS
  <1>7. Append(s, e) \in Lists /\ s \o u \in Lists
    OBVIOUS
  <1>8. s \o Append(u, e) = Append(s \o u, e)
    <2> DEFINE a == s \o Append(u, e)
               b == Append(s \o u, e)
    <2>1. a \in Seq(Nat) /\ b \in Seq(Nat) /\ Len(a) = Len(b) /\ DOMAIN a = 1 .. Len(a)
          /\ DOMAIN b = 1 .. Len(a)
      OBVIOUS
    <2>2. \A i \in 1 .. Len(a) : a[i] = b[i]
      OBVIOUS
    <2> DEFINE n == Len(a)
    <2> HIDE DEF a, b, n
    <2>3. a \in [1 .. n -> Nat] /\ b \in [1 .. n -> Nat] /\ \A i \in 1 .. n : a[i] = b[i]
      BY <2>1, <2>2 DEF n
    <2>4. a = [i \in 1 .. n |-> a[i]] /\ b = [i \in 1 .. n |-> b[i]]
      BY <2>3
    <2>5. a = b
      BY <2>3, <2>4
    <2>6. QED
      BY <2>5 DEF a, b
  <1>9. QED
    BY <1>1, <1>2, <1>3, <1>4, <1>5, <1>6, <1>7, <1>8

\* The same with names: lists behind lists, and no list.
Chained(s, t) == s \o t
NoList == <<>>

\* They chain, and the last part of the first is kept.
LEMMA ChainedIs ==
    /\ NoList \in Lists
    /\ \A s, t \in Lists :
         /\ Chained(s, t) \in Lists /\ Chained(s, NoList) = s /\ Chained(NoList, s) = s
         /\ LastPart(s, s) /\ LastPart(NoList, s) /\ LastPart(s, Chained(t, s))
         /\ \A u \in Lists :
              /\ LastPart(s, t) /\ LastPart(t, u) => LastPart(s, u)
              /\ LastPart(s, t) => LastPart(Chained(s, u), Chained(t, u))
  <1>1. NoList \in Lists
    BY DEF Lists, NoList
  <1>2. ASSUME NEW s \in Lists, NEW t \in Lists, NEW u \in Lists
        PROVE  /\ Chained(s, t) \in Lists /\ Chained(s, NoList) = s /\ Chained(NoList, s) = s
               /\ LastPart(s, s) /\ LastPart(NoList, s) /\ LastPart(s, Chained(t, s))
               /\ LastPart(s, t) /\ LastPart(t, u) => LastPart(s, u)
               /\ LastPart(s, t) => LastPart(Chained(s, u), Chained(t, u))
    <2>1. 0 \in Nat
      OBVIOUS
    <2>2. s \o t \in Lists
      BY <2>1, EndsOn, Zenon
    <2>3. s \o <<>> = s /\ <<>> \o s = s /\ LastPart(s, s) /\ LastPart(<<>>, s)
      BY <2>1, EndsOn, Zenon
    <2>4. LastPart(s, s) => LastPart(s, t \o s)
      BY <2>1, EndsOn, Zenon
    <2>5. /\ LastPart(s, t) /\ LastPart(t, u) => LastPart(s, u)
          /\ LastPart(s, t) => LastPart(s \o u, t \o u)
      BY <2>1, EndsOn, Zenon
    <2>6. QED
      BY <2>2, <2>3, <2>4, <2>5, Zenon DEF Chained, NoList
  <1>3. QED
    BY <1>1, <1>2

\* What is put behind both.
LEMMA BothEnd ==
    ASSUME NEW s \in Lists, NEW t \in Lists, NEW u \in Lists, LastPart(s, t)
    PROVE  LastPart(Chained(s, u), Chained(t, u))
  BY ChainedIs

\* The lists of q up to each position, one behind the other.
Flattens(f, q, n) ==
    /\ f \in [0 .. n -> Lists] /\ f[0] = NoList
    /\ \A i \in 1 .. n : f[i] = Chained(f[i - 1], q[i])

\* What FlattenSeq yields is the last of them.
LEMMA FlattenIs ==
    ASSUME NEW n \in Nat \ {0}, NEW q \in Seq(Lists), Len(q) = n
    PROVE  \E f : Flattens(f, q, n) /\ FlattenSeq(q) = f[n]
  <1> DEFINE G == [i \in 1 .. n |-> [s \in Lists |-> Chained(s, q[i])]]
             Step(g) == [i \in 1 .. n |-> IF i = 1 THEN q[i] ELSE Chained(g[i - 1], q[i])]
             c == CHOOSE g : g = Step(g)
  <1>1. NoList \in Lists /\ \A i \in 1 .. n : q[i] \in Lists
    BY DEF Lists, NoList
  <1>2. \A i \in 1 .. n : \A s \in Lists : Chained(s, q[i]) \in Lists
    BY <1>1, ChainedIs
  <1>3. G \in [1 .. n -> [Lists -> Lists]]
    BY <1>2
  <1>4. PICK f : Iterated(f, n, Lists, NoList, G)
    <2> HIDE DEF G
    <2>1. QED
      BY <1>1, <1>3, Iterates
  <1>5. Flattens(f, q, n)
    BY <1>4 DEF Flattens, Iterated
  <1>6. FlattenSeq(q) = c[n]
    BY Zenon DEF FlattenSeq, Chained
  <1>7. \E g : g = Step(g)
    <2> DEFINE g == [i \in 1 .. n |-> f[i]]
    <2>1. f[1] = q[1]
      <3>1. f[1] = Chained(f[0], q[1]) /\ f[0] = NoList /\ q[1] \in Lists
        BY <1>1, <1>5 DEF Flattens
      <3>2. QED
        BY <3>1, ChainedIs
    <2>2. \A i \in 1 .. n : i # 1 => f[i] = Chained(f[i - 1], q[i]) /\ i - 1 \in 1 .. n
      BY <1>5 DEF Flattens
    <2>3. \A i \in 1 .. n : f[i] = IF i = 1 THEN q[i] ELSE Chained(g[i - 1], q[i])
      BY <2>1, <2>2
    <2>4. g = Step(g)
      BY <2>3
    <2> HIDE DEF g, Step
    <2>5. QED
      BY <2>4
  <1>8. c = Step(c)
    <2> HIDE DEF Step
    <2>1. QED
      BY <1>7, Zenon
  <1> HIDE DEF c
  <1>9. \A i \in 1 .. n : c[i] = IF i = 1 THEN q[i] ELSE Chained(c[i - 1], q[i])
    BY <1>8
  <1> DEFINE T == {i \in 0 .. n : i = 0 \/ c[i] = f[i]}
  <1>10. 0 \in T
    OBVIOUS
  <1>11. ASSUME NEW i \in 1 .. n, i - 1 \in T
         PROVE  i \in T
    <2>1. f[i] = Chained(f[i - 1], q[i]) /\ f[0] = NoList /\ q[i] \in Lists
      BY <1>1, <1>5 DEF Flattens
    <2>2. CASE i = 1
      <3>1. i - 1 = 0 /\ Chained(NoList, q[i]) = q[i]
        BY <2>1, <2>2, ChainedIs
      <3>2. QED
        BY <1>9, <2>1, <2>2, <3>1
    <2>3. CASE i # 1
      BY <1>9, <1>11, <2>1, <2>3
    <2>4. QED
      BY <2>2, <2>3
  <1>12. 0 .. n \subseteq T
    <2> HIDE DEF T
    <2>1. QED
      BY <1>10, <1>11, UpTo
  <1>13. c[n] = f[n]
    BY <1>12
  <1>14. QED
    BY <1>5, <1>6, <1>13

\* Two lists of lists and what they flatten to.
Pair(f, q, g, r, n) ==
    /\ q \in Seq(Lists) /\ Len(q) = n /\ Flattens(f, q, n)
    /\ r \in Seq(Lists) /\ Len(r) = n /\ Flattens(g, r, n)

\* Where lists are equal the last part stays one.
LEMMA RestKeeps ==
    ASSUME NEW n \in Nat, NEW f, NEW q, NEW g, NEW r, Pair(f, q, g, r, n),
           NEW i \in 0 .. n, LastPart(g[i], f[i]), \A k \in i + 1 .. n : r[k] = q[k]
    PROVE  LastPart(g[n], f[n])
  <1> DEFINE T == {k \in 0 .. n : k >= i => LastPart(g[k], f[k])}
  <1>1. 0 \in T
    <2>1. 0 >= i => i = 0
      OBVIOUS
    <2>2. QED
      BY <2>1
  <1>2. ASSUME NEW k \in 1 .. n, k - 1 \in T
        PROVE  k \in T
    <2>1. CASE k <= i
      BY <2>1
    <2>2. CASE k > i
      <3>1. k \in i + 1 .. n /\ k - 1 >= i /\ k - 1 \in 0 .. n
        BY <2>2
      <3>2. LastPart(g[k - 1], f[k - 1]) /\ r[k] = q[k]
        BY <1>2, <3>1
      <3>3. /\ g[k] = Chained(g[k - 1], r[k]) /\ f[k] = Chained(f[k - 1], q[k])
            /\ g[k - 1] \in Lists /\ f[k - 1] \in Lists
        BY <3>1 DEF Pair, Flattens
      <3>4. q[k] \in Lists
        BY DEF Pair
      <3>5. LastPart(Chained(g[k - 1], q[k]), Chained(f[k - 1], q[k]))
        BY <3>2, <3>3, <3>4, BothEnd
      <3>6. LastPart(g[k], f[k])
        BY <3>2, <3>3, <3>5
      <3>7. QED
        BY <3>6
    <2>3. QED
      BY <2>1, <2>2
  <1>3. 0 .. n \subseteq T
    <2> HIDE DEF T
    <2>1. QED
      BY <1>1, <1>2, UpTo
  <1>4. QED
    BY <1>3

\* NoList flattens to nothing.
LEMMA BlankIs ==
    ASSUME NEW n \in Nat, NEW f, NEW q, Flattens(f, q, n),
           NEW i \in 0 .. n, \A k \in 1 .. i : q[k] = NoList
    PROVE  \A k \in 0 .. i : f[k] = NoList
  <1> DEFINE T == {k \in 0 .. i : f[k] = NoList}
  <1>1. 0 \in T
    BY DEF Flattens
  <1>2. ASSUME NEW k \in 1 .. i, k - 1 \in T
        PROVE  k \in T
    <2>1. f[k] = Chained(f[k - 1], q[k]) /\ q[k] = NoList /\ f[k - 1] = NoList
      BY <1>2 DEF Flattens
    <2>2. Chained(NoList, NoList) = NoList
      BY DEF Chained, NoList
    <2>3. QED
      BY <2>1, <2>2
  <1>3. 0 .. i \subseteq T
    <2> HIDE DEF T
    <2>1. QED
      BY <1>1, <1>2, UpTo
  <1>4. QED
    BY <1>3

\* The same lists flatten to the same.
LEMMA SameIs ==
    ASSUME NEW n \in Nat, NEW f, NEW q, NEW g, NEW r, Pair(f, q, g, r, n),
           NEW i \in 0 .. n, \A k \in 1 .. i : r[k] = q[k]
    PROVE  \A k \in 0 .. i : g[k] = f[k]
  <1> DEFINE T == {k \in 0 .. i : g[k] = f[k]}
  <1>1. 0 \in T
    BY DEF Pair, Flattens
  <1>2. ASSUME NEW k \in 1 .. i, k - 1 \in T
        PROVE  k \in T
    <2>1. /\ g[k] = Chained(g[k - 1], r[k]) /\ f[k] = Chained(f[k - 1], q[k])
          /\ g[k - 1] = f[k - 1] /\ r[k] = q[k]
      BY <1>2 DEF Pair, Flattens
    <2>2. g[k] = f[k]
      BY <2>1
    <2>3. QED
      BY <2>2
  <1>3. 0 .. i \subseteq T
    <2> HIDE DEF T
    <2>1. QED
      BY <1>1, <1>2, UpTo
  <1>4. QED
    BY <1>3

----------------------------------------------------------------------------
(* Lists of lists                                                          *)

\* One list behind the other.
LEMMA ConcatIs ==
    ASSUME NEW S, NEW s \in Seq(S), NEW t \in Seq(S), NEW x \in S
    PROVE  /\ <<>> \in Seq(S) /\ s \o t \in Seq(S)
           /\ s \o <<>> = s /\ <<>> \o s = s
           /\ s \o Append(t, x) = Append(s \o t, x)
           /\ Append(s, x) = s \o <<x>>
  OBVIOUS

\* The elements of a list of lists up to each position.
Gathers(f, q, n) ==
    /\ f[0] = <<>>
    /\ \A i \in 1 .. n : f[i] = Chained(f[i - 1], q[i])

\* What FlattenSeq yields is the last of them.
LEMMA FlattenTo ==
    ASSUME NEW S, NEW q \in Seq(Seq(S))
    PROVE  \E f \in [0 .. Len(q) -> Seq(S)] : Gathers(f, q, Len(q)) /\ FlattenSeq(q) = f[Len(q)]
  <1> DEFINE n == Len(q)
             A == Seq(S)
             e == <<>>
             G == [i \in 1 .. n |-> [s \in A |-> Chained(s, q[i])]]
             Step(g) == [i \in 1 .. n |-> IF i = 1 THEN q[i] ELSE Chained(g[i - 1], q[i])]
             c == CHOOSE g : g = Step(g)
  <1>1. e \in A /\ n \in Nat /\ \A i \in 1 .. n : q[i] \in A
    OBVIOUS
  <1>2. \A i \in 1 .. n : \A s \in A : Chained(s, q[i]) \in A
    <2>1. \A s, t \in A : Chained(s, t) \in A
      BY DEF Chained
    <2> HIDE DEF A
    <2>2. QED
      BY <1>1, <2>1
  <1>3. G \in [1 .. n -> [A -> A]]
    <2> HIDE DEF A, n
    <2>1. QED
      BY <1>2
  <1>4. PICK f : Iterated(f, n, A, e, G)
    <2> HIDE DEF G, A, e, n
    <2>1. QED
      BY <1>1, <1>3, Iterates
  <1>5. f \in [0 .. n -> A] /\ f[0] = e /\ \A i \in 1 .. n : f[i] = G[i][f[i - 1]]
    BY <1>4 DEF Iterated
  <1>6. \A i \in 1 .. n : f[i - 1] \in A /\ f[i] = Chained(f[i - 1], q[i])
    <2> HIDE DEF A, n, e
    <2>1. ASSUME NEW i \in 1 .. n
          PROVE  f[i - 1] \in A /\ f[i] = Chained(f[i - 1], q[i])
      <3>1. i - 1 \in 0 .. n /\ f[i - 1] \in A
        BY <1>1, <1>5
      <3>2. G[i][f[i - 1]] = Chained(f[i - 1], q[i])
        BY <3>1
      <3>3. QED
        BY <1>5, <3>1, <3>2
    <2>2. QED
      BY <2>1
  <1>7. Gathers(f, q, n)
    BY <1>5, <1>6 DEF Gathers
  <1>8. CASE n = 0
    <2>1. q = <<>> /\ FlattenSeq(q) = q
      BY <1>8 DEF FlattenSeq
    <2>2. FlattenSeq(q) = f[n]
      BY <1>5, <1>8, <2>1
    <2>3. QED
      BY <1>5, <1>7, <2>2
  <1>9. CASE n # 0
    <2>1. FlattenSeq(q) = c[n]
      BY <1>9, Zenon DEF FlattenSeq, Chained
    <2>0. f[0] = <<>> /\ \A i \in 1 .. n : Chained(<<>>, q[i]) = q[i]
      BY <1>1, <1>5 DEF Chained
    <2> HIDE DEF n, A, e
    <2>2. \E g : g = Step(g)
      <3> DEFINE g == [i \in 1 .. n |-> f[i]]
      <3>1. \A i \in 1 .. n : f[i] = IF i = 1 THEN q[i] ELSE Chained(g[i - 1], q[i])
        <4>1. ASSUME NEW i \in 1 .. n
              PROVE  f[i] = IF i = 1 THEN q[i] ELSE Chained(g[i - 1], q[i])
          <5>1. CASE i = 1
            <6>1. f[1] = Chained(f[0], q[1])
              BY <1>6, <5>1
            <6>2. f[0] = <<>> /\ Chained(<<>>, q[1]) = q[1]
              BY <2>0, <5>1
            <6>3. QED
              BY <5>1, <6>1, <6>2
          <5>2. CASE i # 1
            <6>1. i - 1 \in 1 .. n
              BY <1>1, <5>2
            <6> HIDE DEF n
            <6>2. g[i - 1] = f[i - 1]
              BY <6>1
            <6>3. QED
              BY <1>6, <5>2, <6>2
          <5>3. QED
            BY <5>1, <5>2
        <4>2. QED
          BY <4>1
      <3>2. g = Step(g)
        <4> HIDE DEF n
        <4>1. QED
          BY <3>1
      <3> HIDE DEF g, Step
      <3>3. QED
        BY <3>2
    <2>3. c = Step(c)
      <3> HIDE DEF Step
      <3>1. QED
        BY <2>2, Zenon
    <2> HIDE DEF c
    <2>4. \A i \in 1 .. n : c[i] = IF i = 1 THEN q[i] ELSE Chained(c[i - 1], q[i])
      <3> HIDE DEF n
      <3>1. QED
        BY <2>3
    <2> DEFINE T == {i \in 0 .. n : i = 0 \/ c[i] = f[i]}
    <2>5. 0 \in T
      BY <1>1
    <2>6. ASSUME NEW i \in 1 .. n, i - 1 \in T
          PROVE  i \in T
      <3>1. i \in 0 .. n /\ f[i] = Chained(f[i - 1], q[i])
        BY <1>1, <1>6
      <3>2. CASE i = 1
        <4>1. f[1] = Chained(f[0], q[1])
          BY <3>1, <3>2
        <4>2. f[0] = <<>> /\ Chained(<<>>, q[1]) = q[1]
          BY <2>0, <3>2
        <4>3. c[1] = q[1]
          BY <2>4, <3>2
        <4>4. QED
          BY <3>1, <3>2, <4>1, <4>2, <4>3
      <3>3. CASE i # 1
        <4>1. c[i - 1] = f[i - 1] /\ c[i] = Chained(c[i - 1], q[i])
          BY <1>1, <2>4, <2>6, <3>3
        <4>2. c[i] = f[i]
          BY <3>1, <4>1
        <4>3. QED
          BY <3>1, <4>2
      <3>4. QED
        BY <3>2, <3>3
    <2>7. 0 .. n \subseteq T
      <3> HIDE DEF T, n
      <3>1. QED
        BY <1>1, <2>5, <2>6, UpTo
    <2>8. FlattenSeq(q) = f[n]
      BY <1>1, <1>9, <2>1, <2>7
    <2>9. QED
      BY <1>5, <1>7, <2>8 DEF n, A
  <1>10. QED
    BY <1>8, <1>9

\* One list more.
LEMMA FlattenAppend ==
    ASSUME NEW S, NEW q \in Seq(Seq(S)), NEW t \in Seq(S)
    PROVE  /\ FlattenSeq(q) \in Seq(S)
           /\ FlattenSeq(Append(q, t)) = FlattenSeq(q) \o t
  <1> DEFINE A == Seq(S)
             n == Len(q)
             r == Append(q, t)
  <1>1. /\ n \in Nat /\ r \in Seq(A) /\ Len(r) = n + 1 /\ r[n + 1] = t
        /\ \A i \in 1 .. n : r[i] = q[i]
    <2> HIDE DEF A
    <2>1. q \in Seq(A) /\ t \in A
      BY DEF A
    <2>2. QED
      BY <2>1
  <1> HIDE DEF r
  <1>2. PICK f \in [0 .. n -> A] : Gathers(f, q, n) /\ FlattenSeq(q) = f[n]
    BY FlattenTo
  <1>3. PICK g \in [0 .. Len(r) -> A] : Gathers(g, r, Len(r)) /\ FlattenSeq(r) = g[Len(r)]
    BY <1>1, FlattenTo
  <1> HIDE DEF A, n
  <1> DEFINE T == {i \in 0 .. n : f[i] = g[i]}
  <1>4. 0 \in T
    BY <1>1, <1>2, <1>3 DEF Gathers
  <1>5. ASSUME NEW i \in 1 .. n, i - 1 \in T
        PROVE  i \in T
    <2>1. i \in 1 .. Len(r) /\ i \in 0 .. n
      BY <1>1
    <2>2. f[i] = Chained(f[i - 1], q[i]) /\ g[i] = Chained(g[i - 1], r[i])
      BY <1>2, <1>3, <2>1 DEF Gathers
    <2>3. r[i] = q[i]
      BY <1>1
    <2>4. f[i] = g[i]
      BY <1>5, <2>2, <2>3
    <2>5. QED
      BY <2>1, <2>4
  <1>6. 0 .. n \subseteq T
    <2> HIDE DEF T
    <2>1. QED
      BY <1>1, <1>4, <1>5, UpTo
  <1>7. f[n] = g[n]
    BY <1>1, <1>6
  <1>8. g[n + 1] = Chained(g[n], t)
    <2>1. n + 1 \in 1 .. Len(r) /\ (n + 1) - 1 = n
      BY <1>1
    <2>2. QED
      BY <1>1, <1>3, <2>1 DEF Gathers
  <1>9. f[n] \in A
    BY <1>1, <1>2
  <1>10. QED
    BY <1>1, <1>2, <1>3, <1>7, <1>8, <1>9 DEF r, A, Chained

LEMMA Regroups ==
    ASSUME NEW S
    PROVE  \A s, t, u \in Seq(S) : Chained(s, Chained(t, u)) = Chained(Chained(s, t), u)
  BY DEF Chained

\* A longer last element makes the whole longer.
LEMMA FlattenLast ==
    ASSUME NEW S, NEW q \in Seq(Seq(S)), NEW w \in Seq(Seq(S)), NEW t \in Seq(S),
           Len(q) > 0, Len(w) = Len(q), \A k \in 1 .. Len(q) - 1 : w[k] = q[k],
           w[Len(q)] = q[Len(q)] \o t
    PROVE  FlattenSeq(w) = FlattenSeq(q) \o t
  <1> DEFINE A == Seq(S)
             n == Len(q)
             p == [k \in 1 .. n - 1 |-> q[k]]
             a == q[n]
             b == w[n]
  <1> HIDE DEF A
  <1>1. q \in Seq(A) /\ w \in Seq(A) /\ n \in Nat /\ n > 0 /\ Len(w) = n
    BY DEF A
  <1>2. a \in A /\ b \in A /\ b = a \o t /\ \A k \in 1 .. n - 1 : w[k] = q[k]
    <2>1. b = a \o t /\ \A k \in 1 .. n - 1 : w[k] = q[k]
      OBVIOUS
    <2>2. n \in 1 .. n
      BY <1>1
    <2>3. a \in A /\ b \in A
      <3>1. \A r \in Seq(A) : \A k \in 1 .. Len(r) : r[k] \in A
        OBVIOUS
      <3>2. n \in 1 .. Len(w)
        BY <1>1, <2>2
      <3>3. QED
        BY <1>1, <2>2, <3>1, <3>2
    <2>4. QED
      BY <2>1, <2>3
  <1>3. p \in Seq(A) /\ Len(p) = n - 1 /\ \A k \in 1 .. n - 1 : p[k] = q[k]
    BY <1>1
  <1> HIDE DEF p, n, a, b
  <1>4. q = Append(p, a)
    <2> DEFINE v == Append(p, a)
    <2>1. v \in Seq(A) /\ Len(v) = n /\ v[n] = a /\ \A k \in 1 .. n - 1 : v[k] = q[k]
      BY <1>1, <1>2, <1>3
    <2> HIDE DEF v
    <2>2. \A k \in 1 .. n : v[k] = q[k]
      <3>1. \A k \in 1 .. n : k = n \/ k \in 1 .. n - 1
        BY <1>1
      <3>2. QED
        BY <2>1, <3>1 DEF a
    <2>3. v = q
      <3>1. q \in Seq(A) /\ Len(q) = n
        BY <1>1 DEF n
      <3>2. QED
        BY <2>1, <2>2, <3>1
    <2>4. QED
      BY <2>3 DEF v
  <1>5. w = Append(p, b)
    <2> DEFINE v == Append(p, b)
    <2>1. v \in Seq(A) /\ Len(v) = n /\ v[n] = b /\ \A k \in 1 .. n - 1 : v[k] = q[k]
      BY <1>1, <1>2, <1>3
    <2> HIDE DEF v
    <2>2. \A k \in 1 .. n : v[k] = w[k]
      <3>1. \A k \in 1 .. n : k = n \/ k \in 1 .. n - 1
        BY <1>1
      <3>2. QED
        BY <1>2, <2>1, <3>1 DEF b
    <2>3. v = w
      BY <1>1, <2>1, <2>2
    <2>4. QED
      BY <2>3 DEF v
  <1>6. p \in Seq(Seq(S)) /\ a \in Seq(S) /\ b \in Seq(S)
    BY <1>2, <1>3 DEF A
  <1> DEFINE f == FlattenSeq(p)
  <1>7. f \in Seq(S) /\ FlattenSeq(Append(p, a)) = f \o a
    BY <1>6, FlattenAppend
  <1>8. FlattenSeq(Append(p, b)) = f \o b
    BY <1>6, FlattenAppend
  <1> HIDE DEF f
  <1>9. f \o (a \o t) = (f \o a) \o t
    <2>1. f \in Seq(S) /\ a \in Seq(S) /\ t \in Seq(S)
      BY <1>6, <1>7
    <2>2. Chained(f, Chained(a, t)) = Chained(Chained(f, a), t)
      BY <2>1, Regroups
    <2>3. QED
      BY <2>2, Zenon DEF Chained
  <1>10. QED
    BY <1>2, <1>4, <1>5, <1>7, <1>8, <1>9

----------------------------------------------------------------------------
(* Sums                                                                    *)

\* h has the sums of f over the subsets of S.
AddsUp(h, f, S) ==
    /\ h \in [SUBSET S -> Int] /\ h[{}] = 0
    /\ \A s \in SUBSET S : s # {} =>
          \E x \in s : x = (CHOOSE y \in s : TRUE) /\ h[s] = f[x] + h[s \ {x}]

LEMMA OneLess ==
    ASSUME NEW S, IsFiniteSet(S), NEW s \in SUBSET S, NEW x \in s
    PROVE  /\ IsFiniteSet(s) /\ s \ {x} \in SUBSET S /\ Cardinality(s) \in Nat \ {0}
           /\ Cardinality(s \ {x}) = Cardinality(s) - 1
           /\ Cardinality(s) <= Cardinality(S)
  <1>1. IsFiniteSet(s) /\ Cardinality(s) <= Cardinality(S)
    BY FS_Subset
  <1>2. /\ Cardinality(s \ {x}) = Cardinality(s) - 1 /\ Cardinality(s) \in Nat
        /\ Cardinality(s \ {x}) \in Nat
    BY <1>1, FS_RemoveElement, FS_CardinalityType
  <1>3. QED
    BY <1>1, <1>2

\* SumFunctionOnSet sums.
LEMMA SumIs ==
    ASSUME NEW S, IsFiniteSet(S), NEW f, \A x \in S : f[x] \in Int
    PROVE  \E h : AddsUp(h, f, S) /\ SumFunctionOnSet(f, S) = h[S]
  <1> DEFINE n == Cardinality(S)
             A == [SUBSET S -> Int]
             e == [s \in SUBSET S |-> 0]
             pick(s) == CHOOSE y \in s : TRUE
             next(g) == [s \in SUBSET S |-> IF s = {} THEN 0 ELSE f[pick(s)] + g[s \ {pick(s)}]]
             G == [i \in 1 .. n |-> [g \in A |-> next(g)]]
             c == CHOOSE g : g = next(g)
  <1>0. \A s \in SUBSET S : s # {} => pick(s) \in s /\ pick(s) \in S /\ s \ {pick(s)} \in SUBSET S
    OBVIOUS
  <1>1. n \in Nat /\ e \in A
    BY FS_CardinalityType
  <1>2. \A g \in A : next(g) \in A
    BY <1>0
  <1>3. G \in [1 .. n -> [A -> A]]
    <2> HIDE DEF A, next
    <2>1. QED
      BY <1>2
  <1>4. PICK F : Iterated(F, n, A, e, G)
    <2> HIDE DEF G, A, e, n
    <2>1. QED
      BY <1>1, <1>3, Iterates
  <1>5. /\ F[0] = e /\ (\A i \in 0 .. n : F[i] \in A) /\ \A i \in 1 .. n : F[i] = next(F[i - 1])
    <2>1. F \in [0 .. n -> A] /\ F[0] = e /\ \A i \in 1 .. n : F[i] = G[i][F[i - 1]]
      BY <1>4 DEF Iterated
    <2> HIDE DEF A, next, n, e
    <2>2. \A i \in 1 .. n : i - 1 \in 0 .. n /\ F[i - 1] \in A
      BY <1>1, <2>1
    <2>3. \A i \in 1 .. n : G[i][F[i - 1]] = next(F[i - 1])
      BY <2>2
    <2> HIDE DEF G
    <2>4. QED
      BY <2>1, <2>3
  <1> DEFINE h == [s \in SUBSET S |-> F[Cardinality(s)][s]]
  <1>6. \A s \in SUBSET S : Cardinality(s) \in 0 .. n /\ (s = {} <=> Cardinality(s) = 0)
    BY <1>1, FS_Subset, FS_CardinalityType, FS_EmptySet
  <1>7. h \in A
    <2>1. \A s \in SUBSET S : F[Cardinality(s)] \in A
      BY <1>5, <1>6
    <2>2. \A s \in SUBSET S : F[Cardinality(s)][s] \in Int
      BY <2>1
    <2>3. QED
      BY <2>2
  <1>8. ASSUME NEW s \in SUBSET S
        PROVE  h[s] = IF s = {} THEN 0 ELSE f[pick(s)] + h[s \ {pick(s)}]
    <2>1. CASE s = {}
      BY <1>5, <1>6, <2>1
    <2>2. CASE s # {}
      <3> DEFINE x == pick(s)
                 r == s \ {x}
                 k == Cardinality(s)
      <3>1. x \in s /\ r \in SUBSET S
        BY <1>0, <2>2
      <3>2. k \in 1 .. n /\ Cardinality(r) = k - 1
        <4>1. k \in Nat \ {0} /\ k <= n /\ Cardinality(r) = k - 1
          BY <3>1, OneLess
        <4> HIDE DEF k, n, r
        <4>2. QED
          BY <1>1, <4>1
      <3>3. h[s] = F[k][s] /\ h[r] = F[k - 1][r]
        BY <3>1, <3>2
      <3>4. F[k] = next(F[k - 1])
        BY <1>5, <3>2
      <3>5. F[k][s] = f[x] + F[k - 1][r]
        <4>1. next(F[k - 1])[s] = f[x] + F[k - 1][r]
          <5> HIDE DEF k
          <5>1. QED
            BY <2>2
        <4>2. QED
          BY <3>4, <4>1
      <3> HIDE DEF h, r, k
      <3>6. h[s] = f[x] + h[r]
        BY <3>3, <3>5
      <3>7. QED
        BY <2>2, <3>6 DEF r
    <2>3. QED
      BY <2>1, <2>2
  <1>9. h = next(h)
    <2>1. h = [s \in SUBSET S |-> h[s]]
      OBVIOUS
    <2> HIDE DEF h
    <2>2. QED
      BY <1>8, <2>1
  <1>10. SumFunctionOnSet(f, S) = c[S]
    BY Zenon DEF SumFunctionOnSet, FoldFunctionOnSet, MapThenFoldSet
  <1>11. c = next(c)
    <2> HIDE DEF next, h
    <2>1. QED
      BY <1>9, Zenon
  <1> HIDE DEF c, h
  <1>12. \A s \in SUBSET S : c[s] = IF s = {} THEN 0 ELSE f[pick(s)] + c[s \ {pick(s)}]
    BY <1>11
  <1> DEFINE T == {k \in 0 .. n : \A s \in SUBSET S : Cardinality(s) = k => c[s] = h[s]}
  <1>13. 0 \in T
    <2>1. \A s \in SUBSET S : Cardinality(s) = 0 => c[s] = h[s]
      BY <1>6, <1>8, <1>12
    <2>2. QED
      BY <1>1, <2>1
  <1>14. ASSUME NEW k \in 1 .. n, k - 1 \in T
         PROVE  k \in T
    <2>1. ASSUME NEW s \in SUBSET S, Cardinality(s) = k
          PROVE  c[s] = h[s]
      <3> DEFINE x == pick(s)
                 r == s \ {x}
      <3>1. s # {} /\ x \in s /\ r \in SUBSET S
        BY <1>0, <1>1, <1>6, <2>1
      <3>2. Cardinality(r) = k - 1
        BY <2>1, <3>1, OneLess
      <3>3. c[r] = h[r]
        BY <1>14, <3>1, <3>2
      <3>4. c[s] = f[x] + c[r] /\ h[s] = f[x] + h[r]
        BY <1>8, <1>12, <3>1
      <3>5. QED
        BY <3>3, <3>4
    <2>2. QED
      BY <1>1, <2>1
  <1>15. 0 .. n \subseteq T
    <2> HIDE DEF T
    <2>1. QED
      BY <1>1, <1>13, <1>14, UpTo
  <1>16. c[S] = h[S]
    BY <1>1, <1>15
  <1>17. AddsUp(h, f, S)
    <2>1. \A s \in SUBSET S : s # {} => pick(s) \in s /\ h[s] = f[pick(s)] + h[s \ {pick(s)}]
      BY <1>0, <1>8
    <2>2. h[{}] = 0
      BY <1>8
    <2>3. QED
      BY <1>7, <2>1, <2>2 DEF AddsUp
  <1>18. QED
    BY <1>10, <1>16, <1>17

\* The order of the summands does not matter.
LEMMA SumTakes ==
    ASSUME NEW S, IsFiniteSet(S), NEW f, \A x \in S : f[x] \in Int, NEW h, AddsUp(h, f, S),
           NEW s \in SUBSET S, NEW x \in s
    PROVE  h[s] = f[x] + h[s \ {x}]
  <1> DEFINE n == Cardinality(S)
             Good(t) == \A y \in t : h[t] = f[y] + h[t \ {y}]
             T == {k \in 0 .. n : \A t \in SUBSET S : Cardinality(t) = k => Good(t)}
  <1>1. n \in Nat
    BY FS_CardinalityType
  <1>2. /\ \A t \in SUBSET S : h[t] \in Int
        /\ \A t \in SUBSET S : t # {} => \E y \in t : h[t] = f[y] + h[t \ {y}]
    BY DEF AddsUp
  <1>3. 0 \in T
    <2>1. ASSUME NEW t \in SUBSET S, Cardinality(t) = 0
          PROVE  Good(t)
      BY <2>1, OneLess
    <2>2. QED
      BY <1>1, <2>1
  <1>4. ASSUME NEW k \in 1 .. n, k - 1 \in T
        PROVE  k \in T
    <2>1. ASSUME NEW t \in SUBSET S, Cardinality(t) = k, NEW y \in t
          PROVE  h[t] = f[y] + h[t \ {y}]
      <3>1. PICK z \in t : h[t] = f[z] + h[t \ {z}]
        BY <1>2
      <3>2. CASE z = y
        BY <3>1, <3>2
      <3>3. CASE z # y
        <4> DEFINE a == t \ {z}
                   b == t \ {y}
                   r == a \ {y}
        <4>1. a \in SUBSET S /\ b \in SUBSET S /\ r \in SUBSET S /\ r = b \ {z} /\ y \in a /\ z \in b
          BY <3>3
        <4>2. Cardinality(a) = k - 1 /\ Cardinality(b) = k - 1
          BY <2>1, OneLess
        <4>3. h[a] = f[y] + h[r] /\ h[b] = f[z] + h[r]
          <5>1. Good(a) /\ Good(b)
            <6> HIDE DEF Good, a, b
            <6>1. QED
              BY <1>4, <4>1, <4>2
          <5>2. QED
            BY <4>1, <5>1
        <4>4. f[y] \in Int /\ f[z] \in Int /\ h[r] \in Int
          BY <1>2, <4>1
        <4> HIDE DEF a, b, r
        <4>5. h[t] = f[z] + h[a]
          BY <3>1 DEF a
        <4>6. h[t] = f[y] + h[b]
          BY <4>3, <4>4, <4>5
        <4>7. QED
          BY <4>6 DEF b
      <3>4. QED
        BY <3>2, <3>3
    <2>2. QED
      BY <1>1, <2>1
  <1>5. 0 .. n \subseteq T
    <2> HIDE DEF T
    <2>1. QED
      BY <1>1, <1>3, <1>4, UpTo
  <1>6. Cardinality(s) \in 0 .. n
    <2>1. Cardinality(s) \in Nat /\ Cardinality(s) <= n
      BY OneLess
    <2> HIDE DEF n
    <2>2. QED
      BY <1>1, <2>1
  <1>7. QED
    BY <1>5, <1>6

\* What is known of a sum.
LEMMA SumOfNone ==
    ASSUME NEW f
    PROVE  SumFunctionOnSet(f, {}) = 0
  <1>1. IsFiniteSet({}) /\ \A x \in {} : f[x] \in Int
    BY FS_EmptySet
  <1>2. PICK h : AddsUp(h, f, {}) /\ SumFunctionOnSet(f, {}) = h[{}]
    BY <1>1, SumIs
  <1>3. QED
    BY <1>2 DEF AddsUp

LEMMA SumOfOneMore ==
    ASSUME NEW S, IsFiniteSet(S), NEW f, NEW x, x \notin S, \A y \in S \cup {x} : f[y] \in Int
    PROVE  /\ SumFunctionOnSet(f, S) \in Int
           /\ SumFunctionOnSet(f, S \cup {x}) = f[x] + SumFunctionOnSet(f, S)
  <1> DEFINE R == S \cup {x}
  <1>1. IsFiniteSet(R) /\ S \in SUBSET R /\ R \in SUBSET R /\ x \in R /\ R \ {x} = S
    BY FS_AddElement
  <1>2. \A y \in R : f[y] \in Int
    OBVIOUS
  <1> HIDE DEF R
  <1>3. PICK h : AddsUp(h, f, R) /\ SumFunctionOnSet(f, R) = h[R]
    BY <1>1, <1>2, SumIs
  <1>4. h[R] = f[x] + h[S]
    BY <1>1, <1>2, <1>3, SumTakes
  <1>5. PICK g : AddsUp(g, f, S) /\ SumFunctionOnSet(f, S) = g[S]
    BY SumIs
  <1> DEFINE n == Cardinality(S)
             T == {k \in 0 .. n : \A s \in SUBSET S : Cardinality(s) = k => g[s] = h[s]}
  <1>6. n \in Nat
    BY FS_CardinalityType
  <1>7. 0 \in T
    <2>1. ASSUME NEW s \in SUBSET S, Cardinality(s) = 0
          PROVE  g[s] = h[s]
      <3>1. s = {}
        BY <2>1, OneLess
      <3>2. QED
        BY <1>3, <1>5, <3>1 DEF AddsUp
    <2>2. QED
      BY <1>6, <2>1
  <1>8. ASSUME NEW k \in 1 .. n, k - 1 \in T
        PROVE  k \in T
    <2>1. ASSUME NEW s \in SUBSET S, Cardinality(s) = k
          PROVE  g[s] = h[s]
      <3>1. s # {}
        BY <1>6, <2>1, FS_EmptySet
      <3>2. PICK y \in s : TRUE
        BY <3>1
      <3>3. s \ {y} \in SUBSET S /\ Cardinality(s \ {y}) = k - 1
        BY <2>1, OneLess
      <3>4. g[s \ {y}] = h[s \ {y}]
        BY <1>8, <3>3
      <3>5. g[s] = f[y] + g[s \ {y}]
        BY <1>2, <1>1, <1>5, SumTakes
      <3>6. h[s] = f[y] + h[s \ {y}]
        <4>1. s \in SUBSET R
          BY <1>1
        <4>2. QED
          BY <1>1, <1>2, <1>3, <4>1, SumTakes
      <3>7. QED
        BY <3>4, <3>5, <3>6
    <2>2. QED
      BY <1>6, <2>1
  <1>9. 0 .. n \subseteq T
    <2> HIDE DEF T
    <2>1. QED
      BY <1>6, <1>7, <1>8, UpTo
  <1>10. g[S] = h[S]
    BY <1>6, <1>9
  <1>11. g[S] \in Int
    BY <1>5 DEF AddsUp
  <1>12. QED
    BY <1>3, <1>4, <1>5, <1>10, <1>11 DEF R

\* g lists 1 .. n, each number once.
Permutes(g, n) ==
    /\ g \in [1 .. n -> 1 .. n]
    /\ \A i, j \in 1 .. n : g[i] = g[j] => i = j
    /\ \A x \in 1 .. n : \E k \in 1 .. n : g[k] = x

\* f is taken from after[0], in the order of g.
Drains(after, f, g, n) ==
    /\ after[0] \in Int
    /\ \A k \in 1 .. n : after[k] = after[k - 1] - f[g[k]]

\* What is left of an amount from which f is taken in any order.
LEMMA SumInOrder ==
    ASSUME NEW n \in Nat, NEW g, Permutes(g, n), NEW f, \A x \in 1 .. n : f[x] \in Int,
           NEW after, Drains(after, f, g, n)
    PROVE  SumFunctionOnSet(f, 1 .. n) = after[0] - after[n]
  <1> DEFINE D == 1 .. n
             Taken(k) == {x \in D : \E j \in 1 .. k : g[j] = x}
             Good(k) == /\ IsFiniteSet(Taken(k)) /\ after[k] \in Int
                        /\ SumFunctionOnSet(f, Taken(k)) = after[0] - after[k]
             T == {k \in 0 .. n : Good(k)}
  <1> USE DEF Permutes, Drains
  <1>1. 0 \in T
    <2>1. Taken(0) = {}
      OBVIOUS
    <2> HIDE DEF Taken
    <2>2. Good(0)
      <3>1. SumFunctionOnSet(f, {}) = 0 /\ IsFiniteSet({})
        BY SumOfNone, FS_EmptySet
      <3>2. SumFunctionOnSet(f, Taken(0)) = 0 /\ IsFiniteSet(Taken(0))
        BY <2>1, <3>1
      <3>3. after[0] \in Int /\ after[0] - after[0] = 0
        OBVIOUS
      <3>4. QED
        BY <3>2, <3>3
    <2>3. QED
      BY <2>2
  <1>2. ASSUME NEW k \in 1 .. n, k - 1 \in T
        PROVE  k \in T
    <2> DEFINE S == Taken(k - 1)
               x == g[k]
    <2>1. k \in 0 .. n /\ x \in 1 .. n /\ \A j \in 1 .. k - 1 : j \in 1 .. n /\ j # k
      OBVIOUS
    <2>2. Taken(k) = S \cup {x}
      <3>1. \A j : j \in 1 .. k <=> (j = k \/ j \in 1 .. k - 1)
        OBVIOUS
      <3>2. x \in D
        OBVIOUS
      <3> HIDE DEF D
      <3>3. QED
        BY <3>1, <3>2
    <2>3. x \notin S /\ S \subseteq 1 .. n
      <3>1. \A j \in 1 .. k - 1 : g[j] # g[k]
        BY <2>1
      <3>2. QED
        BY <3>1
    <2>4. /\ IsFiniteSet(S) /\ after[k - 1] \in Int
          /\ SumFunctionOnSet(f, S) = after[0] - after[k - 1]
      BY <1>2
    <2> HIDE DEF S, x
    <2>5. \A y \in S \cup {x} : f[y] \in Int
      BY <2>1, <2>3
    <2>6. SumFunctionOnSet(f, S \cup {x}) = f[x] + SumFunctionOnSet(f, S)
      BY <2>3, <2>4, <2>5, SumOfOneMore
    <2>7. after[k] = after[k - 1] - f[x] /\ f[x] \in Int
      BY <2>1 DEF x
    <2>8. IsFiniteSet(S \cup {x})
      BY <2>4, FS_AddElement
    <2>9. SumFunctionOnSet(f, S \cup {x}) = after[0] - after[k] /\ after[k] \in Int
      <3> DEFINE y == f[x]
                 z == SumFunctionOnSet(f, S)
                 w == SumFunctionOnSet(f, S \cup {x})
                 a == after[0]
                 b == after[k - 1]
                 c == after[k]
      <3>1. y \in Int /\ b \in Int /\ a \in Int /\ c = b - y /\ z = a - b /\ w = y + z
        BY <2>4, <2>6, <2>7
      <3> HIDE DEF y, z, w, a, b, c
      <3>2. w = a - c /\ c \in Int
        BY <3>1
      <3>3. QED
        BY <3>2 DEF w, a, c
    <2> HIDE DEF Taken
    <2>10. Good(k)
      BY <2>2, <2>8, <2>9
    <2>11. QED
      BY <2>1, <2>10
  <1>3. 0 .. n \subseteq T
    <2> HIDE DEF T
    <2>1. QED
      BY <1>1, <1>2, UpTo
  <1>4. Good(n)
    <2> HIDE DEF Good
    <2>1. n \in 0 .. n
      OBVIOUS
    <2>2. n \in T
      BY <1>3, <2>1
    <2>3. QED
      BY <2>2
  <1>5. Taken(n) = 1 .. n
    OBVIOUS
  <1> HIDE DEF Taken
  <1>6. SumFunctionOnSet(f, Taken(n)) = after[0] - after[n]
    BY <1>4
  <1>7. QED
    BY <1>5, <1>6

\* A sum of fewer and smaller numbers is smaller.
LEMMA SumBelow ==
    ASSUME NEW n \in Nat, NEW S, S \subseteq 1 .. n, NEW f, NEW h,
           \A x \in 1 .. n : f[x] \in Nat, \A x \in S : h[x] \in Nat /\ h[x] <= f[x]
    PROVE  /\ SumFunctionOnSet(f, 1 .. n) \in Nat
           /\ SumFunctionOnSet(h, S) \in Nat
           /\ SumFunctionOnSet(h, S) <= SumFunctionOnSet(f, 1 .. n)
  <1> DEFINE Some(k) == S \cap (1 .. k)
             a(k) == SumFunctionOnSet(f, 1 .. k)
             b(k) == SumFunctionOnSet(h, Some(k))
             T == {k \in 0 .. n : a(k) \in Nat /\ b(k) \in Nat /\ b(k) <= a(k)}
  <1>1. 0 \in T
    <2>1. Some(0) = {} /\ 1 .. 0 = {}
      OBVIOUS
    <2>2. QED
      BY <2>1, SumOfNone
  <1>2. ASSUME NEW k \in 1 .. n, k - 1 \in T
        PROVE  k \in T
    <2> DEFINE D == 1 .. k - 1
               E == Some(k - 1)
    <2>1. k \in 0 .. n /\ k \in 1 .. n /\ 1 .. k = D \cup {k} /\ k \notin D /\ k \notin E
      OBVIOUS
    <2>2. IsFiniteSet(D) /\ IsFiniteSet(E)
      <3>1. IsFiniteSet(D)
        BY FS_Interval
      <3>2. E \in SUBSET D
        OBVIOUS
      <3>3. QED
        BY <3>1, <3>2, FS_Subset
    <2>3. a(k - 1) \in Nat /\ b(k - 1) \in Nat /\ b(k - 1) <= a(k - 1)
      BY <1>2
    <2>4. a(k) = f[k] + a(k - 1) /\ f[k] \in Nat
      <3>1. \A y \in D \cup {k} : f[y] \in Int
        OBVIOUS
      <3> HIDE DEF D
      <3>2. SumFunctionOnSet(f, D \cup {k}) = f[k] + SumFunctionOnSet(f, D)
        BY <2>1, <2>2, <3>1, SumOfOneMore
      <3>3. QED
        BY <2>1, <3>2 DEF D
    <2>5. CASE k \in S
      <3>1. Some(k) = E \cup {k}
        BY <2>5
      <3>2. \A y \in E \cup {k} : h[y] \in Int
        BY <2>5
      <3>3. h[k] \in Nat /\ h[k] <= f[k]
        BY <2>5
      <3> HIDE DEF E
      <3>4. SumFunctionOnSet(h, E \cup {k}) = h[k] + SumFunctionOnSet(h, E)
        BY <2>1, <2>2, <3>2, SumOfOneMore
      <3> HIDE DEF Some
      <3>5. b(k) = h[k] + b(k - 1)
        BY <3>1, <3>4 DEF E
      <3> HIDE DEF a, b
      <3>6. a(k) \in Nat /\ b(k) \in Nat /\ b(k) <= a(k)
        BY <2>3, <2>4, <3>3, <3>5
      <3>7. QED
        BY <2>1, <3>6
    <2>6. CASE k \notin S
      <3>1. Some(k) = E
        BY <2>6
      <3>2. b(k) = b(k - 1)
        BY <3>1
      <3> HIDE DEF a, b
      <3>3. a(k) \in Nat /\ b(k) \in Nat /\ b(k) <= a(k)
        BY <2>3, <2>4, <3>2
      <3>4. QED
        BY <2>1, <3>3
    <2>7. QED
      BY <2>5, <2>6
  <1>3. 0 .. n \subseteq T
    <2> HIDE DEF T
    <2>1. QED
      BY <1>1, <1>2, UpTo
  <1>4. Some(n) = S
    OBVIOUS
  <1>5. n \in T
    BY <1>3
  <1>6. QED
    BY <1>4, <1>5

----------------------------------------------------------------------------
(* Numbers in an order                                                     *)

\* f lists 1 .. n in the order L.
InLine(f, n, L) ==
    /\ f \in [1 .. n -> 1 .. n]
    /\ \A i, j \in 1 .. n : i < j => <<f[i], f[j]>> \in L

\* The least is first and the greatest is last.
LineEnds(f, n, L) ==
    \A a \in 1 .. n :
       /\ (\A x \in 1 .. n : x # a => <<a, x>> \in L) => f[1] = a
       /\ (\A x \in 1 .. n : x # a => <<x, a>> \in L) => f[n] = a

\* There is such a list.
LEMMA LineExists ==
    ASSUME NEW n \in Nat, NEW L, Orders(L, n)
    PROVE  \E f : InLine(f, n, L)
  <1> DEFINE D == 1 .. n
             f == [k \in D |-> CHOOSE x \in D : HasPlace(x, k, n, L)]
  <1>1. Places(n, L)
    BY Ordering
  <1>2. \A k \in D : \E x \in D : HasPlace(x, k, n, L)
    BY <1>1 DEF Places
  <1> HIDE DEF D
  <1>3. \A k \in D : f[k] \in D /\ HasPlace(f[k], k, n, L)
    BY <1>2
  <1>4. f \in [D -> D]
    BY <1>3
  <1> HIDE DEF f
  <1>5. \A i, j \in D : i < j => <<f[i], f[j]>> \in L
    BY <1>1, <1>3 DEF Places, D
  <1>6. InLine(f, n, L)
    BY <1>4, <1>5 DEF InLine, D
  <1>7. QED
    BY <1>6

\* Each number is in it once, the least first and the greatest last.
LEMMA LineIs ==
    ASSUME NEW n \in Nat, NEW L, Orders(L, n), NEW f, InLine(f, n, L)
    PROVE  /\ \A i, j \in 1 .. n : f[i] = f[j] => i = j
           /\ \A x \in 1 .. n : \E k \in 1 .. n : f[k] = x
           /\ LineEnds(f, n, L)
  <1> DEFINE D == 1 .. n
  <1>1. /\ f \in [D -> D] /\ \A i, j \in D : i < j => <<f[i], f[j]>> \in L
    BY DEF InLine
  <1>2. /\ \A x \in D : <<x, x>> \notin L
        /\ \A x, y \in D : <<x, y>> \in L => <<y, x>> \notin L
    BY DEF Orders
  <1>3. \A i, j \in D : i \in Nat /\ j \in Nat
    OBVIOUS
  <1>4. IsFiniteSet(D)
    BY FS_Interval
  <1> HIDE DEF D
  <1>5. \A i, j \in D : f[i] = f[j] => i = j
    <2>1. ASSUME NEW i \in D, NEW j \in D, f[i] = f[j]
          PROVE  i = j
      <3>1. ~(i < j) /\ ~(j < i)
        BY <1>1, <1>2, <2>1
      <3>2. QED
        BY <1>3, <3>1
    <2>2. QED
      BY <2>1
  <1>6. \A x \in D : \E k \in D : f[k] = x
    <2>1. f \in Injection(D, D)
      BY <1>1, <1>5 DEF Injection, IsInjective
    <2>2. f \in Surjection(D, D)
      BY <2>1, <1>4, FS_Injection
    <2>3. QED
      BY <2>2 DEF Surjection
  <1>7. ASSUME NEW a \in D
        PROVE  /\ (\A x \in D : x # a => <<a, x>> \in L) => f[1] = a
               /\ (\A x \in D : x # a => <<x, a>> \in L) => f[n] = a
    <2>1. PICK k \in D : f[k] = a
      BY <1>6
    <2>2. k \in Nat /\ 1 <= k /\ k <= n /\ 1 \in D /\ n \in D
      BY DEF D
    <2>3. ASSUME \A x \in D : x # a => <<a, x>> \in L, f[1] # a
          PROVE  FALSE
      <3>1. 1 < k
        BY <2>1, <2>2, <2>3
      <3>2. <<f[1], a>> \in L /\ f[1] \in D
        BY <1>1, <2>1, <2>2, <3>1
      <3>3. QED
        BY <1>2, <2>3, <3>2
    <2>4. ASSUME \A x \in D : x # a => <<x, a>> \in L, f[n] # a
          PROVE  FALSE
      <3>1. k < n
        BY <2>1, <2>2, <2>4
      <3>2. <<a, f[n]>> \in L /\ f[n] \in D
        BY <1>1, <2>1, <2>2, <3>1
      <3>3. QED
        BY <1>2, <2>4, <3>2
    <2>5. QED
      BY <2>3, <2>4
  <1>8. QED
    BY <1>5, <1>6, <1>7 DEF D, LineEnds
=============================================================================
