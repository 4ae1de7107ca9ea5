----------------------------- MODULE DataLemmas ------------------------------
(***************************************************************************)
(* What the proofs of several components need of numbers, of functions     *)
(* defined by recursion and of lists in order.  Induction and recursion    *)
(* are stated of sets and functions, in which the provers can use them.    *)
(***************************************************************************)
EXTENDS Orders, Sequences, FiniteSetTheorems, WellFoundedInduction, TLAPS

LEMMA LeastNat ==
  ASSUME NEW T \in SUBSET Nat, T # {}
  PROVE  \E x \in T : \A y \in T : x <= y
<1>1. PICK x \in T : \A y \in T : ~(<<y, x>> \in OpToRel(<, Nat))
  BY WFMin, NatLessThanWellFounded
<1>2. \A y \in T : ~(y < x)
  <2> TAKE y \in T
  <2>1. y < x => <<y, x>> \in {ss \in Nat \X Nat : ss[1] < ss[2]}
    OBVIOUS
  <2> QED
    BY <1>1, <2>1 DEF OpToRel
<1> QED
  BY <1>2

\* Induction up to N.
LEMMA Upwards ==
  ASSUME NEW N \in Nat, NEW P, 0 \in P, \A n \in 1 .. N : n - 1 \in P => n \in P
  PROVE  \A n \in 0 .. N : n \in P
<1> DEFINE T == {n \in 0 .. N : n \notin P}
<1> SUFFICES ASSUME T # {} PROVE FALSE
  OBVIOUS
<1>0. T \in SUBSET Nat
  OBVIOUS
<1>1. PICK x \in T : \A y \in T : x <= y
  BY <1>0, LeastNat
<1>2. x \in 1 .. N /\ x - 1 \in 0 .. N /\ x - 1 \notin T
  BY <1>1
<1> QED
  BY <1>2

\* The values of g are those that base and step give.
Recurs(g, N, base, step) ==
  /\ g = [n \in 0 .. N |-> g[n]]
  /\ g[0] = base
  /\ \A n \in 1 .. N : g[n] = step[<<n, g[n - 1]>>]

LEMMA Recursion ==
  ASSUME NEW N \in Nat, NEW base, NEW step
  PROVE  \E g : Recurs(g, N, base, step)
<1> DEFINE P == {n \in Nat : \E g : Recurs(g, n, base, step)}
<1>1. 0 \in P
  <2>1. Recurs([n \in 0 .. 0 |-> base], 0, base, step)
    BY DEF Recurs
  <2> QED
    BY <2>1
<1>2. ASSUME NEW n \in 1 .. N, n - 1 \in P PROVE n \in P
  <2>1. PICK g : Recurs(g, n - 1, base, step)
    BY <1>2
  <2> DEFINE h == [m \in 0 .. n |-> IF m = n THEN step[<<n, g[n - 1]>>] ELSE g[m]]
  <2>2. h[0] = base
    BY <2>1 DEF Recurs
  <2>3. ASSUME NEW m \in 1 .. n PROVE h[m] = step[<<m, h[m - 1]>>]
    <3>1. m - 1 \in 0 .. n /\ m - 1 # n
      OBVIOUS
    <3>2. h[m - 1] = g[m - 1]
      BY <3>1
    <3>3. CASE m = n
      BY <3>2, <3>3
    <3>4. CASE m # n
      <4>1. m \in 1 .. (n - 1) /\ h[m] = g[m]
        BY <3>4
      <4> QED
        BY <2>1, <3>2, <4>1 DEF Recurs
    <3> QED
      BY <3>3, <3>4
  <2>4. h = [m \in 0 .. n |-> h[m]]
    OBVIOUS
  <2> HIDE DEF h
  <2>5. Recurs(h, n, base, step)
    BY <2>2, <2>3, <2>4 DEF Recurs
  <2> QED
    BY <2>5
<1> HIDE DEF P
<1>3. \A n \in 0 .. N : n \in P
  BY <1>1, <1>2, Upwards
<1> QED
  BY <1>3 DEF P

-----------------------------------------------------------------------------
(* Lists in order.                                                          *)

LEMMA UptoGrows ==
  ASSUME NEW S, IsFiniteSet(S), NEW order, Orders(order, S),
         NEW x \in S, NEW y \in S, <<x, y>> \in order
  PROVE  Cardinality(Upto(x, S, order)) < Cardinality(Upto(y, S, order))
<1> DEFINE X == Upto(x, S, order)
           Y == Upto(y, S, order)
<1>1. X \subseteq Y /\ y \in Y /\ y \notin X
  BY DEF Upto, Orders
<1>2. IsFiniteSet(X) /\ IsFiniteSet(Y)
  BY FS_Subset DEF Upto
<1> HIDE DEF X, Y
<1>3. Cardinality(X) <= Cardinality(Y) /\ Cardinality(X) # Cardinality(Y)
  BY <1>1, <1>2, FS_Subset
<1>4. Cardinality(X) \in Nat /\ Cardinality(Y) \in Nat
  BY <1>2, FS_CardinalityType
<1> QED
  BY <1>3, <1>4 DEF X, Y

\* Each place is that of one member.
LEMMA PlacesTaken ==
  ASSUME NEW S, IsFiniteSet(S), NEW order, Orders(order, S)
  PROVE  /\ Cardinality(S) \in Nat
         /\ \A x \in S : Cardinality(Upto(x, S, order)) \in 1 .. Cardinality(S)
         /\ \A x, y \in S :
              Cardinality(Upto(x, S, order)) = Cardinality(Upto(y, S, order)) => x = y
         /\ \A i \in 1 .. Cardinality(S) : \E x \in S : Cardinality(Upto(x, S, order)) = i
<1> DEFINE place(x) == Cardinality(Upto(x, S, order))
           r == [x \in S |-> place(x)]
           N == 1 .. Cardinality(S)
<1>1. Cardinality(S) \in Nat
  BY FS_CardinalityType
<1>2. IsFiniteSet(N) /\ Cardinality(N) = Cardinality(S)
  BY <1>1, FS_Interval
<1>3. ASSUME NEW x \in S PROVE place(x) \in N
  <2>1. Upto(x, S, order) \subseteq S /\ x \in Upto(x, S, order)
    BY DEF Upto
  <2>2. /\ IsFiniteSet(Upto(x, S, order)) /\ Cardinality(Upto(x, S, order)) <= Cardinality(S)
        /\ Cardinality(Upto(x, S, order)) \in Nat
    BY <1>1, <2>1, FS_Subset, FS_CardinalityType
  <2>3. Cardinality(Upto(x, S, order)) # 0
    BY <2>1, <2>2, FS_EmptySet
  <2> QED
    BY <1>1, <2>2, <2>3
<1>4. ASSUME NEW x \in S, NEW y \in S, place(x) = place(y) PROVE x = y
  <2>1. place(x) \in Nat /\ place(y) \in Nat
    BY <1>1, <1>3
  <2>2. ~(place(x) < place(y)) /\ ~(place(y) < place(x))
    BY <1>4, <2>1
  <2>3. <<x, y>> \notin order /\ <<y, x>> \notin order
    BY <2>2, UptoGrows
  <2> QED
    BY <2>3 DEF Orders
<1> HIDE DEF place
<1>5. r \in Injection(S, N)
  BY <1>3, <1>4 DEF Injection, IsInjective
<1>6. r \in Surjection(S, N)
  BY <1>2, <1>5, FS_Injection
<1>7. \A i \in N : \E x \in S : place(x) = i
  BY <1>6 DEF Surjection
<1> QED
  BY <1>1, <1>3, <1>4, <1>7 DEF place

\* The list has each member of its set once, nothing else, and is in order.
LEMMA ListInOrder ==
  ASSUME NEW S, IsFiniteSet(S), NEW order, Orders(order, S)
  PROVE  LET list == InOrder(S, order) IN
         /\ list \in Seq(S) /\ Len(list) = Cardinality(S) /\ Cardinality(S) \in Nat
         /\ DOMAIN list = 1 .. Cardinality(S)
         /\ \A i \in DOMAIN list : list[i] \in S
         /\ \A x \in S : \E i \in DOMAIN list : list[i] = x
         /\ \A i, j \in DOMAIN list : i < j => <<list[i], list[j]>> \in order
<1> DEFINE list == InOrder(S, order)
           place(x) == Cardinality(Upto(x, S, order))
<1>1. DOMAIN list = 1 .. Cardinality(S) /\ Cardinality(S) \in Nat
  BY PlacesTaken DEF InOrder
<1>2. \A i \in 1 .. Cardinality(S) : list[i] \in S /\ place(list[i]) = i
  BY PlacesTaken DEF InOrder
<1>3. \A x \in S : place(x) \in 1 .. Cardinality(S)
  BY PlacesTaken
<1>4. \A x, y \in S : place(x) = place(y) => x = y
  BY PlacesTaken
<1>5. list \in [1 .. Cardinality(S) -> S]
  BY <1>1, <1>2 DEF InOrder
<1> HIDE DEF list
<1>6. \A x \in S : list[place(x)] = x
  BY <1>2, <1>3, <1>4
<1>7. ASSUME NEW i \in DOMAIN list, NEW j \in DOMAIN list, i < j
      PROVE  <<list[i], list[j]>> \in order
  <2>1. list[i] \in S /\ list[j] \in S /\ place(list[i]) = i /\ place(list[j]) = j
    BY <1>1, <1>2
  <2>2. list[i] # list[j]
    BY <1>1, <1>7, <2>1
  <2>3. <<list[j], list[i]>> \in order => place(list[j]) < place(list[i])
    BY <2>1, UptoGrows
  <2>4. i \in Nat /\ j \in Nat
    BY <1>1
  <2>5. <<list[j], list[i]>> \notin order
    BY <1>7, <2>1, <2>3, <2>4
  <2> QED
    BY <2>1, <2>2, <2>5 DEF Orders
<1> HIDE DEF place
<1> QED
  BY <1>1, <1>2, <1>3, <1>5, <1>6, <1>7 DEF list
=============================================================================
