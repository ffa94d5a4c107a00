------------------------------ MODULE FoldFacts ------------------------------
(***************************************************************************)
(* What a fold over a sequence computes, one element at a time.  Op is     *)
(* what is folded: its first argument stands for the values it reads apart *)
(* from the accumulator and the element.  A proof about a particular fold  *)
(* instantiates this module with it.                                       *)
(***************************************************************************)
EXTENDS Integers, Sequences, FiniteSetTheorems, WellFoundedInduction, TLAPS

CONSTANT Op(_, _, _)

\* FoldLeft of the community modules, written out.
Largest(u) == CHOOSE x \in u : \A y \in u : x >= y
Fold(par, base, seq) ==
  LET iter[u \in SUBSET DOMAIN seq] ==
        IF u = {} THEN base ELSE Op(par, iter[u \ {Largest(u)}], seq[Largest(u)])
  IN iter[DOMAIN seq]

---------------------------------------------------------------------------
(* Induction, over numbers and over sequences that grow at their end.      *)

LEMMA Induction ==
  ASSUME NEW T, 0 \in T, \A n \in Nat : n \in T => n + 1 \in T
  PROVE  \A n \in Nat : n \in T
<1> DEFINE U == {n \in Nat : n \notin T}
<1>1. SUFFICES ASSUME U # {} PROVE FALSE
  OBVIOUS
<1>2. U \subseteq Nat
  OBVIOUS
<1> HIDE DEF U
<1>3. PICK x \in U : \A y \in U : ~ (<<y, x>> \in OpToRel(<, Nat))
  BY <1>1, <1>2, WFMin, NatLessThanWellFounded
<1>4. \A y \in U : ~(y < x)
  BY <1>2, <1>3 DEF OpToRel
<1>5. x \in Nat /\ x # 0
  BY DEF U
<1>6. x - 1 \in Nat /\ x - 1 < x /\ (x - 1) + 1 = x
  BY <1>5
<1>7. x - 1 \in T
  BY <1>4, <1>6 DEF U
<1>8. x \in T
  BY <1>6, <1>7
<1>9. QED
  BY <1>8 DEF U

LEMMA SeqInduction ==
  ASSUME NEW S, NEW T, << >> \in T, \A q \in Seq(S), x \in S : q \in T => Append(q, x) \in T
  PROVE  \A q \in Seq(S) : q \in T
<1> DEFINE N == {n \in Nat : \A q \in Seq(S) : Len(q) = n => q \in T}
<1>1. 0 \in N
  <2>1. \A q \in Seq(S) : Len(q) = 0 => q = << >>
    OBVIOUS
  <2>2. QED
    BY <2>1
<1>2. ASSUME NEW n \in Nat, n \in N PROVE n + 1 \in N
  <2>1. SUFFICES ASSUME NEW q \in Seq(S), Len(q) = n + 1 PROVE q \in T
    BY <1>2
  <2> DEFINE p == SubSeq(q, 1, n)
             x == q[n + 1]
  <2>2. p \in Seq(S) /\ Len(p) = n /\ x \in S
    BY <2>1
  <2>3. q = Append(p, x)
    BY <2>1
  <2>4. p \in T
    BY <1>2, <2>2
  <2> HIDE DEF p, x
  <2>5. QED
    BY <2>2, <2>3, <2>4
<1> HIDE DEF N
<1>3. \A n \in Nat : n \in N
  BY <1>1, <1>2, Induction
<1>4. QED
  BY <1>3 DEF N

---------------------------------------------------------------------------
(* The set of the indices loses its largest element at each step.          *)

LEMMA LargestIndex == \A n \in Nat : \A u \in SUBSET (1..n) : u # {} => Largest(u) \in u /\ \A y \in u : y <= Largest(u)
<1> DEFINE T == {n \in Nat : \A u \in SUBSET (1..n) : u # {} => \E x \in u : \A y \in u : x >= y}
<1>1. 0 \in T
  <2>1. 1..0 = {}
    OBVIOUS
  <2>2. QED
    BY <2>1
<1>2. ASSUME NEW n \in Nat, n \in T PROVE n + 1 \in T
  <2>1. SUFFICES ASSUME NEW u \in SUBSET (1..(n + 1)), u # {} PROVE \E x \in u : \A y \in u : x >= y
    OBVIOUS
  <2>2. CASE n + 1 \in u
    <3>1. \A y \in u : n + 1 >= y
      OBVIOUS
    <3>2. QED
      BY <2>2, <3>1
  <2>3. CASE n + 1 \notin u
    <3>1. u \in SUBSET (1..n)
      BY <2>3
    <3>2. QED
      BY <1>2, <2>1, <3>1
  <2>4. QED
    BY <2>2, <2>3
<1> HIDE DEF T
<1>3. \A n \in Nat : n \in T
  BY <1>1, <1>2, Induction
<1>4. SUFFICES ASSUME NEW n \in Nat, NEW u \in SUBSET (1..n), u # {}
               PROVE  Largest(u) \in u /\ \A y \in u : y <= Largest(u)
  OBVIOUS
<1>5. \E x \in u : \A y \in u : x >= y
  BY <1>3, <1>4 DEF T
<1>6. Largest(u) \in u /\ \A y \in u : Largest(u) >= y
  BY <1>5, Zenon DEF Largest
<1>7. QED
  BY <1>6

LEMMA RangeGrows == \A n \in Nat : (1..(n + 1)) \ {n + 1} = 1..n /\ 1..(n + 1) # {}
<1>1. SUFFICES ASSUME NEW n \in Nat PROVE (1..(n + 1)) \ {n + 1} = 1..n /\ 1..(n + 1) # {}
  OBVIOUS
<1>2. \A i : i \in (1..(n + 1)) \ {n + 1} <=> i \in 1..n
  OBVIOUS
<1>3. n + 1 \in 1..(n + 1)
  OBVIOUS
<1>4. QED
  BY <1>2, <1>3

LEMMA LargestOfRange == \A n \in Nat : n > 0 => Largest(1..n) = n
<1>1. SUFFICES ASSUME NEW n \in Nat, n > 0 PROVE Largest(1..n) = n
  OBVIOUS
<1>2. 1..n \in SUBSET (1..n) /\ 1..n # {} /\ n \in 1..n
  BY <1>1
<1>3. Largest(1..n) \in 1..n /\ \A y \in 1..n : y <= Largest(1..n)
  BY <1>2, LargestIndex, Zenon
<1>4. n <= Largest(1..n)
  BY <1>2, <1>3, Zenon
<1>5. QED
  BY <1>3, <1>4

---------------------------------------------------------------------------
(* The recursive function inside the fold                                  *)

IsIter(par, base, seq, n, it) ==
  it = [u \in SUBSET (1..n) |-> IF u = {} THEN base ELSE Op(par, it[u \ {Largest(u)}], seq[Largest(u)])]

LEMMA IterExists == \A par, base, seq : \A n \in Nat : \E it : IsIter(par, base, seq, n, it)
<1>1. SUFFICES ASSUME NEW par, NEW base, NEW seq PROVE \A n \in Nat : \E it : IsIter(par, base, seq, n, it)
  OBVIOUS
<1> DEFINE T == {n \in Nat : \E it : IsIter(par, base, seq, n, it)}
<1>2. 0 \in T
  <2> DEFINE it == [u \in SUBSET (1..0) |-> base]
  <2>1. SUBSET (1..0) = {{}}
    OBVIOUS
  <2>2. it = [u \in SUBSET (1..0) |-> IF u = {} THEN base ELSE Op(par, it[u \ {Largest(u)}], seq[Largest(u)])]
    BY <2>1
  <2>3. QED
    BY <2>2 DEF IsIter
<1>3. ASSUME NEW n \in Nat, n \in T PROVE n + 1 \in T
  <2>1. PICK g : IsIter(par, base, seq, n, g)
    BY <1>3
  <2> DEFINE h == [u \in SUBSET (1..(n + 1)) |->
                     IF n + 1 \in u THEN Op(par, g[u \ {n + 1}], seq[n + 1]) ELSE g[u]]
             B(u) == IF u = {} THEN base ELSE Op(par, h[u \ {Largest(u)}], seq[Largest(u)])
  <2>2. ASSUME NEW u \in SUBSET (1..(n + 1)) PROVE h[u] = B(u)
    <3>1. CASE n + 1 \in u
      <4>1. Largest(u) = n + 1
        <5>1. n + 1 \in Nat /\ u # {} /\ \A y \in u : y \in Int /\ y <= n + 1
          BY <3>1
        <5>2. Largest(u) \in u /\ \A y \in u : y <= Largest(u)
          BY <5>1, LargestIndex, Zenon
        <5>3. Largest(u) \in Int /\ Largest(u) <= n + 1 /\ n + 1 <= Largest(u)
          BY <3>1, <5>1, <5>2, Zenon
        <5>4. QED
          BY <5>3
      <4>2. u \ {n + 1} \in SUBSET (1..n) /\ u \ {n + 1} \in SUBSET (1..(n + 1)) /\ n + 1 \notin u \ {n + 1}
        OBVIOUS
      <4>3. h[u \ {n + 1}] = g[u \ {n + 1}]
        BY <4>2
      <4>4. u # {}
        BY <3>1
      <4>5. h[u] = Op(par, g[u \ {n + 1}], seq[n + 1])
        BY <3>1
      <4> HIDE DEF h
      <4>6. QED
        BY <4>1, <4>3, <4>4, <4>5
    <3>2. CASE n + 1 \notin u
      <4>1. u \in SUBSET (1..n)
        BY <3>2
      <4>2. h[u] = g[u]
        BY <3>2
      <4>3. g[u] = IF u = {} THEN base ELSE Op(par, g[u \ {Largest(u)}], seq[Largest(u)])
        BY <2>1, <4>1 DEF IsIter
      <4>4. u \ {Largest(u)} \in SUBSET (1..(n + 1)) /\ n + 1 \notin u \ {Largest(u)}
        BY <3>2
      <4>5. h[u \ {Largest(u)}] = g[u \ {Largest(u)}]
        BY <4>4
      <4> HIDE DEF h
      <4>6. QED
        BY <4>2, <4>3, <4>5
    <3>3. QED
      BY <3>1, <3>2
  <2>3. h = [u \in SUBSET (1..(n + 1)) |-> h[u]]
    OBVIOUS
  <2> HIDE DEF h
  <2>4. h = [u \in SUBSET (1..(n + 1)) |-> IF u = {} THEN base ELSE Op(par, h[u \ {Largest(u)}], seq[Largest(u)])]
    BY <2>2, <2>3
  <2>5. IsIter(par, base, seq, n + 1, h)
    BY <2>4, Zenon DEF IsIter
  <2>6. \E it : IsIter(par, base, seq, n + 1, it)
    BY <2>5, Zenon
  <2>7. QED
    BY <2>6
<1> HIDE DEF T
<1>4. \A n \in Nat : n \in T
  BY <1>2, <1>3, Induction
<1>5. QED
  BY <1>4 DEF T

LEMMA FoldIsIter ==
  \A par, base, seq : \A n \in Nat :
    DOMAIN seq = 1..n => \E it : IsIter(par, base, seq, n, it) /\ Fold(par, base, seq) = it[1..n]
<1>1. SUFFICES ASSUME NEW par, NEW base, NEW seq, NEW n \in Nat, DOMAIN seq = 1..n
               PROVE  \E it : IsIter(par, base, seq, n, it) /\ Fold(par, base, seq) = it[1..n]
  OBVIOUS
<1> DEFINE it == CHOOSE it : it = [u \in SUBSET (1..n) |-> IF u = {} THEN base ELSE Op(par, it[u \ {Largest(u)}], seq[Largest(u)])]
<1>2. \E j : j = [u \in SUBSET (1..n) |-> IF u = {} THEN base ELSE Op(par, j[u \ {Largest(u)}], seq[Largest(u)])]
  <2>1. \E j : IsIter(par, base, seq, n, j)
    BY IterExists
  <2>2. QED
    BY <2>1, Zenon DEF IsIter
<1>3. it = [u \in SUBSET (1..n) |-> IF u = {} THEN base ELSE Op(par, it[u \ {Largest(u)}], seq[Largest(u)])]
  BY <1>2, Zenon
<1>4. Fold(par, base, seq) = it[1..n]
  BY <1>1 DEF Fold
<1> HIDE DEF it
<1>5. QED
  BY <1>3, <1>4 DEF IsIter

---------------------------------------------------------------------------
(* The laws of a fold                                                      *)

LEMMA FoldEmpty == \A par, base : Fold(par, base, << >>) = base
<1>1. SUFFICES ASSUME NEW par, NEW base PROVE Fold(par, base, << >>) = base
  OBVIOUS
<1>2. PICK it : IsIter(par, base, << >>, 0, it) /\ Fold(par, base, << >>) = it[1..0]
  <2>1. DOMAIN << >> = 1..0
    OBVIOUS
  <2>2. QED
    BY <2>1, FoldIsIter
<1>3. (1..0) \in SUBSET (1..0) /\ 1..0 = {}
  OBVIOUS
<1>4. QED
  BY <1>2, <1>3 DEF IsIter

LEMMA FoldAppend ==
  \A par, base, S : \A q \in Seq(S), x \in S :
    Fold(par, base, Append(q, x)) = Op(par, Fold(par, base, q), x)
<1>1. SUFFICES ASSUME NEW par, NEW base, NEW S, NEW q \in Seq(S), NEW x \in S
               PROVE  Fold(par, base, Append(q, x)) = Op(par, Fold(par, base, q), x)
  OBVIOUS
<1> DEFINE n == Len(q)
           r == Append(q, x)
<1>2. n \in Nat /\ DOMAIN q = 1..n /\ DOMAIN r = 1..(n + 1) /\ r[n + 1] = x /\ \A i \in 1..n : r[i] = q[i]
  OBVIOUS
<1> HIDE DEF n, r
<1>3. PICK f : IsIter(par, base, q, n, f) /\ Fold(par, base, q) = f[1..n]
  BY <1>2, FoldIsIter
<1>4. PICK g : IsIter(par, base, r, n + 1, g) /\ Fold(par, base, r) = g[1..(n + 1)]
  <2>1. n + 1 \in Nat
    BY <1>2
  <2>2. QED
    BY <1>2, <2>1, FoldIsIter
<1> DEFINE T == {k \in Nat : k <= n => f[1..k] = g[1..k]}
<1>5. 0 \in T
  <2>1. 1..0 = {} /\ {} \in SUBSET (1..n) /\ {} \in SUBSET (1..(n + 1))
    OBVIOUS
  <2>2. f[{}] = base /\ g[{}] = base
    BY <1>3, <1>4, <2>1 DEF IsIter
  <2>3. QED
    BY <2>1, <2>2
<1>6. ASSUME NEW k \in Nat, k \in T PROVE k + 1 \in T
  <2>1. SUFFICES ASSUME k + 1 <= n PROVE f[1..(k + 1)] = g[1..(k + 1)]
    OBVIOUS
  <2> DEFINE u == 1..(k + 1)
  <2>2. Largest(u) = k + 1
    BY LargestOfRange
  <2>3. u \ {k + 1} = 1..k /\ u # {}
    BY RangeGrows
  <2>8. u \in SUBSET (1..n) /\ u \in SUBSET (1..(n + 1))
    BY <1>2, <2>1
  <2> HIDE DEF u
  <2>4. f[u] = Op(par, f[1..k], q[k + 1])
    BY <1>3, <2>2, <2>3, <2>8 DEF IsIter
  <2>5. g[u] = Op(par, g[1..k], r[k + 1])
    BY <1>4, <2>2, <2>3, <2>8 DEF IsIter
  <2>6. f[1..k] = g[1..k] /\ q[k + 1] = r[k + 1]
    BY <1>2, <1>6, <2>1
  <2>7. QED
    BY <2>4, <2>5, <2>6 DEF u
<1> HIDE DEF T
<1>7. f[1..n] = g[1..n]
  <2>1. \A k \in Nat : k \in T
    BY <1>5, <1>6, Induction
  <2>2. n \in T /\ n <= n
    BY <1>2, <2>1
  <2>3. QED
    BY <2>2 DEF T
<1> DEFINE u == 1..(n + 1)
<1>8. n + 1 \in Nat /\ n + 1 > 0 /\ Largest(u) = n + 1
  BY <1>2, LargestOfRange
<1>9. u \ {n + 1} = 1..n /\ u # {} /\ u \in SUBSET (1..(n + 1))
  BY <1>2, RangeGrows
<1> HIDE DEF u
<1>10. g[u] = Op(par, g[1..n], r[n + 1])
  BY <1>4, <1>8, <1>9 DEF IsIter
<1>11. QED
  BY <1>2, <1>3, <1>4, <1>7, <1>10 DEF r, u

---------------------------------------------------------------------------
(* The same as a recursion over the places of the sequence                 *)

Run(par, base, seq) ==
  LET at[i \in 0..Len(seq)] == IF i = 0 THEN base ELSE Op(par, at[i - 1], seq[i])
  IN at[Len(seq)]

LEMMA RunIsFold == \A par, base, S : \A q \in Seq(S) : Run(par, base, q) = Fold(par, base, q)
<1>1. SUFFICES ASSUME NEW par, NEW base, NEW S, NEW q \in Seq(S) PROVE Run(par, base, q) = Fold(par, base, q)
  OBVIOUS
<1> DEFINE n == Len(q)
           P(i) == SubSeq(q, 1, i)
           g == [i \in 0..n |-> Fold(par, base, P(i))]
<1>2. n \in Nat /\ P(0) = << >> /\ P(n) = q
  OBVIOUS
<1>3. ASSUME NEW i \in 0..n, i # 0 PROVE P(i - 1) \in Seq(S) /\ q[i] \in S /\ P(i) = Append(P(i - 1), q[i])
  BY <1>3
<1> HIDE DEF P, n
<1>4. g[0] = base
  BY <1>2, FoldEmpty
<1>5. ASSUME NEW i \in 0..n, i # 0 PROVE g[i] = Op(par, g[i - 1], q[i]) /\ i - 1 \in 0..n
  <2>1. Fold(par, base, Append(P(i - 1), q[i])) = Op(par, Fold(par, base, P(i - 1)), q[i])
    BY <1>3, <1>5, FoldAppend
  <2>2. i - 1 \in 0..n
    BY <1>2, <1>5
  <2>3. QED
    BY <1>3, <1>5, <2>1, <2>2
<1>6. g = [i \in 0..n |-> g[i]] /\ g[n] = Fold(par, base, q)
  BY <1>2
<1> HIDE DEF g
<1>7. g = [i \in 0..n |-> IF i = 0 THEN base ELSE Op(par, g[i - 1], q[i])]
  BY <1>4, <1>5, <1>6
<1>8. \E at : at = [i \in 0..n |-> IF i = 0 THEN base ELSE Op(par, at[i - 1], q[i])]
  BY <1>7, Zenon
<1> DEFINE f == CHOOSE at : at = [i \in 0..n |-> IF i = 0 THEN base ELSE Op(par, at[i - 1], q[i])]
<1>9. f = [i \in 0..n |-> IF i = 0 THEN base ELSE Op(par, f[i - 1], q[i])]
  BY <1>8, Zenon
<1>10. Run(par, base, q) = f[n]
  BY DEF Run, n
<1> HIDE DEF f
<1> DEFINE T == {i \in Nat : i <= n => f[i] = g[i]}
<1>11. 0 \in T
  <2>1. 0 \in 0..n
    BY <1>2
  <2>2. f[0] = base
    BY <1>9, <2>1
  <2>3. QED
    BY <1>4, <2>2
<1>12. ASSUME NEW i \in Nat, i \in T PROVE i + 1 \in T
  <2>1. SUFFICES ASSUME i + 1 <= n PROVE f[i + 1] = g[i + 1]
    OBVIOUS
  <2> DEFINE j == i + 1
  <2>2. j \in 0..n /\ j # 0 /\ j - 1 = i /\ i <= n
    BY <1>2, <2>1
  <2>3. f[i] = g[i]
    BY <1>12, <2>2
  <2> HIDE DEF j
  <2>4. f[j] = Op(par, f[j - 1], q[j]) /\ g[j] = Op(par, g[j - 1], q[j])
    BY <1>7, <1>9, <2>2
  <2>5. QED
    BY <2>2, <2>3, <2>4 DEF j
<1> HIDE DEF T
<1>13. n \in T
  <2>1. \A i \in Nat : i \in T
    BY <1>11, <1>12, Induction
  <2>2. QED
    BY <1>2, <2>1
<1>14. QED
  BY <1>2, <1>6, <1>10, <1>13 DEF T

LEMMA RunEmpty == \A par, base : Run(par, base, << >>) = base
<1>1. SUFFICES ASSUME NEW par, NEW base PROVE Run(par, base, << >>) = base
  OBVIOUS
<1> DEFINE e == << >>
<1>2. e \in Seq({}) /\ Fold(par, base, e) = base
  BY FoldEmpty
<1> HIDE DEF e
<1>3. Run(par, base, e) = Fold(par, base, e)
  BY <1>2, RunIsFold
<1>4. QED
  BY <1>2, <1>3 DEF e

LEMMA RunAppend ==
  \A par, base, S : \A q \in Seq(S), x \in S :
    Run(par, base, Append(q, x)) = Op(par, Run(par, base, q), x)
<1>1. SUFFICES ASSUME NEW par, NEW base, NEW S, NEW q \in Seq(S), NEW x \in S
               PROVE  Run(par, base, Append(q, x)) = Op(par, Run(par, base, q), x)
  OBVIOUS
<1>2. Append(q, x) \in Seq(S)
  OBVIOUS
<1>3. Run(par, base, q) = Fold(par, base, q) /\ Run(par, base, Append(q, x)) = Fold(par, base, Append(q, x))
  BY <1>2, RunIsFold
<1>4. QED
  BY <1>3, FoldAppend

\* What every step keeps in V ends in V.
LEMMA FoldType ==
  \A par, base, V, S :
    base \in V /\ (\A v \in V, x \in S : Op(par, v, x) \in V) =>
      \A q \in Seq(S) : Fold(par, base, q) \in V /\ Run(par, base, q) \in V
<1>1. SUFFICES ASSUME NEW par, NEW base, NEW V, NEW S, base \in V, \A v \in V, x \in S : Op(par, v, x) \in V
               PROVE  \A q \in Seq(S) : Fold(par, base, q) \in V /\ Run(par, base, q) \in V
  OBVIOUS
<1> DEFINE F(q) == Fold(par, base, q)
           T == {q \in Seq(S) : F(q) \in V}
<1>2. << >> \in T
  BY <1>1, FoldEmpty
<1>3. ASSUME NEW q \in Seq(S), NEW x \in S, q \in T PROVE Append(q, x) \in T
  <2>1. F(Append(q, x)) = Op(par, F(q), x)
    BY FoldAppend
  <2>2. F(q) \in V /\ Append(q, x) \in Seq(S)
    BY <1>3
  <2> HIDE DEF F
  <2>3. Op(par, F(q), x) \in V
    BY <1>1, <2>2
  <2>4. QED
    BY <2>1, <2>2, <2>3
<1> HIDE DEF T
<1>4. \A q \in Seq(S) : q \in T
  BY <1>2, <1>3, SeqInduction
<1>5. \A q \in Seq(S) : F(q) \in V
  BY <1>4 DEF T
<1>6. QED
  BY <1>5, RunIsFold

---------------------------------------------------------------------------
(* The fold over a finite set, which takes some element after another.     *)

Some(u) == CHOOSE x \in u : TRUE
SetFold(par, base, D) ==
  LET iter[u \in SUBSET D] == IF u = {} THEN base ELSE Op(par, iter[u \ {Some(u)}], Some(u))
  IN iter[D]

\* The recursion over the subsets that have at most n elements.
Upto(D, n) == {u \in SUBSET D : Cardinality(u) <= n}
IsSetIter(par, base, U, it) ==
  it = [u \in U |-> IF u = {} THEN base ELSE Op(par, it[u \ {Some(u)}], Some(u))]

LEMMA SomeIsOne == \A u : u # {} => Some(u) \in u
BY Zenon DEF Some

LEMMA OneLess ==
  \A D : IsFiniteSet(D) => \A n \in Nat : \A u \in Upto(D, n + 1) : u # {} => u \ {Some(u)} \in Upto(D, n)
<1>1. SUFFICES ASSUME NEW D, IsFiniteSet(D), NEW n \in Nat, NEW u \in Upto(D, n + 1), u # {}
               PROVE  u \ {Some(u)} \in Upto(D, n)
  OBVIOUS
<1>2. u \in SUBSET D /\ Cardinality(u) <= n + 1 /\ IsFiniteSet(u)
  BY <1>1, FS_Subset DEF Upto
<1>3. Some(u) \in u
  BY <1>1, SomeIsOne
<1>4. Cardinality(u) \in Nat
  BY <1>2, FS_CardinalityType
<1>5. Cardinality(u \ {Some(u)}) = Cardinality(u) - 1
  BY <1>2, <1>3, FS_RemoveElement
<1>6. Cardinality(u \ {Some(u)}) <= n
  BY <1>2, <1>4, <1>5
<1>7. QED
  BY <1>2, <1>6 DEF Upto

LEMMA NoneUpto == \A D : IsFiniteSet(D) => \A u \in Upto(D, 0) : u = {}
<1>1. SUFFICES ASSUME NEW D, IsFiniteSet(D), NEW u \in Upto(D, 0) PROVE u = {}
  OBVIOUS
<1>2. IsFiniteSet(u) /\ Cardinality(u) <= 0
  BY <1>1, FS_Subset DEF Upto
<1>3. Cardinality(u) = 0
  BY <1>2, FS_CardinalityType
<1>4. QED
  BY <1>2, <1>3, FS_EmptySet

LEMMA UptoGrows == \A D : IsFiniteSet(D) => \A n \in Nat : \A u \in Upto(D, n) : u \in Upto(D, n + 1)
<1>1. SUFFICES ASSUME NEW D, IsFiniteSet(D), NEW n \in Nat, NEW u \in Upto(D, n) PROVE u \in Upto(D, n + 1)
  OBVIOUS
<1>2. u \in SUBSET D /\ Cardinality(u) <= n /\ IsFiniteSet(u)
  BY <1>1, FS_Subset DEF Upto
<1>3. Cardinality(u) \in Nat
  BY <1>2, FS_CardinalityType
<1>4. Cardinality(u) <= n + 1
  BY <1>2, <1>3
<1>5. QED
  BY <1>2, <1>4 DEF Upto

LEMMA SetIterExists ==
  \A par, base, D : IsFiniteSet(D) => \A n \in Nat : \E it : IsSetIter(par, base, Upto(D, n), it)
<1>1. SUFFICES ASSUME NEW par, NEW base, NEW D, IsFiniteSet(D)
               PROVE  \A n \in Nat : \E it : IsSetIter(par, base, Upto(D, n), it)
  OBVIOUS
<1> DEFINE T == {n \in Nat : \E it : IsSetIter(par, base, Upto(D, n), it)}
<1>2. 0 \in T
  <2> DEFINE it == [u \in Upto(D, 0) |-> base]
  <2>1. it = [u \in Upto(D, 0) |-> IF u = {} THEN base ELSE Op(par, it[u \ {Some(u)}], Some(u))]
    BY <1>1, NoneUpto
  <2>2. QED
    BY <2>1 DEF IsSetIter
<1>3. ASSUME NEW n \in Nat, n \in T PROVE n + 1 \in T
  <2>1. PICK g : IsSetIter(par, base, Upto(D, n), g)
    BY <1>3
  <2> DEFINE h == [u \in Upto(D, n + 1) |-> IF u = {} THEN base ELSE Op(par, g[u \ {Some(u)}], Some(u))]
  <2>2. \A u \in Upto(D, n) : h[u] = g[u]
    <3>1. \A u \in Upto(D, n) : g[u] = IF u = {} THEN base ELSE Op(par, g[u \ {Some(u)}], Some(u))
      BY <2>1 DEF IsSetIter
    <3>2. \A u \in Upto(D, n) : u \in Upto(D, n + 1)
      BY <1>1, UptoGrows
    <3>3. QED
      BY <3>1, <3>2
  <2>3. ASSUME NEW u \in Upto(D, n + 1) PROVE h[u] = IF u = {} THEN base ELSE Op(par, h[u \ {Some(u)}], Some(u))
    <3>1. CASE u = {}
      BY <3>1
    <3>2. CASE u # {}
      <4>1. h[u] = Op(par, g[u \ {Some(u)}], Some(u))
        BY <3>2
      <4>2. u \ {Some(u)} \in Upto(D, n)
        BY <1>1, <3>2, OneLess
      <4>3. h[u \ {Some(u)}] = g[u \ {Some(u)}]
        BY <2>2, <4>2
      <4> HIDE DEF h
      <4>4. QED
        BY <3>2, <4>1, <4>3
    <3>3. QED
      BY <3>1, <3>2
  <2>4. h = [u \in Upto(D, n + 1) |-> h[u]]
    OBVIOUS
  <2> HIDE DEF h
  <2>5. h = [u \in Upto(D, n + 1) |-> IF u = {} THEN base ELSE Op(par, h[u \ {Some(u)}], Some(u))]
    BY <2>3, <2>4
  <2>6. IsSetIter(par, base, Upto(D, n + 1), h)
    BY <2>5, Zenon DEF IsSetIter
  <2>7. \E it : IsSetIter(par, base, Upto(D, n + 1), it)
    BY <2>6, Zenon
  <2>8. QED
    BY <2>7
<1> HIDE DEF T
<1>4. \A n \in Nat : n \in T
  BY <1>2, <1>3, Induction
<1>5. QED
  BY <1>4 DEF T

LEMMA AllUpto == \A D : IsFiniteSet(D) => SUBSET D = Upto(D, Cardinality(D)) /\ Cardinality(D) \in Nat
<1>1. SUFFICES ASSUME NEW D, IsFiniteSet(D)
               PROVE  SUBSET D = Upto(D, Cardinality(D)) /\ Cardinality(D) \in Nat
  OBVIOUS
<1>2. \A u \in SUBSET D : Cardinality(u) <= Cardinality(D)
  BY <1>1, FS_Subset
<1>3. Cardinality(D) \in Nat
  BY <1>1, FS_CardinalityType
<1>4. QED
  BY <1>2, <1>3 DEF Upto

\* What every step keeps in V ends in V.
LEMMA SetFoldType ==
  \A par, base, V, D :
    /\ IsFiniteSet(D) /\ base \in V /\ \A v \in V, x \in D : Op(par, v, x) \in V
    => SetFold(par, base, D) \in V
<1>1. SUFFICES ASSUME NEW par, NEW base, NEW V, NEW D, IsFiniteSet(D), base \in V,
                      \A v \in V, x \in D : Op(par, v, x) \in V
               PROVE  SetFold(par, base, D) \in V
  OBVIOUS
<1> DEFINE N == Cardinality(D)
           it == CHOOSE it : it = [u \in SUBSET D |-> IF u = {} THEN base ELSE Op(par, it[u \ {Some(u)}], Some(u))]
<1>2. SetFold(par, base, D) = it[D]
  BY DEF SetFold
<1>3. SUBSET D = Upto(D, N) /\ N \in Nat
  BY <1>1, AllUpto
<1>4. \E j : j = [u \in SUBSET D |-> IF u = {} THEN base ELSE Op(par, j[u \ {Some(u)}], Some(u))]
  <2>1. \E j : IsSetIter(par, base, Upto(D, N), j)
    BY <1>1, <1>3, SetIterExists
  <2>2. \E j : IsSetIter(par, base, SUBSET D, j)
    BY <1>3, <2>1
  <2>3. QED
    BY <2>2, Zenon DEF IsSetIter
<1>5. it = [u \in SUBSET D |-> IF u = {} THEN base ELSE Op(par, it[u \ {Some(u)}], Some(u))]
  BY <1>4, Zenon
<1> HIDE DEF it
<1>6. \A u \in SUBSET D : it[u] = IF u = {} THEN base ELSE Op(par, it[u \ {Some(u)}], Some(u))
  BY <1>5
<1>7. \A n : Upto(D, n) \subseteq SUBSET D
  BY DEF Upto
<1> DEFINE T == {n \in Nat : \A u \in Upto(D, n) : it[u] \in V}
<1>8. 0 \in T
  <2>1. SUFFICES ASSUME NEW u \in Upto(D, 0) PROVE it[u] \in V
    OBVIOUS
  <2>2. u = {} /\ u \in SUBSET D
    BY <1>1, <1>7, NoneUpto
  <2>3. QED
    BY <1>1, <1>6, <2>2
<1>9. ASSUME NEW n \in Nat, n \in T PROVE n + 1 \in T
  <2>1. SUFFICES ASSUME NEW u \in Upto(D, n + 1) PROVE it[u] \in V
    OBVIOUS
  <2>2. u \in SUBSET D
    BY <1>7
  <2>3. CASE u = {}
    BY <1>1, <1>6, <2>2, <2>3
  <2>4. CASE u # {}
    <3>1. u \ {Some(u)} \in Upto(D, n) /\ Some(u) \in D
      BY <1>1, <2>2, <2>4, OneLess, SomeIsOne
    <3>2. it[u \ {Some(u)}] \in V
      BY <1>9, <3>1
    <3>3. it[u] = Op(par, it[u \ {Some(u)}], Some(u))
      BY <1>6, <2>2, <2>4
    <3>4. QED
      BY <1>1, <3>1, <3>2, <3>3
  <2>5. QED
    BY <2>3, <2>4
<1> HIDE DEF T
<1>10. \A n \in Nat : n \in T
  BY <1>8, <1>9, Induction
<1>11. D \in Upto(D, N)
  BY <1>3
<1>12. QED
  BY <1>2, <1>3, <1>10, <1>11 DEF T
============================================================================
