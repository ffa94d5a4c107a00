--------------------------- MODULE DynamicProofs ---------------------------
(***************************************************************************)
(* The dynamic timing study: what its looks, its trades and its searches   *)
(* promise, for all bars, events, thresholds and lists.                    *)
(***************************************************************************)
EXTENDS DynamicStudy, FiniteSetTheorems, SequenceTheorems, WellFoundedInduction, TLAPS

---------------------------------------------------------------------------
(* The folds of the study, each an instance of FoldFacts.                  *)

SelectOp(K, kept, b) == IF b \in K THEN Append(kept, b) ELSE kept
Select == INSTANCE FoldFacts WITH Op <- SelectOp

BetweenOp(par, kept, b) == IF par[1] <= b.t /\ b.t <= par[2] THEN Append(kept, b) ELSE kept
BetweenFold == INSTANCE FoldFacts WITH Op <- BetweenOp

FromOp(time, kept, b) == IF b.t >= time THEN Append(kept, b) ELSE kept
FromFold == INSTANCE FoldFacts WITH Op <- FromOp

UpToOp(time, kept, b) == IF b.t <= time THEN Append(kept, b) ELSE kept
UpToFold == INSTANCE FoldFacts WITH Op <- UpToOp

\* Whether a bar ends the wait for a pullback.
Reaches(b, price, e, p) ==
  100 * (Dir(e.side) * price - Adverse(b, e.side)) >= p.pullback_target * e.atr
RunsAway(b, price, e, p) ==
  100 * (Favourable(b, e.side) - Dir(e.side) * price) >= p.abandon_extension * e.atr
EndsOp(par, kept, b) ==
  IF Reaches(b, par[1], par[2], par[3]) \/ RunsAway(b, par[1], par[2], par[3]) THEN Append(kept, b) ELSE kept
EndsFold == INSTANCE FoldFacts WITH Op <- EndsOp

LookOp(par, acc, k) ==
  Look(par[2], par[3], acc, k, extract_step_features(par[1], par[2], k))
LookFold == INSTANCE FoldFacts WITH Op <- LookOp

---------------------------------------------------------------------------
(* Filters: the elements of a sequence that lie in a set, in their order.  *)

Sel(K, q) == Select!Fold(K, << >>, q)

LEMMA SelEmpty == \A K : Sel(K, << >>) = << >>
BY Select!FoldEmpty DEF Sel

LEMMA SelAppend ==
  \A K, S : \A q \in Seq(S), x \in S : Sel(K, Append(q, x)) = IF x \in K THEN Append(Sel(K, q), x) ELSE Sel(K, q)
BY Select!FoldAppend DEF Sel, SelectOp

LEMMA SelType == \A K, S : \A q \in Seq(S) : Sel(K, q) \in Seq(S) /\ Sel(K, q) \in Seq(S \cap K)
<1>1. SUFFICES ASSUME NEW K, NEW S PROVE \A q \in Seq(S) : Sel(K, q) \in Seq(S) /\ Sel(K, q) \in Seq(S \cap K)
  OBVIOUS
<1> DEFINE T == {q \in Seq(S) : Sel(K, q) \in Seq(S) /\ Sel(K, q) \in Seq(S \cap K)}
<1>2. << >> \in T
  BY SelEmpty, EmptySeq
<1>3. ASSUME NEW q \in Seq(S), NEW x \in S, q \in T PROVE Append(q, x) \in T
  <2>1. Append(q, x) \in Seq(S)
    OBVIOUS
  <2>2. Sel(K, Append(q, x)) = IF x \in K THEN Append(Sel(K, q), x) ELSE Sel(K, q)
    BY SelAppend
  <2> DEFINE kept == Sel(K, q)
             next == Sel(K, Append(q, x))
  <2>3. kept \in Seq(S) /\ kept \in Seq(S \cap K)
    BY <1>3, Zenon
  <2> HIDE DEF kept, next
  <2>4. next = IF x \in K THEN Append(kept, x) ELSE kept
    BY <2>2, Zenon DEF kept, next
  <2>5. next \in Seq(S) /\ next \in Seq(S \cap K)
    <3>1. CASE x \in K
      <4>1. x \in S \cap K /\ next = Append(kept, x)
        BY <2>4, <3>1
      <4>2. QED
        BY <2>3, <4>1
    <3>2. CASE x \notin K
      BY <2>3, <2>4, <3>2
    <3>3. QED
      BY <3>1, <3>2
  <2>6. QED
    BY <2>1, <2>5, Zenon DEF next
<1> HIDE DEF T
<1>4. \A q \in Seq(S) : q \in T
  BY <1>2, <1>3, Select!SeqInduction
<1>5. QED
  BY <1>4 DEF T

\* Two filters are one, and the order of two does not matter.
LEMMA SelTwice == \A K, L, S : \A q \in Seq(S) : Sel(L, Sel(K, q)) = Sel(K \cap L, q)
<1>1. SUFFICES ASSUME NEW K, NEW L, NEW S PROVE \A q \in Seq(S) : Sel(L, Sel(K, q)) = Sel(K \cap L, q)
  OBVIOUS
<1> DEFINE T == {q \in Seq(S) : Sel(L, Sel(K, q)) = Sel(K \cap L, q)}
<1>2. << >> \in T
  BY SelEmpty
<1>3. ASSUME NEW q \in Seq(S), NEW x \in S, q \in T PROVE Append(q, x) \in T
  <2>1. Append(q, x) \in Seq(S)
    OBVIOUS
  <2>2. Sel(K, Append(q, x)) = IF x \in K THEN Append(Sel(K, q), x) ELSE Sel(K, q)
    BY SelAppend
  <2>3. Sel(K \cap L, Append(q, x)) = IF x \in K \cap L THEN Append(Sel(K \cap L, q), x) ELSE Sel(K \cap L, q)
    BY SelAppend
  <2>4. Sel(K, q) \in Seq(S)
    BY SelType
  <2>5. Sel(L, Append(Sel(K, q), x)) = IF x \in L THEN Append(Sel(L, Sel(K, q)), x) ELSE Sel(L, Sel(K, q))
    BY <2>4, SelAppend
  <2>6. QED
    BY <1>3, <2>1, <2>2, <2>3, <2>5
<1> HIDE DEF T
<1>4. \A q \in Seq(S) : q \in T
  BY <1>2, <1>3, Select!SeqInduction
<1>5. QED
  BY <1>4 DEF T

LEMMA SelSwap == \A K, L, S : \A q \in Seq(S) : Sel(L, Sel(K, q)) = Sel(K, Sel(L, q))
<1>1. SUFFICES ASSUME NEW K, NEW L, NEW S, NEW q \in Seq(S) PROVE Sel(L, Sel(K, q)) = Sel(K, Sel(L, q))
  OBVIOUS
<1>2. K \cap L = L \cap K
  OBVIOUS
<1>3. Sel(L, Sel(K, q)) = Sel(K \cap L, q) /\ Sel(K, Sel(L, q)) = Sel(L \cap K, q)
  BY SelTwice
<1>4. QED
  BY <1>2, <1>3

\* A first element that is kept stays the first.
LEMMA SelHead ==
  \A K, S :
    \A q \in Seq(S) : q # << >> /\ Head(q) \in K =>
      Sel(K, q) # << >> /\ Head(Sel(K, q)) = Head(q)
<1>1. SUFFICES ASSUME NEW K, NEW S
               PROVE  \A q \in Seq(S) : q # << >> /\ Head(q) \in K =>
                        Sel(K, q) # << >> /\ Head(Sel(K, q)) = Head(q)
  OBVIOUS
<1> DEFINE F(q) == Sel(K, q)
           T == {q \in Seq(S) : q # << >> /\ Head(q) \in K => F(q) # << >> /\ Head(F(q)) = Head(q)}
<1>2. << >> \in T
  BY EmptySeq
<1>3. ASSUME NEW q \in Seq(S), NEW x \in S, q \in T PROVE Append(q, x) \in T
  <2>1. Append(q, x) \in Seq(S)
    OBVIOUS
  <2>2. F(Append(q, x)) = IF x \in K THEN Append(F(q), x) ELSE F(q)
    BY SelAppend
  <2>3. F(q) \in Seq(S)
    BY SelType
  <2>4. CASE q = << >>
    <3>1. F(q) = << >>
      BY <2>4, SelEmpty
    <3> HIDE DEF F
    <3>2. Head(Append(q, x)) = x
      BY <2>4
    <3>3. Append(F(q), x) # << >> /\ Head(Append(F(q), x)) = x
      BY <3>1
    <3>4. QED
      BY <2>1, <2>2, <3>2, <3>3
  <2>5. CASE q # << >>
    <3> HIDE DEF F
    <3>1. Head(Append(q, x)) = Head(q)
      BY <2>5
    <3>2. F(q) # << >> => Append(F(q), x) # << >> /\ Head(Append(F(q), x)) = Head(F(q))
      BY <2>3
    <3>3. QED
      BY <1>3, <2>1, <2>2, <2>5, <3>1, <3>2
  <2>6. QED
    BY <2>4, <2>5
<1> HIDE DEF T
<1>4. \A q \in Seq(S) : q \in T
  BY <1>2, <1>3, Select!SeqInduction
<1>5. QED
  BY <1>4 DEF T

\* What is kept is found again.
LEMMA SelHas ==
  \A K, S :
    \A q \in Seq(S) : \A i \in 1..Len(q) : q[i] \in K =>
      \E j \in 1..Len(Sel(K, q)) : Sel(K, q)[j] = q[i]
<1>1. SUFFICES ASSUME NEW K, NEW S
               PROVE  \A q \in Seq(S) : \A i \in 1..Len(q) : q[i] \in K =>
                        \E j \in 1..Len(Sel(K, q)) : Sel(K, q)[j] = q[i]
  OBVIOUS
<1> DEFINE F(q) == Sel(K, q)
           T == {q \in Seq(S) : \A i \in 1..Len(q) : q[i] \in K => \E j \in 1..Len(F(q)) : F(q)[j] = q[i]}
<1>2. << >> \in T
  <2>1. 1..Len(<< >>) = {}
    OBVIOUS
  <2>2. QED
    BY <2>1, EmptySeq
<1>3. ASSUME NEW q \in Seq(S), NEW x \in S, q \in T PROVE Append(q, x) \in T
  <2>1. Append(q, x) \in Seq(S)
    OBVIOUS
  <2>2. F(Append(q, x)) = IF x \in K THEN Append(F(q), x) ELSE F(q)
    BY SelAppend
  <2>3. F(q) \in Seq(S)
    BY SelType
  <2> HIDE DEF F
  <2>4. SUFFICES ASSUME NEW i \in 1..Len(Append(q, x)), Append(q, x)[i] \in K
                 PROVE  \E j \in 1..Len(F(Append(q, x))) : F(Append(q, x))[j] = Append(q, x)[i]
    BY <2>1
  <2>5. CASE i = Len(q) + 1
    <3>1. Append(q, x)[i] = x
      BY <2>5
    <3>2. F(Append(q, x)) = Append(F(q), x)
      BY <2>2, <2>4, <3>1
    <3>3. Len(F(q)) + 1 \in 1..Len(Append(F(q), x)) /\ Append(F(q), x)[Len(F(q)) + 1] = x
      BY <2>3
    <3>4. QED
      BY <3>1, <3>2, <3>3
  <2>6. CASE i # Len(q) + 1
    <3>1. i \in 1..Len(q) /\ Append(q, x)[i] = q[i]
      BY <2>4, <2>6
    <3>2. PICK j \in 1..Len(F(q)) : F(q)[j] = q[i]
      BY <1>3, <2>4, <3>1
    <3>3. j \in 1..Len(F(Append(q, x))) /\ F(Append(q, x))[j] = F(q)[j]
      BY <2>2, <2>3
    <3>4. QED
      BY <3>1, <3>2, <3>3
  <2>7. QED
    BY <2>5, <2>6
<1> HIDE DEF T
<1>4. \A q \in Seq(S) : q \in T
  BY <1>2, <1>3, Select!SeqInduction
<1>5. QED
  BY <1>4 DEF T

\* A narrower filter leaves nothing to a wider one.
LEMMA SelInner == \A K, L, S : \A q \in Seq(S) : K \subseteq L => Sel(K, Sel(L, q)) = Sel(K, q)
<1>1. \A K, L : K \subseteq L => L \cap K = K
  OBVIOUS
<1>2. QED
  BY <1>1, SelTwice

\* The elements that pass are those of the set.
Keeps(F, K, S) ==
  F[<< >>] = << >> /\ \A q \in Seq(S), x \in S : F[Append(q, x)] = IF x \in K THEN Append(F[q], x) ELSE F[q]

LEMMA FilterIsSel ==
  ASSUME NEW S, NEW K, NEW F, Keeps(F, K, S)
  PROVE  \A q \in Seq(S) : F[q] = Sel(K, q)
<1> DEFINE T == {q \in Seq(S) : F[q] = Sel(K, q)}
<1>1. << >> \in T
  BY SelEmpty DEF Keeps
<1>2. ASSUME NEW q \in Seq(S), NEW x \in S, q \in T PROVE Append(q, x) \in T
  <2>1. Append(q, x) \in Seq(S)
    OBVIOUS
  <2>2. Sel(K, Append(q, x)) = IF x \in K THEN Append(Sel(K, q), x) ELSE Sel(K, q)
    BY SelAppend
  <2>3. QED
    BY <1>2, <2>1, <2>2 DEF Keeps
<1> HIDE DEF T
<1>3. \A q \in Seq(S) : q \in T
  BY <1>1, <1>2, Select!SeqInduction
<1>4. QED
  BY <1>3 DEF T

LEMMA BetweenIsFold ==
  \A bars, lo, hi : Between(bars, lo, hi) = BetweenFold!Run(<<lo, hi>>, << >>, bars)
BY DEF Between, Where, BetweenOp,
       BetweenFold!Run

LEMMA BetweenSelects ==
  \A S, lo, hi : \A q \in Seq(S) : Between(q, lo, hi) = Sel({b \in S : lo <= b.t /\ b.t <= hi}, q)
<1>1. SUFFICES ASSUME NEW S, NEW lo, NEW hi
               PROVE  \A q \in Seq(S) : Between(q, lo, hi) = Sel({b \in S : lo <= b.t /\ b.t <= hi}, q)
  OBVIOUS
<1> DEFINE K == {b \in S : lo <= b.t /\ b.t <= hi}
           F == [q \in Seq(S) |-> BetweenFold!Run(<<lo, hi>>, << >>, q)]
<1>2. Keeps(F, K, S)
  <2>1. F[<< >>] = << >>
    BY BetweenFold!RunEmpty
  <2>2. \A q \in Seq(S), x \in S : F[Append(q, x)] = IF x \in K THEN Append(F[q], x) ELSE F[q]
    BY BetweenFold!RunAppend DEF BetweenOp
  <2> HIDE DEF F, K
  <2>3. QED
    BY <2>1, <2>2 DEF Keeps
<1>3. \A q \in Seq(S) : F[q] = BetweenFold!Run(<<lo, hi>>, << >>, q)
  OBVIOUS
<1> HIDE DEF F, K
<1>4. \A q \in Seq(S) : F[q] = Sel(K, q)
  BY <1>2, FilterIsSel
<1>5. QED
  BY <1>3, <1>4, BetweenIsFold DEF K

LEMMA BetweenType == \A S, lo, hi : \A q \in Seq(S) : Between(q, lo, hi) \in Seq(S)
<1>1. SUFFICES ASSUME NEW S, NEW lo, NEW hi, NEW q \in Seq(S) PROVE Between(q, lo, hi) \in Seq(S)
  OBVIOUS
<1> DEFINE K == {b \in S : lo <= b.t /\ b.t <= hi}
<1>2. Between(q, lo, hi) = Sel(K, q)
  BY BetweenSelects
<1>3. QED
  BY <1>2, SelType

LEMMA FromIsFold == \A bars, time : From(bars, time) = FromFold!Run(time, << >>, bars)
BY DEF From, Where, FromOp,
       FromFold!Run

LEMMA FromSelects ==
  \A S, time : \A q \in Seq(S) : From(q, time) = Sel({b \in S : b.t >= time}, q)
<1>1. SUFFICES ASSUME NEW S, NEW time
               PROVE  \A q \in Seq(S) : From(q, time) = Sel({b \in S : b.t >= time}, q)
  OBVIOUS
<1> DEFINE K == {b \in S : b.t >= time}
           F == [q \in Seq(S) |-> FromFold!Run(time, << >>, q)]
<1>2. Keeps(F, K, S)
  <2>1. F[<< >>] = << >>
    BY FromFold!RunEmpty
  <2>2. \A q \in Seq(S), x \in S : F[Append(q, x)] = IF x \in K THEN Append(F[q], x) ELSE F[q]
    BY FromFold!RunAppend DEF FromOp
  <2> HIDE DEF F, K
  <2>3. QED
    BY <2>1, <2>2 DEF Keeps
<1>3. \A q \in Seq(S) : F[q] = FromFold!Run(time, << >>, q)
  OBVIOUS
<1> HIDE DEF F, K
<1>4. \A q \in Seq(S) : F[q] = Sel(K, q)
  BY <1>2, FilterIsSel
<1>5. QED
  BY <1>3, <1>4, FromIsFold DEF K

LEMMA UpToIsFold == \A bars, time : UpTo(bars, time) = UpToFold!Run(time, << >>, bars)
BY DEF UpTo, Where, UpToOp,
       UpToFold!Run

LEMMA UpToSelects ==
  \A S, time : \A q \in Seq(S) : UpTo(q, time) = Sel({b \in S : b.t <= time}, q)
<1>1. SUFFICES ASSUME NEW S, NEW time
               PROVE  \A q \in Seq(S) : UpTo(q, time) = Sel({b \in S : b.t <= time}, q)
  OBVIOUS
<1> DEFINE K == {b \in S : b.t <= time}
           F == [q \in Seq(S) |-> UpToFold!Run(time, << >>, q)]
<1>2. Keeps(F, K, S)
  <2>1. F[<< >>] = << >>
    BY UpToFold!RunEmpty
  <2>2. \A q \in Seq(S), x \in S : F[Append(q, x)] = IF x \in K THEN Append(F[q], x) ELSE F[q]
    BY UpToFold!RunAppend DEF UpToOp
  <2> HIDE DEF F, K
  <2>3. QED
    BY <2>1, <2>2 DEF Keeps
<1>3. \A q \in Seq(S) : F[q] = UpToFold!Run(time, << >>, q)
  OBVIOUS
<1> HIDE DEF F, K
<1>4. \A q \in Seq(S) : F[q] = Sel(K, q)
  BY <1>2, FilterIsSel
<1>5. QED
  BY <1>3, <1>4, UpToIsFold DEF K

\* The bars that end the wait for a pullback.
Ends(window, price, e, p) == EndsFold!Run(<<price, e, p>>, << >>, window)
Pulled(ends, price, e, p) == IF ends = << >> \/ ~Reaches(Head(ends), price, e, p) THEN None ELSE <<Head(ends)>>

LEMMA PullbackIsFold ==
  \A bars, at, price, e, p :
    wait_for_pullback(bars, at, price, e, p)
      = Pulled(Ends(Between(bars, at + 1, at + p.decision_window), price, e, p), price, e, p)
BY DEF wait_for_pullback, Where, EndsOp,
       Ends, Pulled, Reaches, RunsAway, EndsFold!Run

LEMMA EndsSelects ==
  \A S, price, e, p : \A q \in Seq(S) : Ends(q, price, e, p) = Sel({b \in S : Reaches(b, price, e, p) \/ RunsAway(b, price, e, p)}, q)
<1>1. SUFFICES ASSUME NEW S, NEW price, NEW e, NEW p
               PROVE  \A q \in Seq(S) : Ends(q, price, e, p) = Sel({b \in S : Reaches(b, price, e, p) \/ RunsAway(b, price, e, p)}, q)
  OBVIOUS
<1> DEFINE K == {b \in S : Reaches(b, price, e, p) \/ RunsAway(b, price, e, p)}
           F == [q \in Seq(S) |-> EndsFold!Run(<<price, e, p>>, << >>, q)]
<1>2. Keeps(F, K, S)
  <2>1. F[<< >>] = << >>
    BY EndsFold!RunEmpty
  <2>2. \A q \in Seq(S), x \in S : F[Append(q, x)] = IF x \in K THEN Append(F[q], x) ELSE F[q]
    BY EndsFold!RunAppend DEF EndsOp
  <2> HIDE DEF F, K
  <2>3. QED
    BY <2>1, <2>2 DEF Keeps
<1>3. \A q \in Seq(S) : F[q] = EndsFold!Run(<<price, e, p>>, << >>, q)
  OBVIOUS
<1> HIDE DEF F, K
<1>4. \A q \in Seq(S) : F[q] = Sel(K, q)
  BY <1>2, FilterIsSel
<1>5. QED
  BY <1>3, <1>4 DEF K, Ends

---------------------------------------------------------------------------
(* What a look sees is the same without the bars after it                  *)

LEMMA CutIsBars == \A bars \in Seq(Candles) : \A time : UpTo(bars, time) \in Seq(Candles)
<1>1. SUFFICES ASSUME NEW bars \in Seq(Candles), NEW time PROVE UpTo(bars, time) \in Seq(Candles)
  OBVIOUS
<1> DEFINE U == {b \in Candles : b.t <= time}
<1>2. UpTo(bars, time) = Sel(U, bars)
  BY UpToSelects
<1>3. QED
  BY <1>2, SelType

LEMMA CutBetween ==
  \A bars \in Seq(Candles) : \A lo : \A hi \in Int, time \in Int :
    hi <= time => Between(UpTo(bars, time), lo, hi) = Between(bars, lo, hi)
<1>1. SUFFICES ASSUME NEW bars \in Seq(Candles), NEW lo, NEW hi \in Int, NEW time \in Int, hi <= time
               PROVE  Between(UpTo(bars, time), lo, hi) = Between(bars, lo, hi)
  OBVIOUS
<1> DEFINE U == {b \in Candles : b.t <= time}
           K == {b \in Candles : lo <= b.t /\ b.t <= hi}
<1>2. UpTo(bars, time) = Sel(U, bars)
  BY UpToSelects
<1>3. Between(bars, lo, hi) = Sel(K, bars)
  BY BetweenSelects
<1>4. Between(UpTo(bars, time), lo, hi) = Sel(K, UpTo(bars, time))
  BY CutIsBars, BetweenSelects
<1>5. K \subseteq U
  BY <1>1 DEF Candles
<1> HIDE DEF K, U
<1>6. Sel(K, Sel(U, bars)) = Sel(K, bars)
  BY <1>5, SelInner
<1>7. QED
  BY <1>2, <1>3, <1>4, <1>6

LEMMA CutFeatures ==
  \A bars \in Seq(Candles) : \A e : \A step \in Nat, time \in Int :
    IsTouch(e) /\ e.touch + step * Interval <= time =>
      extract_step_features(UpTo(bars, time), e, step) = extract_step_features(bars, e, step)
<1>1. SUFFICES ASSUME NEW bars \in Seq(Candles), NEW e, NEW step \in Nat, NEW time \in Int, IsTouch(e),
                      e.touch + step * Interval <= time
               PROVE  extract_step_features(UpTo(bars, time), e, step) = extract_step_features(bars, e, step)
  OBVIOUS
<1> DEFINE end == e.touch + step * Interval
<1>2. end \in Int /\ end <= time
  BY <1>1, ExecutionAssumption DEF IsTouch
<1> HIDE DEF end
<1>3. \A lo : Between(UpTo(bars, time), lo, end) = Between(bars, lo, end)
  BY <1>2, CutBetween
<1>4. FeaturesUpTo(UpTo(bars, time), e, step, end) = FeaturesUpTo(bars, e, step, end)
  BY <1>3 DEF FeaturesUpTo
<1>5. QED
  BY <1>4 DEF end, extract_step_features

\* A bar that is found before the cut is found again.
LEMMA CutFirst ==
  \A bars \in Seq(Candles) : \A from \in Int, time \in Int :
    FirstFrom(bars, from) # None /\ FirstFrom(bars, from)[1].t <= time =>
      FirstFrom(UpTo(bars, time), from) = FirstFrom(bars, from)
<1>1. SUFFICES ASSUME NEW bars \in Seq(Candles), NEW from \in Int, NEW time \in Int,
                      FirstFrom(bars, from) # None, FirstFrom(bars, from)[1].t <= time
               PROVE  FirstFrom(UpTo(bars, time), from) = FirstFrom(bars, from)
  OBVIOUS
<1> DEFINE U == {b \in Candles : b.t <= time}
           K == {b \in Candles : b.t >= from}
<1>2. UpTo(bars, time) = Sel(U, bars)
  BY UpToSelects
<1>3. From(bars, from) = Sel(K, bars)
  BY FromSelects
<1>4. From(UpTo(bars, time), from) = Sel(K, UpTo(bars, time))
  BY CutIsBars, FromSelects
<1>5. Sel(K, bars) \in Seq(Candles)
  BY SelType
<1>6. Sel(K, bars) # << >> /\ Head(Sel(K, bars)) \in Candles /\ Head(Sel(K, bars)).t <= time
  BY <1>1, <1>3, <1>5 DEF FirstFrom, None
<1>7. Head(Sel(K, bars)) \in U
  BY <1>6
<1> HIDE DEF K, U
<1>8. Sel(U, Sel(K, bars)) # << >> /\ Head(Sel(U, Sel(K, bars))) = Head(Sel(K, bars))
  BY <1>5, <1>6, <1>7, SelHead
<1>9. Sel(K, Sel(U, bars)) = Sel(U, Sel(K, bars))
  BY SelSwap
<1>10. QED
  BY <1>2, <1>3, <1>4, <1>6, <1>8, <1>9 DEF FirstFrom

LEMMA CutPullback ==
  \A bars \in Seq(Candles) : \A price, e, p : \A at \in Int, time \in Int :
    LET w == wait_for_pullback(bars, at, price, e, p)
    IN w # None /\ w[1].t <= time =>
         wait_for_pullback(UpTo(bars, time), at, price, e, p) = w
<1>1. SUFFICES ASSUME NEW bars \in Seq(Candles), NEW price, NEW e, NEW p, NEW at \in Int, NEW time \in Int,
                      wait_for_pullback(bars, at, price, e, p) # None,
                      wait_for_pullback(bars, at, price, e, p)[1].t <= time
               PROVE  wait_for_pullback(UpTo(bars, time), at, price, e, p)
                        = wait_for_pullback(bars, at, price, e, p)
  OBVIOUS
<1> DEFINE lo == at + 1
           hi == at + p.decision_window
           U == {b \in Candles : b.t <= time}
           K == {b \in Candles : lo <= b.t /\ b.t <= hi}
           R == {b \in Candles : Reaches(b, price, e, p) \/ RunsAway(b, price, e, p)}
<1>2. UpTo(bars, time) = Sel(U, bars) /\ Sel(U, bars) \in Seq(Candles)
  BY UpToSelects, SelType
<1>3. Between(bars, lo, hi) = Sel(K, bars) /\ Between(UpTo(bars, time), lo, hi) = Sel(K, Sel(U, bars))
  BY <1>2, BetweenSelects
<1>4. \A q \in Seq(Candles) : Ends(q, price, e, p) = Sel(R, q)
  BY EndsSelects
<1>5. \A q : q # << >> /\ Head(q) \in Candles /\ Head(q).t <= time => Head(q) \in U
  OBVIOUS
<1> HIDE DEF U, K, R
<1>6. Sel(K, bars) \in Seq(Candles) /\ Sel(K, Sel(U, bars)) \in Seq(Candles) /\ Sel(R, Sel(K, bars)) \in Seq(Candles)
  BY <1>2, SelType
<1>7. wait_for_pullback(bars, at, price, e, p) = Pulled(Sel(R, Sel(K, bars)), price, e, p)
  BY <1>3, <1>4, <1>6, PullbackIsFold
<1>8. wait_for_pullback(UpTo(bars, time), at, price, e, p) = Pulled(Sel(R, Sel(K, Sel(U, bars))), price, e, p)
  BY <1>3, <1>4, <1>6, PullbackIsFold
<1>9. Sel(R, Sel(K, Sel(U, bars))) = Sel(U, Sel(R, Sel(K, bars)))
  <2>1. Sel(K, Sel(U, bars)) = Sel(U, Sel(K, bars))
    BY SelSwap
  <2>2. Sel(R, Sel(U, Sel(K, bars))) = Sel(U, Sel(R, Sel(K, bars)))
    BY <1>6, SelSwap
  <2>3. QED
    BY <2>1, <2>2
<1> DEFINE ends == Sel(R, Sel(K, bars))
<1>10. ends # << >> /\ Head(ends) \in Candles /\ Head(ends).t <= time /\ ends \in Seq(Candles)
  BY <1>1, <1>6, <1>7 DEF Pulled, None
<1> HIDE DEF ends
<1>11. Sel(U, ends) # << >> /\ Head(Sel(U, ends)) = Head(ends)
  BY <1>5, <1>10, SelHead
<1>12. Pulled(Sel(U, ends), price, e, p) = Pulled(ends, price, e, p)
  BY <1>10, <1>11 DEF Pulled
<1>13. QED
  BY <1>7, <1>8, <1>9, <1>12 DEF ends

---------------------------------------------------------------------------
(* The looks of an event, one after the other                              *)

Count(m) == [k \in 1..m |-> k]
LookStart == [path |-> << >>, missing |-> 0, step |-> 0, verdict |-> None]
LooksUpTo(bars, e, p, m) == LookFold!Fold(<<bars, e, p>>, LookStart, Count(m))
LookFields == {"path", "missing", "step", "verdict"}

LEMMA LooksIsFold == \A bars, e, p : Looks(bars, e, p) = LooksUpTo(bars, e, p, p.max_steps)
BY DEF Looks, LooksUpTo, LookStart, Count, FoldLeft, MapThenFoldSet, Max, LookOp, LookFold!Fold, LookFold!Largest

LEMMA CountGrows == \A m \in Nat : Count(m) \in Seq(Nat) /\ Count(m + 1) = Append(Count(m), m + 1)
<1>1. SUFFICES ASSUME NEW m \in Nat PROVE Count(m) \in Seq(Nat) /\ Count(m + 1) = Append(Count(m), m + 1)
  OBVIOUS
<1>2. Count(m) \in Seq(Nat) /\ Len(Count(m)) = m
  BY DEF Count
<1>3. QED
  BY <1>2 DEF Count

LEMMA LooksStart == \A bars, e, p : LooksUpTo(bars, e, p, 0) = LookStart
<1>1. Count(0) = << >>
  BY DEF Count
<1>2. QED
  BY <1>1, LookFold!FoldEmpty DEF LooksUpTo

LEMMA LooksGrow ==
  \A bars, e, p : \A m \in Nat :
    LooksUpTo(bars, e, p, m + 1)
      = Look(e, p, LooksUpTo(bars, e, p, m), m + 1, extract_step_features(bars, e, m + 1))
<1>1. SUFFICES ASSUME NEW bars, NEW e, NEW p, NEW m \in Nat
               PROVE  LooksUpTo(bars, e, p, m + 1)
                        = Look(e, p, LooksUpTo(bars, e, p, m), m + 1, extract_step_features(bars, e, m + 1))
  OBVIOUS
<1>2. Count(m) \in Seq(Nat) /\ m + 1 \in Nat /\ Count(m + 1) = Append(Count(m), m + 1)
  <2>1. Count(m) \in Seq(Nat) /\ Count(m + 1) = Append(Count(m), m + 1)
    BY CountGrows, Zenon
  <2>2. QED
    BY <2>1
<1>3. LookFold!Fold(<<bars, e, p>>, LookStart, Append(Count(m), m + 1))
        = LookOp(<<bars, e, p>>, LookFold!Fold(<<bars, e, p>>, LookStart, Count(m)), m + 1)
  BY <1>2, LookFold!FoldAppend
<1>4. QED
  BY <1>2, <1>3 DEF LooksUpTo, LookOp

\* What the looks have found: a step they have taken, and the fields of their record.
LEMMA LooksType ==
  \A bars, e, p : \A m \in Nat :
    LookFields \subseteq DOMAIN LooksUpTo(bars, e, p, m) /\ LooksUpTo(bars, e, p, m).step \in 0..m
<1>1. SUFFICES ASSUME NEW bars, NEW e, NEW p
               PROVE  \A m \in Nat : /\ LookFields \subseteq DOMAIN LooksUpTo(bars, e, p, m)
                                     /\ LooksUpTo(bars, e, p, m).step \in 0..m
  OBVIOUS
<1> DEFINE L(m) == LooksUpTo(bars, e, p, m)
           T == {m \in Nat : LookFields \subseteq DOMAIN L(m) /\ L(m).step \in 0..m}
<1>2. 0 \in T
  BY LooksStart DEF LookStart, LookFields
<1>3. ASSUME NEW m \in Nat, m \in T PROVE m + 1 \in T
  <2> DEFINE f == extract_step_features(bars, e, m + 1)
  <2>1. L(m + 1) = Look(e, p, L(m), m + 1, f)
    BY LooksGrow
  <2>2. LookFields \subseteq DOMAIN L(m) /\ L(m).step \in 0..m
    BY <1>3
  <2> HIDE DEF L, f
  <2>3. L(m + 1) \in {L(m), Unseen(L(m)), Seen(L(m), m + 1, classify(f, p, e.atr))}
    BY <2>1 DEF Look
  <2>4. LookFields \subseteq DOMAIN Unseen(L(m)) /\ Unseen(L(m)).step = L(m).step
    BY <2>2 DEF Unseen, LookFields
  <2>5. \A v : LookFields \subseteq DOMAIN Seen(L(m), m + 1, v) /\ Seen(L(m), m + 1, v).step = m + 1
    BY <2>2 DEF Seen, LookFields
  <2>6. LookFields \subseteq DOMAIN L(m + 1) /\ L(m + 1).step \in {L(m).step, m + 1}
    BY <2>2, <2>3, <2>4, <2>5
  <2>7. L(m + 1).step \in 0..(m + 1)
    BY <2>2, <2>6
  <2>8. QED
    BY <2>6, <2>7
<1> HIDE DEF T
<1>4. \A m \in Nat : m \in T
  BY <1>2, <1>3, Select!Induction
<1>5. QED
  BY <1>4 DEF T

\* As long as the cut comes after a look, the look is the same.
LEMMA CutLooks ==
  \A bars \in Seq(Candles) : \A e, p : \A time \in Int : IsTouch(e) =>
    \A m \in Nat : e.touch + m * Interval <= time =>
      LooksUpTo(UpTo(bars, time), e, p, m) = LooksUpTo(bars, e, p, m)
<1>1. SUFFICES ASSUME NEW bars \in Seq(Candles), NEW e, NEW p, NEW time \in Int, IsTouch(e)
               PROVE  \A m \in Nat : e.touch + m * Interval <= time =>
                        LooksUpTo(UpTo(bars, time), e, p, m) = LooksUpTo(bars, e, p, m)
  OBVIOUS
<1> DEFINE L(m) == LooksUpTo(bars, e, p, m)
           C(m) == LooksUpTo(UpTo(bars, time), e, p, m)
           T == {m \in Nat : e.touch + m * Interval <= time => C(m) = L(m)}
<1>2. 0 \in T
  BY LooksStart
<1>3. ASSUME NEW m \in Nat, m \in T PROVE m + 1 \in T
  <2>1. SUFFICES ASSUME e.touch + (m + 1) * Interval <= time PROVE C(m + 1) = L(m + 1)
    OBVIOUS
  <2>2. e.touch + m * Interval <= time
    <3>1. e.touch \in Int /\ Interval \in Nat
      BY <1>1, ExecutionAssumption DEF IsTouch
    <3>2. (m + 1) * Interval = m * Interval + Interval /\ m * Interval \in Int
      BY <3>1
    <3>3. QED
      BY <2>1, <3>1, <3>2
  <2>3. extract_step_features(UpTo(bars, time), e, m + 1) = extract_step_features(bars, e, m + 1)
    BY <1>1, <2>1, CutFeatures
  <2>4. C(m) = L(m)
    BY <1>3, <2>2
  <2>5. QED
    BY <2>3, <2>4, LooksGrow
<1> HIDE DEF T
<1>4. \A m \in Nat : m \in T
  BY <1>2, <1>3, Select!Induction
<1>5. QED
  BY <1>4 DEF T

\* The look that decided is before the cut: so is all that was looked at.
LEMMA CutVerdict ==
  \A bars \in Seq(Candles) : \A e, p : \A time \in Int : IsTouch(e) =>
    \A m \in Nat :
      LET acc == LooksUpTo(bars, e, p, m)
      IN acc.verdict # None /\ acc.verdict[1] # "skip" /\ e.touch + acc.step * Interval <= time =>
           LooksUpTo(UpTo(bars, time), e, p, m) = acc
<1>1. SUFFICES ASSUME NEW bars \in Seq(Candles), NEW e, NEW p, NEW time \in Int, IsTouch(e)
               PROVE  \A m \in Nat :
                        LET acc == LooksUpTo(bars, e, p, m)
                        IN acc.verdict # None /\ acc.verdict[1] # "skip" /\ e.touch + acc.step * Interval <= time =>
                             LooksUpTo(UpTo(bars, time), e, p, m) = acc
  OBVIOUS
<1> DEFINE L(m) == LooksUpTo(bars, e, p, m)
           C(m) == LooksUpTo(UpTo(bars, time), e, p, m)
           T == {m \in Nat : L(m).verdict # None /\ L(m).verdict[1] # "skip" /\ e.touch + L(m).step * Interval <= time
                               => C(m) = L(m)}
<1>2. 0 \in T
  BY LooksStart DEF LookStart
<1>3. ASSUME NEW m \in Nat, m \in T PROVE m + 1 \in T
  <2>1. SUFFICES ASSUME L(m + 1).verdict # None, L(m + 1).verdict[1] # "skip",
                        e.touch + L(m + 1).step * Interval <= time
                 PROVE  C(m + 1) = L(m + 1)
    OBVIOUS
  <2> DEFINE f == extract_step_features(bars, e, m + 1)
             g == extract_step_features(UpTo(bars, time), e, m + 1)
  <2>2. L(m + 1) = Look(e, p, L(m), m + 1, f) /\ C(m + 1) = Look(e, p, C(m), m + 1, g)
    BY LooksGrow
  <2>3. LookFields \subseteq DOMAIN L(m)
    BY LooksType
  <2>4. CASE L(m).verdict # None
    <3>1. L(m + 1) = L(m)
      BY <2>2, <2>4 DEF Look
    <3>2. C(m) = L(m)
      BY <1>3, <2>1, <2>4, <3>1
    <3>3. QED
      BY <2>2, <2>4, <3>1, <3>2 DEF Look
  <2>5. CASE L(m).verdict = None
    <3>1. f # None
      <4>1. SUFFICES ASSUME f = None PROVE FALSE
        OBVIOUS
      <4>2. L(m + 1) = Unseen(L(m))
        BY <2>2, <2>5, <4>1 DEF Look
      <4> HIDE DEF L
      <4>3. L(m + 1).verdict \in {<<"skip", "ConsecutiveDataMissing">>, None}
        BY <2>3, <4>2 DEF Unseen, LookFields
      <4>4. QED
        BY <2>1, <4>3
    <3>2. L(m + 1).step = m + 1
      <4>1. L(m + 1) = Seen(L(m), m + 1, classify(f, p, e.atr))
        BY <2>2, <2>5, <3>1 DEF Look
      <4> HIDE DEF L, f
      <4>2. QED
        BY <2>3, <4>1 DEF Seen, LookFields
    <3>3. e.touch + (m + 1) * Interval <= time
      BY <2>1, <3>2
    <3>4. m + 1 \in Nat
      OBVIOUS
    <3>5. QED
      BY <1>1, <3>3, <3>4, CutLooks
  <2>6. QED
    BY <2>4, <2>5
<1> HIDE DEF T
<1>4. \A m \in Nat : m \in T
  BY <1>2, <1>3, Select!Induction
<1>5. QED
  BY <1>4 DEF T

---------------------------------------------------------------------------
(* What is decided for an event is decided on the bars up to its entry     *)

LEMMA FirstIsBar ==
  \A bars \in Seq(Candles) : \A from \in Int :
    LET at == FirstFrom(bars, from)
    IN at # None => at = <<at[1]>> /\ at[1] \in Candles /\ at[1].t >= from
<1>1. SUFFICES ASSUME NEW bars \in Seq(Candles), NEW from \in Int, FirstFrom(bars, from) # None
               PROVE  LET at == FirstFrom(bars, from) IN at = <<at[1]>> /\ at[1] \in Candles /\ at[1].t >= from
  OBVIOUS
<1> DEFINE K == {b \in Candles : b.t >= from}
<1>2. From(bars, from) = Sel(K, bars)
  BY FromSelects
<1>3. Sel(K, bars) \in Seq(Candles \cap K)
  BY SelType
<1>4. Sel(K, bars) # << >> /\ FirstFrom(bars, from) = <<Head(Sel(K, bars))>>
  BY <1>1, <1>2 DEF FirstFrom, None
<1>5. Head(Sel(K, bars)) \in Candles \cap K
  BY <1>3, <1>4
<1>6. QED
  BY <1>4, <1>5

LEMMA PullbackIsBar ==
  \A bars \in Seq(Candles) : \A price, e, p : \A at \in Int :
    LET w == wait_for_pullback(bars, at, price, e, p)
    IN w # None => w = <<w[1]>> /\ w[1] \in Candles /\ w[1].t > at
<1>1. SUFFICES ASSUME NEW bars \in Seq(Candles), NEW price, NEW e, NEW p, NEW at \in Int,
                      wait_for_pullback(bars, at, price, e, p) # None
               PROVE  LET w == wait_for_pullback(bars, at, price, e, p)
                      IN w = <<w[1]>> /\ w[1] \in Candles /\ w[1].t > at
  OBVIOUS
<1> DEFINE lo == at + 1
           hi == at + p.decision_window
           K == {b \in Candles : lo <= b.t /\ b.t <= hi}
           S == Candles \cap K
           R == {b \in S : Reaches(b, price, e, p) \/ RunsAway(b, price, e, p)}
           ends == Ends(Between(bars, lo, hi), price, e, p)
<1>2. wait_for_pullback(bars, at, price, e, p) = Pulled(ends, price, e, p)
  BY PullbackIsFold
<1>3. Between(bars, lo, hi) \in Seq(S)
  <2>1. Between(bars, lo, hi) = Sel(K, bars)
    BY BetweenSelects
  <2>2. QED
    BY <2>1, SelType
<1>4. \A b \in S : b \in Candles /\ b.t > at
  BY DEF Candles
<1> HIDE DEF S
<1>5. ends = Sel(R, Between(bars, lo, hi))
  BY <1>3, EndsSelects
<1> HIDE DEF R
<1>6. ends \in Seq(S)
  BY <1>3, <1>5, SelType
<1> HIDE DEF ends
<1>7. ends # << >> /\ Pulled(ends, price, e, p) = <<Head(ends)>>
  BY <1>1, <1>2 DEF Pulled
<1>8. Head(ends) \in S
  BY <1>6, <1>7
<1>9. QED
  BY <1>2, <1>4, <1>7, <1>8

\* The fill is a bar at or after the one the decision falls on.
LEMMA FillIsBar ==
  \A bars \in Seq(Candles) : \A e, p, verdict : \A from \in Int :
    LET at == FirstFrom(bars, from)
        fill == Fill(bars, e, p, verdict, at)
    IN fill # None => /\ at # None /\ at[1] \in Candles /\ at[1].t >= from
                      /\ fill = <<fill[1]>> /\ fill[1] \in Candles /\ fill[1].t >= at[1].t
<1>1. SUFFICES ASSUME NEW bars \in Seq(Candles), NEW e, NEW p, NEW verdict, NEW from \in Int,
                      Fill(bars, e, p, verdict, FirstFrom(bars, from)) # None
               PROVE  LET at == FirstFrom(bars, from)
                          fill == Fill(bars, e, p, verdict, at)
                      IN /\ at # None /\ at[1] \in Candles /\ at[1].t >= from
                         /\ fill = <<fill[1]>> /\ fill[1] \in Candles /\ fill[1].t >= at[1].t
  OBVIOUS
<1> DEFINE at == FirstFrom(bars, from)
           w == wait_for_pullback(bars, at[1].t, at[1].c, e, p)
<1>2. at # None
  BY <1>1 DEF Fill
<1>3. at = <<at[1]>> /\ at[1] \in Candles /\ at[1].t >= from
  BY <1>2, FirstIsBar
<1>4. at[1].t \in Int
  BY <1>3 DEF Candles
<1>5. Fill(bars, e, p, verdict, at) \in {w, at}
  BY DEF Fill
<1>6. w # None => w = <<w[1]>> /\ w[1] \in Candles /\ w[1].t > at[1].t
  BY <1>4, PullbackIsBar
<1>7. CASE Fill(bars, e, p, verdict, at) = at
  BY <1>2, <1>3, <1>4, <1>7
<1>8. CASE Fill(bars, e, p, verdict, at) = w
  <2>1. w # None
    BY <1>1, <1>8
  <2>2. w[1].t \in Int
    BY <1>6, <2>1 DEF Candles
  <2> HIDE DEF w, at
  <2>3. w[1].t >= at[1].t
    BY <1>4, <1>6, <2>1, <2>2
  <2>4. QED
    BY <1>2, <1>3, <1>6, <1>8, <2>1, <2>3 DEF at
<1>9. QED
  BY <1>5, <1>7, <1>8

LEMMA CutFill ==
  \A bars \in Seq(Candles) : \A e, p, verdict : \A from \in Int, time \in Int :
    LET fill == Fill(bars, e, p, verdict, FirstFrom(bars, from))
    IN fill # None /\ fill[1].t <= time =>
         Fill(UpTo(bars, time), e, p, verdict, FirstFrom(UpTo(bars, time), from)) = fill
<1>1. SUFFICES ASSUME NEW bars \in Seq(Candles), NEW e, NEW p, NEW verdict, NEW from \in Int, NEW time \in Int,
                      Fill(bars, e, p, verdict, FirstFrom(bars, from)) # None,
                      Fill(bars, e, p, verdict, FirstFrom(bars, from))[1].t <= time
               PROVE  Fill(UpTo(bars, time), e, p, verdict, FirstFrom(UpTo(bars, time), from))
                        = Fill(bars, e, p, verdict, FirstFrom(bars, from))
  OBVIOUS
<1> DEFINE at == FirstFrom(bars, from)
           fill == Fill(bars, e, p, verdict, at)
           w == wait_for_pullback(bars, at[1].t, at[1].c, e, p)
<1>2. at # None /\ at[1] \in Candles /\ fill[1] \in Candles /\ fill[1].t >= at[1].t
  BY <1>1, FillIsBar
<1>3. at[1].t \in Int /\ at[1].t <= time
  BY <1>1, <1>2, SMTT(30) DEF Candles
<1>4. FirstFrom(UpTo(bars, time), from) = at
  BY <1>2, <1>3, CutFirst
<1>5. w # None /\ w[1].t <= time => wait_for_pullback(UpTo(bars, time), at[1].t, at[1].c, e, p) = w
  BY <1>3, CutPullback
<1>6. Fill(UpTo(bars, time), e, p, verdict, at) = fill
  BY <1>1, <1>5 DEF Fill
<1>7. QED
  BY <1>4, <1>6

\* What the looks end with, on all bars and on those up to a later time.
LEMMA CutDecision ==
  \A bars \in Seq(Candles) : \A e, p : \A time \in Int :
    IsTouch(e) /\ p.max_steps \in Nat =>
      LET acc == RanOut(Looks(bars, e, p), p)
      IN /\ acc.verdict # None /\ acc.step \in Nat
         /\ acc.verdict[1] # "skip" /\ e.touch + acc.step * Interval <= time =>
              RanOut(Looks(UpTo(bars, time), e, p), p) = acc
<1>1. SUFFICES ASSUME NEW bars \in Seq(Candles), NEW e, NEW p, NEW time \in Int, IsTouch(e), p.max_steps \in Nat
               PROVE  LET acc == RanOut(Looks(bars, e, p), p)
                      IN /\ acc.verdict # None /\ acc.step \in Nat
                         /\ acc.verdict[1] # "skip" /\ e.touch + acc.step * Interval <= time =>
                              RanOut(Looks(UpTo(bars, time), e, p), p) = acc
  OBVIOUS
<1> DEFINE n == p.max_steps
           L == LooksUpTo(bars, e, p, n)
           C == LooksUpTo(UpTo(bars, time), e, p, n)
<1>2. Looks(bars, e, p) = L /\ Looks(UpTo(bars, time), e, p) = C
  BY LooksIsFold
<1>3. LookFields \subseteq DOMAIN L /\ L.step \in 0..n
  BY <1>1, LooksType
<1>4. L.verdict # None /\ L.verdict[1] # "skip" /\ e.touch + L.step * Interval <= time => C = L
  BY <1>1, CutVerdict
<1>5. e.touch + n * Interval <= time => C = L
  BY <1>1, CutLooks
<1> HIDE DEF L, C
<1>6. CASE L.verdict # None
  <2>1. RanOut(L, p) = L
    BY <1>6 DEF RanOut
  <2>2. L.step \in Nat
    BY <1>1, <1>3
  <2>3. QED
    BY <1>2, <1>4, <1>6, <2>1, <2>2
<1>7. CASE L.verdict = None
  <2>1. RanOut(L, p).verdict = <<"immediate", "Default">> /\ RanOut(L, p).step = n
    BY <1>3, <1>7 DEF RanOut, LookFields
  <2>2. <<"immediate", "Default">> # None
    BY SMTT(30) DEF None
  <2>3. QED
    BY <1>1, <1>2, <1>5, <2>1, <2>2
<1>8. QED
  BY <1>6, <1>7

LEMMA CausalOne ==
  \A bars \in Seq(Candles) : \A e, p :
    IsTouch(e) /\ p.max_steps \in Nat =>
      LET r == TimeOne(bars, e, p)
          again == TimeOne(UpTo(bars, r.entry[1]), e, p)
      IN r.entry # None => again.entry = r.entry /\ again.decision = r.decision /\ again.regime = r.regime
<1>1. SUFFICES ASSUME NEW bars \in Seq(Candles), NEW e, NEW p, IsTouch(e), p.max_steps \in Nat,
                      TimeOne(bars, e, p).entry # None
               PROVE  LET r == TimeOne(bars, e, p)
                          again == TimeOne(UpTo(bars, r.entry[1]), e, p)
                      IN again.entry = r.entry /\ again.decision = r.decision /\ again.regime = r.regime
  OBVIOUS
<1> DEFINE acc == RanOut(Looks(bars, e, p), p)
           from == e.touch + acc.step * Interval
           fill == Fill(bars, e, p, acc.verdict, FirstFrom(bars, from))
           time == fill[1].t
           cut == UpTo(bars, time)
           other == RanOut(Looks(cut, e, p), p)
           r == TimeOne(bars, e, p)
<1>2. acc.verdict # None /\ acc.step \in Nat
  <2>1. 0 \in Int
    OBVIOUS
  <2>2. QED
    BY <1>1, <2>1, CutDecision
<1>3. from \in Int
  BY <1>1, <1>2, ExecutionAssumption DEF IsTouch
<1>4. /\ bars # << >> /\ acc.verdict[1] # "skip" /\ fill # None
      /\ r = Result(e, acc.verdict[1], acc.verdict[2], acc.path, fill, bars)
  BY <1>1 DEF TimeOne, Settle, Result, None
<1>5. r.entry = <<time, fill[1].c>> /\ r.decision = acc.verdict[1] /\ r.regime = acc.verdict[2]
  BY <1>4 DEF Result
<1>6. FirstFrom(bars, from) # None /\ FirstFrom(bars, from)[1].t >= from /\ FirstFrom(bars, from)[1] \in Candles
      /\ fill[1] \in Candles /\ time >= FirstFrom(bars, from)[1].t
  BY <1>3, <1>4, FillIsBar
<1>7. time \in Int /\ from <= time
  BY <1>3, <1>6, SMTT(30) DEF Candles
<1>8. other = acc
  BY <1>1, <1>4, <1>7, CutDecision
<1>9. Fill(cut, e, p, acc.verdict, FirstFrom(cut, from)) = fill
  BY <1>3, <1>4, <1>7, CutFill
<1>10. cut # << >>
  <2>1. SUFFICES ASSUME cut = << >> PROVE FALSE
    OBVIOUS
  <2>2. From(cut, from) = << >>
    BY <2>1, FromIsFold, FromFold!RunEmpty
  <2>3. FirstFrom(cut, from) = None
    BY <2>2 DEF FirstFrom
  <2>4. Fill(cut, e, p, acc.verdict, FirstFrom(cut, from)) = None
    BY <2>3 DEF Fill
  <2>5. QED
    BY <1>4, <1>9, <2>4
<1> DEFINE again == TimeOne(cut, e, p)
<1>11. again = Result(e, acc.verdict[1], acc.verdict[2], acc.path, fill, cut)
  <2>1. again = Settle(cut, e, p, other)
    BY <1>10 DEF TimeOne
  <2> HIDE DEF cut, other, acc, fill
  <2>2. Settle(cut, e, p, acc) = Result(e, acc.verdict[1], acc.verdict[2], acc.path, fill, cut)
    BY <1>4, <1>9, SMTT(30) DEF Settle
  <2>3. QED
    BY <1>8, <2>1, <2>2
<1>12. again.entry = <<time, fill[1].c>> /\ again.decision = acc.verdict[1] /\ again.regime = acc.verdict[2]
  BY <1>4, <1>11 DEF Result
<1>13. r.entry[1] = time
  BY <1>5
<1>14. QED
  BY <1>5, <1>12, <1>13

---------------------------------------------------------------------------
(* A position over its bars: the stop never falls, and once it protects it *)
(* covers the costs                                                        *)

WalkOp(par, acc, bar) == WalkBar(acc, bar)
WalkFold == INSTANCE FoldFacts WITH Op <- WalkOp

Positions(side) ==
  [side : {side}, at : Int, raw : Int, entry : Int, sl : Int, risk : Int, buffer : Int, best : Int,
   protected : BOOLEAN, trailing : BOOLEAN]

Safe(pos) ==
  /\ pos.risk >= 12 /\ pos.sl >= pos.entry - pos.risk
  /\ pos.protected => pos.sl >= pos.entry + 10
  /\ pos.trailing => pos.sl >= pos.entry + 10

Pays(t) ==
  /\ t.realistic \in Int /\ t.risk \in Int /\ t.realistic >= -(t.risk + 8)
  /\ t.reason \in {"BreakevenSL", "TrailingSL"} => t.realistic > 0

LEMMA ExecValues ==
  /\ Exec.initial_stop_atr = 45 /\ Exec.stop_buffer_atr = 5 /\ Exec.stop_cap_atr = 80 /\ Exec.min_stop_bps = 12
  /\ Exec.breakeven_at_r = 8 /\ Exec.cost_lock_bps = 10 /\ Exec.trail_start_r = TrailStart
  /\ Exec.trail_buffer_atr = 5 /\ Exec.slippage = 2 /\ Exec.fees = 6 /\ Exec.notional_share = 26
BY DEF Exec, DEFAULT_EXEC_PARAMS

LEMMA LargerOfTwo == \A a, b \in Int : Max({a, b}) \in Int /\ Max({a, b}) >= a /\ Max({a, b}) >= b
<1>1. SUFFICES ASSUME NEW a \in Int, NEW b \in Int
               PROVE  Max({a, b}) \in Int /\ Max({a, b}) >= a /\ Max({a, b}) >= b
  OBVIOUS
<1>2. \E x \in {a, b} : \A y \in {a, b} : x >= y
  <2>1. CASE a >= b
    BY <2>1
  <2>2. CASE ~(a >= b)
    BY <2>2
  <2>3. QED
    BY <2>1, <2>2
<1>3. Max({a, b}) \in {a, b} /\ \A y \in {a, b} : Max({a, b}) >= y
  BY <1>2, Zenon DEF Max
<1>4. QED
  BY <1>3

LEMMA SmallerOfTwo == \A a, b \in Int : Min({a, b}) \in Int /\ Min({a, b}) <= a /\ Min({a, b}) <= b
<1>1. SUFFICES ASSUME NEW a \in Int, NEW b \in Int
               PROVE  Min({a, b}) \in Int /\ Min({a, b}) <= a /\ Min({a, b}) <= b
  OBVIOUS
<1>2. \E x \in {a, b} : \A y \in {a, b} : x =< y
  <2>1. CASE a <= b
    BY <2>1
  <2>2. CASE ~(a <= b)
    BY <2>2
  <2>3. QED
    BY <2>1, <2>2
<1>3. Min({a, b}) \in {a, b} /\ \A y \in {a, b} : Min({a, b}) =< y
  BY <1>2, Zenon DEF Min
<1>4. QED
  BY <1>3

LEMMA Signed ==
  \A bar \in Candles : \A side :
    /\ Favourable(bar, side) \in Int /\ Adverse(bar, side) \in Int
    /\ Dir(side) * bar.c \in Int /\ Adverse(bar, side) <= Dir(side) * bar.c
<1>1. SUFFICES ASSUME NEW bar \in Candles, NEW side
               PROVE  /\ Favourable(bar, side) \in Int /\ Adverse(bar, side) \in Int
                      /\ Dir(side) * bar.c \in Int /\ Adverse(bar, side) <= Dir(side) * bar.c
  OBVIOUS
<1>2. bar.h \in Int /\ bar.l \in Int /\ bar.c \in Int /\ bar.l <= bar.c /\ bar.c <= bar.h
  BY DEF Candles
<1>3. CASE side = "long"
  BY <1>2, <1>3 DEF Favourable, Adverse, Dir
<1>4. CASE side # "long"
  BY <1>2, <1>4 DEF Favourable, Adverse, Dir
<1>5. QED
  BY <1>3, <1>4

\* A position is opened with its whole risk ahead of it, or not at all.
LEMMA OpenedSafe ==
  \A e : \A at, price \in Int : IsTouch(e) =>
    LET pos == open_position(e, at, price)
    IN pos # None => pos \in Positions(e.side) /\ Safe(pos)
<1>1. SUFFICES ASSUME NEW e, NEW at \in Int, NEW price \in Int, IsTouch(e), open_position(e, at, price) # None
               PROVE  open_position(e, at, price) \in Positions(e.side) /\ Safe(open_position(e, at, price))
  OBVIOUS
<1> DEFINE entry == Dir(e.side) * price + Exec.slippage
           edge == IF e.side = "long" THEN e.low ELSE -e.high
           raw == Min({edge - Atr(Exec.stop_buffer_atr, e), entry - Atr(Exec.initial_stop_atr, e)})
           stop == Max({raw, entry - Atr(Exec.stop_cap_atr, e)})
           risk == entry - stop
           pos == [side |-> e.side, at |-> at, raw |-> Dir(e.side) * price, entry |-> entry, sl |-> stop,
                   risk |-> risk, buffer |-> Atr(Exec.trail_buffer_atr, e), best |-> entry,
                   protected |-> FALSE, trailing |-> FALSE]
<1>2. open_position(e, at, price) = IF risk <= 0 \/ risk < Exec.min_stop_bps THEN None ELSE pos
  BY DEF open_position
<1>3. \A h \in Int : Atr(h, e) \in Int
  BY <1>1 DEF Atr, IsTouch
<1>4. /\ Exec.stop_buffer_atr \in Int /\ Exec.initial_stop_atr \in Int /\ Exec.stop_cap_atr \in Int
      /\ Exec.trail_buffer_atr \in Int /\ Exec.min_stop_bps = 12 /\ Exec.slippage = 2
  BY ExecValues
<1>5. Dir(e.side) * price \in Int
  BY DEF Dir
<1>6. entry \in Int /\ edge \in Int
  BY <1>1, <1>4, <1>5 DEF IsTouch
<1> HIDE DEF entry, edge
<1>7. raw \in Int
  <2>1. edge - Atr(Exec.stop_buffer_atr, e) \in Int /\ entry - Atr(Exec.initial_stop_atr, e) \in Int
    BY <1>3, <1>4, <1>6
  <2>2. QED
    BY <2>1, SmallerOfTwo
<1> HIDE DEF raw
<1>8. stop \in Int
  <2>1. entry - Atr(Exec.stop_cap_atr, e) \in Int
    BY <1>3, <1>4, <1>6
  <2>2. QED
    BY <1>7, <2>1, LargerOfTwo
<1> HIDE DEF stop
<1>9. risk \in Int /\ stop = entry - risk
  BY <1>6, <1>8
<1>10. ~(risk <= 0 \/ risk < 12) /\ open_position(e, at, price) = pos
  BY <1>1, <1>2, <1>4
<1> HIDE DEF risk
<1>11. Atr(Exec.trail_buffer_atr, e) \in Int
  BY <1>3, <1>4
<1>12. pos \in Positions(e.side)
  BY <1>5, <1>6, <1>8, <1>9, <1>11 DEF Positions
<1>13. Safe(pos)
  BY <1>6, <1>8, <1>9, <1>10 DEF Safe
<1>14. QED
  BY <1>10, <1>12, <1>13

\* What a stop that is moved keeps of a position.
SameTrade(pos, old) == pos.entry = old.entry /\ pos.risk = old.risk /\ pos.best = old.best /\ pos.side = old.side

LEMMA ProtectSafe ==
  \A side : \A pos \in Positions(side) : Safe(pos) =>
    /\ Protect(pos) \in Positions(side) /\ Safe(Protect(pos)) /\ SameTrade(Protect(pos), pos)
    /\ 10 * (pos.best - pos.entry) >= 8 * pos.risk => Protect(pos).sl >= pos.entry + 10
<1>1. SUFFICES ASSUME NEW side, NEW pos \in Positions(side), Safe(pos)
               PROVE  /\ Protect(pos) \in Positions(side) /\ Safe(Protect(pos)) /\ SameTrade(Protect(pos), pos)
                      /\ 10 * (pos.best - pos.entry) >= 8 * pos.risk => Protect(pos).sl >= pos.entry + 10
  OBVIOUS
<1> DEFINE gain == 10 * (pos.best - pos.entry) >= 8 * pos.risk
           lock == pos.entry + 10
           moved == [pos EXCEPT !.sl = lock, !.protected = TRUE]
<1>2. Protect(pos) = IF gain /\ lock > pos.sl THEN moved ELSE pos
  BY ExecValues DEF Protect
<1>3. pos.entry \in Int /\ pos.sl \in Int /\ pos.risk \in Int /\ lock \in Int
  BY DEF Positions
<1> HIDE DEF gain
<1>4. CASE gain /\ lock > pos.sl
  <2>1. moved \in Positions(side) /\ SameTrade(moved, pos) /\ moved.sl = lock
    BY <1>3 DEF Positions, SameTrade
  <2>2. moved.protected = TRUE /\ moved.trailing = pos.trailing /\ moved.entry = pos.entry /\ moved.risk = pos.risk
    BY DEF Positions
  <2> HIDE DEF moved
  <2>3. moved.sl >= moved.entry - moved.risk /\ moved.risk >= 12 /\ moved.sl >= moved.entry + 10
    BY <1>1, <1>3, <2>1, <2>2 DEF Safe
  <2>4. QED
    BY <1>2, <1>4, <2>1, <2>2, <2>3 DEF Safe
<1>5. CASE ~(gain /\ lock > pos.sl)
  <2>1. gain => pos.sl >= pos.entry + 10
    BY <1>3, <1>5
  <2>2. QED
    BY <1>1, <1>2, <1>5, <2>1 DEF SameTrade, gain
<1>6. QED
  BY <1>4, <1>5

LEMMA TrailSafe ==
  \A side : \A pos \in Positions(side) :
    Safe(pos) /\ (10 * (pos.best - pos.entry) >= 8 * pos.risk => pos.sl >= pos.entry + 10) =>
      Trail(pos) \in Positions(side) /\ Safe(Trail(pos))
<1>1. SUFFICES ASSUME NEW side, NEW pos \in Positions(side), Safe(pos),
                      10 * (pos.best - pos.entry) >= 8 * pos.risk => pos.sl >= pos.entry + 10
               PROVE  Trail(pos) \in Positions(side) /\ Safe(Trail(pos))
  OBVIOUS
<1> DEFINE far == 10 * (pos.best - pos.entry) >= TrailStart * pos.risk
           moved == [pos EXCEPT !.sl = pos.best - pos.buffer, !.trailing = TRUE]
<1>2. Trail(pos) = IF far /\ pos.best - pos.buffer > pos.sl THEN moved ELSE pos
  BY ExecValues DEF Trail
<1>3. pos.entry \in Int /\ pos.sl \in Int /\ pos.risk \in Int /\ pos.best \in Int /\ pos.buffer \in Int
  BY DEF Positions
<1>4. CASE far /\ pos.best - pos.buffer > pos.sl
  <2>1. TrailStart * pos.risk >= 8 * pos.risk
    <3>1. TrailStart \in Int /\ TrailStart >= 8
      BY ExecutionAssumption, ExecValues
    <3>2. pos.risk >= 0
      BY <1>1, <1>3 DEF Safe
    <3>3. \A a, r \in Int : a >= 8 /\ r >= 0 => a * r >= 8 * r
      OBVIOUS
    <3>4. QED
      BY <1>3, <3>1, <3>2, <3>3
  <2>2. 10 * (pos.best - pos.entry) >= 8 * pos.risk
    <3>1. TrailStart * pos.risk \in Int /\ 10 * (pos.best - pos.entry) \in Int /\ 8 * pos.risk \in Int
      BY <1>3, ExecutionAssumption
    <3>2. QED
      BY <1>4, <2>1, <3>1
  <2>3. pos.sl >= pos.entry + 10
    BY <1>1, <2>2
  <2>4. moved \in Positions(side) /\ moved.sl = pos.best - pos.buffer
    <3> DEFINE stop == pos.best - pos.buffer
    <3>1. stop \in Int
      BY <1>3
    <3> HIDE DEF stop
    <3>2. [pos EXCEPT !.sl = stop, !.trailing = TRUE] \in Positions(side)
          /\ [pos EXCEPT !.sl = stop, !.trailing = TRUE].sl = stop
      BY <3>1 DEF Positions
    <3>3. QED
      BY <3>2 DEF stop
  <2>5. moved.protected = pos.protected /\ moved.entry = pos.entry /\ moved.risk = pos.risk
    BY DEF Positions
  <2> HIDE DEF moved
  <2>6. moved.sl >= moved.entry - moved.risk /\ moved.risk >= 12 /\ moved.sl >= moved.entry + 10
    BY <1>1, <1>3, <1>4, <2>3, <2>4, <2>5 DEF Safe
  <2>7. QED
    BY <1>2, <1>4, <2>4, <2>6 DEF Safe
<1>5. CASE ~(far /\ pos.best - pos.buffer > pos.sl)
  BY <1>1, <1>2, <1>5
<1>6. QED
  BY <1>4, <1>5

LEMMA MovedSafe ==
  \A side : \A pos \in Positions(side), bar \in Candles :
    Safe(pos) => Moved(pos, bar) \in Positions(side) /\ Safe(Moved(pos, bar))
<1>1. SUFFICES ASSUME NEW side, NEW pos \in Positions(side), NEW bar \in Candles, Safe(pos)
               PROVE  Moved(pos, bar) \in Positions(side) /\ Safe(Moved(pos, bar))
  OBVIOUS
<1> DEFINE best == Max({pos.best, Favourable(bar, pos.side)})
           q == [pos EXCEPT !.best = best]
<1>2. best \in Int
  <2>1. pos.best \in Int /\ Favourable(bar, pos.side) \in Int
    BY Signed DEF Positions
  <2>2. QED
    BY <2>1, LargerOfTwo
<1> HIDE DEF best
<1>3. q \in Positions(side)
  BY <1>2 DEF Positions
<1>4. q.risk = pos.risk /\ q.sl = pos.sl /\ q.entry = pos.entry /\ q.protected = pos.protected /\ q.trailing = pos.trailing
  BY DEF Positions
<1>5. Moved(pos, bar) = Trail(Protect(q))
  BY DEF Moved, best
<1> HIDE DEF q
<1>6. Safe(q)
  BY <1>1, <1>4 DEF Safe
<1> DEFINE r == Protect(q)
<1>7. /\ r \in Positions(side) /\ Safe(r) /\ SameTrade(r, q)
      /\ 10 * (q.best - q.entry) >= 8 * q.risk => r.sl >= q.entry + 10
  BY <1>3, <1>6, ProtectSafe
<1> HIDE DEF r
<1>8. 10 * (r.best - r.entry) >= 8 * r.risk => r.sl >= r.entry + 10
  BY <1>7 DEF SameTrade
<1>9. Trail(r) \in Positions(side) /\ Safe(Trail(r))
  BY <1>7, <1>8, TrailSafe
<1>10. QED
  BY <1>5, <1>9 DEF r

\* A trade that is closed, whatever closes it.
LEMMA ExitPays ==
  \A side : \A pos \in Positions(side), raw \in Int : \A time, reason :
    /\ Safe(pos) /\ raw >= pos.sl
    /\ reason \in {"BreakevenSL", "TrailingSL"} => pos.sl >= pos.entry + 10
    => Pays(make_exit(pos, raw, time, reason))
<1>1. SUFFICES ASSUME NEW side, NEW pos \in Positions(side), NEW raw \in Int, NEW time, NEW reason,
                      Safe(pos), raw >= pos.sl,
                      reason \in {"BreakevenSL", "TrailingSL"} => pos.sl >= pos.entry + 10
               PROVE  Pays(make_exit(pos, raw, time, reason))
  OBVIOUS
<1> DEFINE t == make_exit(pos, raw, time, reason)
<1>2. t.realistic = raw - 2 - pos.entry - 6 /\ t.risk = pos.risk /\ t.reason = reason
  BY ExecValues DEF make_exit
<1>3. pos.entry \in Int /\ pos.sl \in Int /\ pos.risk \in Int
  BY DEF Positions
<1> HIDE DEF t
<1>4. t.realistic \in Int /\ t.realistic >= pos.sl - pos.entry - 8
  BY <1>1, <1>2, <1>3
<1>5. t.realistic >= -(t.risk + 8)
  BY <1>1, <1>2, <1>3, <1>4 DEF Safe
<1>6. pos.sl >= pos.entry + 10 => t.realistic > 0
  BY <1>3, <1>4
<1>7. Pays(t)
  BY <1>1, <1>2, <1>3, <1>4, <1>5, <1>6 DEF Pays
<1>8. QED
  BY <1>7 DEF t

\* A position after some of its bars.
WalkInv(side, acc) ==
  acc.pos \in Positions(side) /\ Safe(acc.pos) /\ (acc.exit # None => Pays(acc.exit))

LEMMA StoppedPays ==
  \A side : \A pos \in Positions(side), bar \in Candles :
    Safe(pos) => LET acc == Stopped(pos, bar)
                 IN WalkInv(side, acc) /\ (acc.exit = None => Adverse(bar, side) > acc.pos.sl)
<1>1. SUFFICES ASSUME NEW side, NEW pos \in Positions(side), NEW bar \in Candles, Safe(pos)
               PROVE  /\ WalkInv(side, Stopped(pos, bar))
                      /\ Stopped(pos, bar).exit = None => Adverse(bar, side) > Stopped(pos, bar).pos.sl
  OBVIOUS
<1> DEFINE out == make_exit(pos, pos.sl, bar.t, StopReason(pos))
<1>2. pos.side = side /\ pos.sl \in Int /\ Adverse(bar, side) \in Int
  BY Signed DEF Positions
<1>3. StopReason(pos) \in {"BreakevenSL", "TrailingSL"} => pos.protected \/ pos.trailing
  BY DEF StopReason
<1>4. pos.sl >= pos.sl /\ (StopReason(pos) \in {"BreakevenSL", "TrailingSL"} => pos.sl >= pos.entry + 10)
  BY <1>1, <1>2, <1>3 DEF Safe
<1>5. Pays(out)
  BY <1>1, <1>2, <1>4, ExitPays
<1>6. out # None
  <2>1. "risk" \in DOMAIN out
    BY DEF make_exit
  <2>2. DOMAIN None = {}
    BY DEF None
  <2> HIDE DEF out
  <2>3. QED
    BY <2>1, <2>2
<1> HIDE DEF out
<1>7. Stopped(pos, bar).pos = pos /\ Stopped(pos, bar).exit = IF Adverse(bar, side) <= pos.sl THEN out ELSE None
  BY <1>2 DEF Stopped, out
<1>8. WalkInv(side, Stopped(pos, bar))
  BY <1>1, <1>5, <1>7 DEF WalkInv
<1>9. Stopped(pos, bar).exit = None => Adverse(bar, side) > pos.sl
  BY <1>2, <1>6, <1>7
<1>10. QED
  BY <1>7, <1>8, <1>9

WalkStart(pos) == [pos |-> pos, exit |-> None]
Walked(pos, window) == WalkFold!Fold(0, WalkStart(pos), window)

LEMMA WalkIsFold ==
  \A pos, window : window # << >> => Walk(pos, window) = Close(Walked(pos, window), window)
BY DEF Walk, Walked, WalkStart, FoldLeft, MapThenFoldSet, Max, WalkOp, WalkFold!Fold, WalkFold!Largest

\* Every bar keeps what the stop promises; a position that is still open
\* after a bar was not stopped by it.
LEMMA WalkedSafe ==
  \A side : \A pos \in Positions(side) : Safe(pos) =>
    \A w \in Seq(Candles) :
      /\ WalkInv(side, Walked(pos, w))
      /\ w # << >> /\ Walked(pos, w).exit = None => Adverse(w[Len(w)], side) > Walked(pos, w).pos.sl
<1>1. SUFFICES ASSUME NEW side, NEW pos \in Positions(side), Safe(pos)
               PROVE  \A w \in Seq(Candles) :
                        /\ WalkInv(side, Walked(pos, w))
                        /\ w # << >> /\ Walked(pos, w).exit = None => Adverse(w[Len(w)], side) > Walked(pos, w).pos.sl
  OBVIOUS
<1> DEFINE W(w) == Walked(pos, w)
           T == {w \in Seq(Candles) :
                   /\ WalkInv(side, W(w))
                   /\ w # << >> /\ W(w).exit = None => Adverse(w[Len(w)], side) > W(w).pos.sl}
<1>2. << >> \in T
  <2>1. W(<< >>) = WalkStart(pos)
    BY WalkFold!FoldEmpty DEF Walked
  <2>2. WalkInv(side, WalkStart(pos))
    BY <1>1 DEF WalkInv, WalkStart
  <2>3. QED
    BY <2>1, <2>2, EmptySeq
<1>3. ASSUME NEW w \in Seq(Candles), NEW b \in Candles, w \in T PROVE Append(w, b) \in T
  <2>1. Append(w, b) \in Seq(Candles) /\ Append(w, b) # << >> /\ Append(w, b)[Len(Append(w, b))] = b
    OBVIOUS
  <2>2. W(Append(w, b)) = WalkBar(W(w), b)
    BY WalkFold!FoldAppend DEF Walked, WalkOp
  <2>3. WalkInv(side, W(w))
    BY <1>3
  <2> HIDE DEF W
  <2>4. CASE W(w).exit # None
    <3>1. W(Append(w, b)) = W(w)
      BY <2>2, <2>4 DEF WalkBar
    <3>2. QED
      BY <2>1, <2>3, <2>4, <3>1
  <2>5. CASE W(w).exit = None
    <3> DEFINE next == Moved(W(w).pos, b)
    <3>1. W(Append(w, b)) = Stopped(next, b)
      BY <2>2, <2>5 DEF WalkBar
    <3>2. next \in Positions(side) /\ Safe(next)
      BY <2>3, MovedSafe DEF WalkInv
    <3> HIDE DEF next
    <3>3. WalkInv(side, Stopped(next, b)) /\ (Stopped(next, b).exit = None => Adverse(b, side) > Stopped(next, b).pos.sl)
      BY <3>2, StoppedPays
    <3>4. QED
      BY <2>1, <3>1, <3>3
  <2>6. QED
    BY <2>4, <2>5
<1> HIDE DEF T
<1>4. \A w \in Seq(Candles) : w \in T
  BY <1>2, <1>3, Select!SeqInduction
<1>5. QED
  BY <1>4 DEF T

LEMMA WalkPays ==
  \A e : \A at, price \in Int, w \in Seq(Candles) : IsTouch(e) =>
    LET pos == open_position(e, at, price)
    IN pos # None => Pays(Walk(pos, w))
<1>1. SUFFICES ASSUME NEW e, NEW at \in Int, NEW price \in Int, NEW w \in Seq(Candles), IsTouch(e),
                      open_position(e, at, price) # None
               PROVE  Pays(Walk(open_position(e, at, price), w))
  OBVIOUS
<1> DEFINE pos == open_position(e, at, price)
           side == e.side
<1>2. pos \in Positions(side) /\ Safe(pos)
  BY <1>1, OpenedSafe
<1>3. pos.raw \in Int /\ pos.raw = pos.entry - 2 /\ pos.entry \in Int /\ pos.risk \in Int
  <2>1. pos.raw = Dir(e.side) * price /\ pos.entry = Dir(e.side) * price + 2
    BY <1>1, ExecValues DEF open_position
  <2>2. pos.raw \in Int /\ pos.entry \in Int /\ pos.risk \in Int
    BY <1>2 DEF Positions
  <2> HIDE DEF pos
  <2>3. QED
    BY <2>1, <2>2
<1> HIDE DEF pos, side
<1>4. CASE w = << >>
  <2> DEFINE t == make_exit(pos, pos.raw, pos.at, "NoData")
  <2>1. Walk(pos, w) = t
    BY <1>4 DEF Walk
  <2>2. t.realistic = pos.raw - 2 - pos.entry - 6 /\ t.risk = pos.risk /\ t.reason = "NoData"
    BY ExecValues DEF make_exit
  <2> HIDE DEF t
  <2>3. t.realistic = -10 /\ t.risk \in Int /\ t.risk >= 12
    BY <1>2, <1>3, <2>2 DEF Safe
  <2>4. Pays(t)
    BY <2>2, <2>3 DEF Pays
  <2>5. QED
    BY <2>1, <2>4 DEF pos
<1>5. CASE w # << >>
  <2> DEFINE done == Walked(pos, w)
             last == w[Len(w)]
  <2>1. Walk(pos, w) = Close(done, w)
    BY <1>5, WalkIsFold
  <2>2. WalkInv(side, done) /\ (done.exit = None => Adverse(last, side) > done.pos.sl)
    BY <1>2, <1>5, WalkedSafe
  <2>3. last \in Candles /\ Last(w) = last
    BY <1>5 DEF Last
  <2> HIDE DEF done, last
  <2>4. CASE done.exit # None
    BY <2>1, <2>2, <2>4 DEF Close, WalkInv, pos
  <2>5. CASE done.exit = None
    <3> DEFINE raw == Dir(side) * last.c
    <3>1. done.pos \in Positions(side) /\ Safe(done.pos)
      BY <2>2 DEF WalkInv
    <3>2. done.pos.side = side /\ done.pos.sl \in Int
      BY <3>1 DEF Positions
    <3>3. raw \in Int /\ Adverse(last, side) \in Int /\ Adverse(last, side) <= raw
      BY <2>3, Signed
    <3>4. Close(done, w) = make_exit(done.pos, raw, last.t, "MaxHoldExit")
      BY <2>3, <2>5, <3>2 DEF Close
    <3> HIDE DEF raw
    <3>5. raw >= done.pos.sl
      BY <2>2, <2>5, <3>2, <3>3
    <3>6. "MaxHoldExit" \notin {"BreakevenSL", "TrailingSL"}
      OBVIOUS
    <3>7. Pays(make_exit(done.pos, raw, last.t, "MaxHoldExit"))
      BY <3>1, <3>3, <3>5, <3>6, ExitPays
    <3>8. QED
      BY <2>1, <3>4, <3>7 DEF pos
  <2>6. QED
    BY <2>4, <2>5
<1>6. QED
  BY <1>4, <1>5

\* What is traded pays what a trade may cost, and no more.
LEMMA TradePays ==
  \A bars \in Seq(Candles) : \A e : \A at, price \in Int : IsTouch(e) =>
    LET t == execute_trade(bars, e, at, price) IN t # None => Pays(t)
<1>1. SUFFICES ASSUME NEW bars \in Seq(Candles), NEW e, NEW at \in Int, NEW price \in Int, IsTouch(e),
                      execute_trade(bars, e, at, price) # None
               PROVE  Pays(execute_trade(bars, e, at, price))
  OBVIOUS
<1> DEFINE pos == open_position(e, at, price)
           w == Between(bars, pos.at + 1, pos.at + MaxHold)
<1>2. pos # None /\ execute_trade(bars, e, at, price) = Walk(pos, w)
  BY <1>1 DEF execute_trade, simulate_position
<1>3. w \in Seq(Candles)
  BY BetweenType
<1> HIDE DEF w
<1>4. QED
  BY <1>1, <1>2, <1>3, WalkPays

LEMMA ResultPays ==
  \A bars \in Seq(Candles) : \A e, decision, regime, path, fill :
    /\ IsTouch(e) /\ (fill # None => fill[1] \in Candles)
    => LET t == Result(e, decision, regime, path, fill, bars).trade IN t # None => Pays(t)
<1>1. SUFFICES ASSUME NEW bars \in Seq(Candles), NEW e, NEW decision, NEW regime, NEW path, NEW fill, IsTouch(e),
                      fill # None => fill[1] \in Candles,
                      Result(e, decision, regime, path, fill, bars).trade # None
               PROVE  Pays(Result(e, decision, regime, path, fill, bars).trade)
  OBVIOUS
<1>2. fill # None /\ Result(e, decision, regime, path, fill, bars).trade = execute_trade(bars, e, fill[1].t, fill[1].c)
  BY <1>1 DEF Result
<1>3. fill[1].t \in Int /\ fill[1].c \in Int
  BY <1>1, <1>2 DEF Candles
<1>4. QED
  BY <1>1, <1>2, <1>3, TradePays

LEMMA TimedPays ==
  \A bars \in Seq(Candles) : \A e, p : IsTouch(e) /\ p.max_steps \in Nat =>
    LET t == TimeOne(bars, e, p).trade IN t # None => Pays(t)
<1>1. SUFFICES ASSUME NEW bars \in Seq(Candles), NEW e, NEW p, IsTouch(e), p.max_steps \in Nat,
                      TimeOne(bars, e, p).trade # None
               PROVE  Pays(TimeOne(bars, e, p).trade)
  OBVIOUS
<1> DEFINE acc == RanOut(Looks(bars, e, p), p)
           from == e.touch + acc.step * Interval
           fill == IF acc.verdict[1] = "skip" THEN None ELSE Fill(bars, e, p, acc.verdict, FirstFrom(bars, from))
<1>2. bars # << >> /\ TimeOne(bars, e, p) = Result(e, acc.verdict[1], acc.verdict[2], acc.path, fill, bars)
  BY <1>1 DEF TimeOne, Settle, Result, None
<1>3. acc.step \in Nat
  <2>1. 0 \in Int
    OBVIOUS
  <2>2. QED
    BY <1>1, <2>1, CutDecision
<1>4. from \in Int
  BY <1>1, <1>3, ExecutionAssumption DEF IsTouch
<1> HIDE DEF acc
<1>5. fill # None => fill[1] \in Candles
  BY <1>4, FillIsBar
<1> HIDE DEF fill
<1>6. QED
  BY <1>1, <1>2, <1>5, ResultPays

BaselineOne(bars, e, delay) == Result(e, "baseline", delay, << >>, FirstFrom(bars, e.touch + delay), bars)

LEMMA BaselinePays ==
  \A bars \in Seq(Candles) : \A e : \A delay \in Int : IsTouch(e) =>
    LET t == BaselineOne(bars, e, delay).trade IN t # None => Pays(t)
<1>1. SUFFICES ASSUME NEW bars \in Seq(Candles), NEW e, NEW delay \in Int, IsTouch(e),
                      BaselineOne(bars, e, delay).trade # None
               PROVE  Pays(BaselineOne(bars, e, delay).trade)
  OBVIOUS
<1> DEFINE fill == FirstFrom(bars, e.touch + delay)
<1>2. e.touch + delay \in Int
  BY <1>1 DEF IsTouch
<1>3. fill # None => fill[1] \in Candles
  BY <1>2, FirstIsBar
<1> HIDE DEF fill
<1>4. BaselineOne(bars, e, delay) = Result(e, "baseline", delay, << >>, fill, bars)
  BY DEF BaselineOne, fill
<1>5. QED
  BY <1>1, <1>3, <1>4, ResultPays

---------------------------------------------------------------------------
(* The sum over the silos is a number                                      *)

TradedOp(par, kept, r) == IF r.trade # None THEN Append(kept, r) ELSE kept
TradedFold == INSTANCE FoldFacts WITH Op <- TradedOp

SiloOp(silo, kept, r) == IF Silo(r) = silo THEN Append(kept, r) ELSE kept
SiloFold == INSTANCE FoldFacts WITH Op <- SiloOp

GrowOp(par, balance, r) == Grow(balance, r)
GrowFold == INSTANCE FoldFacts WITH Op <- GrowOp

SiloTrades(trades, silo) == SiloFold!Run(silo, << >>, trades)
SiloGain(trades, silo) == GrowFold!Fold(0, START, SiloTrades(trades, silo)) - START
Silos(trades) == {Silo(trades[i]) : i \in 1..Len(trades)}

LEMMA TradedIsFold == \A results : Traded(results) = TradedFold!Run(0, << >>, results)
BY DEF Traded, Where, TradedOp, TradedFold!Run

LEMMA TradedSelects ==
  \A S : \A q \in Seq(S) : Traded(q) = Sel({b \in S : b.trade # None}, q)
<1>1. SUFFICES ASSUME NEW S
               PROVE  \A q \in Seq(S) : Traded(q) = Sel({b \in S : b.trade # None}, q)
  OBVIOUS
<1> DEFINE K == {b \in S : b.trade # None}
           F == [q \in Seq(S) |-> TradedFold!Run(0, << >>, q)]
<1>2. Keeps(F, K, S)
  <2>1. F[<< >>] = << >>
    BY TradedFold!RunEmpty
  <2>2. \A q \in Seq(S), x \in S : F[Append(q, x)] = IF x \in K THEN Append(F[q], x) ELSE F[q]
    BY TradedFold!RunAppend DEF TradedOp
  <2> HIDE DEF F, K
  <2>3. QED
    BY <2>1, <2>2 DEF Keeps
<1>3. \A q \in Seq(S) : F[q] = TradedFold!Run(0, << >>, q)
  OBVIOUS
<1> HIDE DEF F, K
<1>4. \A q \in Seq(S) : F[q] = Sel(K, q)
  BY <1>2, FilterIsSel
<1>5. QED
  BY <1>3, <1>4, TradedIsFold DEF K

LEMMA SiloSelects ==
  \A S, silo : \A q \in Seq(S) : SiloTrades(q, silo) = Sel({b \in S : Silo(b) = silo}, q)
<1>1. SUFFICES ASSUME NEW S, NEW silo
               PROVE  \A q \in Seq(S) : SiloTrades(q, silo) = Sel({b \in S : Silo(b) = silo}, q)
  OBVIOUS
<1> DEFINE K == {b \in S : Silo(b) = silo}
           F == [q \in Seq(S) |-> SiloFold!Run(silo, << >>, q)]
<1>2. Keeps(F, K, S)
  <2>1. F[<< >>] = << >>
    BY SiloFold!RunEmpty
  <2>2. \A q \in Seq(S), x \in S : F[Append(q, x)] = IF x \in K THEN Append(F[q], x) ELSE F[q]
    BY SiloFold!RunAppend DEF SiloOp
  <2> HIDE DEF F, K
  <2>3. QED
    BY <2>1, <2>2 DEF Keeps
<1>3. \A q \in Seq(S) : F[q] = SiloFold!Run(silo, << >>, q)
  OBVIOUS
<1> HIDE DEF F, K
<1>4. \A q \in Seq(S) : F[q] = Sel(K, q)
  BY <1>2, FilterIsSel
<1>5. QED
  BY <1>3, <1>4 DEF K, SiloTrades

SumOp(trades, sum, silo) == SiloGain(trades, silo) + sum
SumFold == INSTANCE FoldFacts WITH Op <- SumOp

LEMMA SumIsFold == \A trades : SumOfSilos(trades) = SumFold!SetFold(trades, 0, Silos(trades))
BY DEF SumOfSilos, MapThenSumSet, MapThenFoldSet, SiloGain, SiloTrades, Silos, Where, FoldLeft, Max,
       SiloOp, SiloFold!Run, GrowOp, GrowFold!Fold, GrowFold!Largest, SumOp, SumFold!SetFold, SumFold!Some

AreNumbered(S) == \A r \in S : r.trade.realistic \in Int

LEMMA GrownIsInt == \A S : AreNumbered(S) => \A q \in Seq(S) : GrowFold!Fold(0, START, q) \in Int
<1>1. SUFFICES ASSUME NEW S, AreNumbered(S) PROVE \A q \in Seq(S) : GrowFold!Fold(0, START, q) \in Int
  OBVIOUS
<1>2. ASSUME NEW v \in Int, NEW r \in S PROVE GrowOp(0, v, r) \in Int
  <2> DEFINE product == v * Exec.notional_share * r.trade.realistic
  <2>1. product \in Int
    BY <1>1, ExecValues DEF AreNumbered
  <2> HIDE DEF product
  <2>2. v + product \div 1000000 \in Int
    BY <2>1
  <2>3. QED
    BY <2>2 DEF GrowOp, Grow, product
<1>3. START \in Int
  BY DEF START
<1>4. QED
  BY <1>2, <1>3, GrowFold!FoldType

LEMMA GainIsInt == \A S, silo : AreNumbered(S) => \A q \in Seq(S) : SiloGain(q, silo) \in Int
<1>1. SUFFICES ASSUME NEW S, NEW silo, AreNumbered(S), NEW q \in Seq(S) PROVE SiloGain(q, silo) \in Int
  OBVIOUS
<1>2. SiloTrades(q, silo) \in Seq(S)
  <2> DEFINE K == {b \in S : Silo(b) = silo}
  <2>1. SiloTrades(q, silo) = Sel(K, q)
    BY SiloSelects
  <2>2. QED
    BY <2>1, SelType
<1>3. GrowFold!Fold(0, START, SiloTrades(q, silo)) \in Int
  BY <1>1, <1>2, GrownIsInt
<1>4. QED
  BY <1>3 DEF SiloGain, START

LEMMA SilosFinite == \A S : \A q \in Seq(S) : IsFiniteSet(Silos(q))
<1>1. SUFFICES ASSUME NEW S, NEW q \in Seq(S) PROVE IsFiniteSet(Silos(q))
  OBVIOUS
<1> DEFINE n == Len(q)
           f == [i \in 1..n |-> Silo(q[i])]
<1>2. IsFiniteSet(1..n)
  BY FS_Interval
<1>3. f \in Surjection(1..n, Silos(q))
  BY DEF Surjection, Silos
<1>4. QED
  BY <1>2, <1>3, FS_Surjection

LEMMA SumIsInt == \A S : AreNumbered(S) => \A q \in Seq(S) : SumOfSilos(q) \in Int
<1>1. SUFFICES ASSUME NEW S, AreNumbered(S), NEW q \in Seq(S) PROVE SumOfSilos(q) \in Int
  OBVIOUS
<1>2. IsFiniteSet(Silos(q)) /\ 0 \in Int
  BY SilosFinite
<1>3. \A v \in Int, silo \in Silos(q) : SumOp(q, v, silo) \in Int
  BY <1>1, GainIsInt DEF SumOp
<1> DEFINE D == Silos(q)
<1> HIDE DEF D
<1>4. IsFiniteSet(D) /\ \A v \in Int, silo \in D : SumOp(q, v, silo) \in Int
  BY <1>2, <1>3 DEF D
<1>5. SumFold!IsFiniteSet(D)
  BY <1>4, Zenon DEF IsFiniteSet, SumFold!IsFiniteSet
<1>6. SumFold!SetFold(q, 0, D) \in Int
  BY <1>2, <1>4, <1>5, SumFold!SetFoldType
<1>7. QED
  BY <1>6, SumIsFold DEF D

---------------------------------------------------------------------------
(* The combinations of the lists                                           *)

WidenOp(list, all, p) == all \o With(list, p)
WidenFold == INSTANCE FoldFacts WITH Op <- WidenOp

ComboOp(par, acc, list) == Widen(acc, list)
ComboFold == INSTANCE FoldFacts WITH Op <- ComboOp

Has(q, x) == \E i \in 1..Len(q) : q[i] = x
Moves(p, list, j) == [p EXCEPT ![list[1]] = list[2][j]]

\* A list that leads from combinations of a set to combinations of the set.
Within(list, P) ==
  Len(list[2]) \in Nat /\ Len(list[2]) > 0 /\ \A p \in P : \A j \in 1..Len(list[2]) : Moves(p, list, j) \in P

LEMMA WidenIsFold == \A acc, list : Widen(acc, list) = WidenFold!Fold(list, << >>, acc)
BY DEF Widen, FoldLeft, MapThenFoldSet, Max, WidenOp, WidenFold!Fold, WidenFold!Largest

LEMMA CombosIsFold == \A lists, base : Combos(lists, base) = ComboFold!Fold(0, <<base>>, lists)
BY DEF Combos, FoldLeft, MapThenFoldSet, Max, ComboOp, ComboFold!Fold, ComboFold!Largest

LEMMA CombosGrow ==
  \A L, base : \A q \in Seq(L), list \in L : Combos(Append(q, list), base) = Widen(Combos(q, base), list)
<1>1. SUFFICES ASSUME NEW L, NEW base, NEW q \in Seq(L), NEW list \in L
               PROVE  Combos(Append(q, list), base) = Widen(Combos(q, base), list)
  OBVIOUS
<1> DEFINE start == <<base>>
<1>2. Combos(Append(q, list), base) = ComboFold!Fold(0, start, Append(q, list)) /\ Combos(q, base) = ComboFold!Fold(0, start, q)
  BY CombosIsFold
<1> HIDE DEF start
<1>3. ComboFold!Fold(0, start, Append(q, list)) = ComboOp(0, ComboFold!Fold(0, start, q), list)
  BY ComboFold!FoldAppend
<1>4. QED
  BY <1>2, <1>3 DEF ComboOp

LEMMA WithType ==
  \A P, list : \A p \in P : Within(list, P) =>
    /\ With(list, p) \in Seq(P) /\ Len(With(list, p)) = Len(list[2])
    /\ \A j \in 1..Len(list[2]) : With(list, p)[j] = Moves(p, list, j)
<1>1. SUFFICES ASSUME NEW P, NEW list, NEW p \in P, Within(list, P)
               PROVE  /\ With(list, p) \in Seq(P) /\ Len(With(list, p)) = Len(list[2])
                      /\ \A j \in 1..Len(list[2]) : With(list, p)[j] = Moves(p, list, j)
  OBVIOUS
<1> DEFINE n == Len(list[2])
           M(j) == Moves(p, list, j)
<1>2. With(list, p) = [j \in 1..n |-> M(j)]
  BY DEF With, Moves
<1>3. n \in Nat /\ \A j \in 1..n : M(j) \in P
  BY <1>1 DEF Within
<1> HIDE DEF n, M
<1>4. [j \in 1..n |-> M(j)] \in Seq(P) /\ Len([j \in 1..n |-> M(j)]) = n
  BY <1>3
<1>5. QED
  BY <1>2, <1>4 DEF n, M

\* Every combination is widened by every value.
LEMMA WidenType ==
  \A P, list : Within(list, P) =>
    \A q \in Seq(P) :
      /\ Widen(q, list) \in Seq(P)
      /\ \A i \in 1..Len(q), j \in 1..Len(list[2]) : Has(Widen(q, list), Moves(q[i], list, j))
<1>1. SUFFICES ASSUME NEW P, NEW list, Within(list, P)
               PROVE  \A q \in Seq(P) :
                        /\ Widen(q, list) \in Seq(P)
                        /\ \A i \in 1..Len(q), j \in 1..Len(list[2]) : Has(Widen(q, list), Moves(q[i], list, j))
  OBVIOUS
<1> DEFINE W(q) == Widen(q, list)
           n == Len(list[2])
           T == {q \in Seq(P) : W(q) \in Seq(P) /\ \A i \in 1..Len(q), j \in 1..n : Has(W(q), Moves(q[i], list, j))}
<1>2. << >> \in T
  <2>1. W(<< >>) = << >>
    BY WidenIsFold, WidenFold!FoldEmpty
  <2>2. << >> \in Seq(P) /\ 1..Len(<< >>) = {}
    OBVIOUS
  <2> HIDE DEF W, n
  <2>3. QED
    BY <2>1, <2>2
<1>3. ASSUME NEW q \in Seq(P), NEW p \in P, q \in T PROVE Append(q, p) \in T
  <2> DEFINE a == W(q)
             b == With(list, p)
  <2>1. W(Append(q, p)) = a \o b
    BY WidenIsFold, WidenFold!FoldAppend DEF WidenOp
  <2>2. b \in Seq(P) /\ Len(b) = n /\ \A j \in 1..n : b[j] = Moves(p, list, j)
    BY <1>1, WithType
  <2>3. a \in Seq(P) /\ \A i \in 1..Len(q), j \in 1..n : Has(a, Moves(q[i], list, j))
    BY <1>3
  <2> HIDE DEF W, a, b, n
  <2>4. a \o b \in Seq(P) /\ Append(q, p) \in Seq(P)
    BY <2>2, <2>3
  <2>5. ASSUME NEW i \in 1..Len(Append(q, p)), NEW j \in 1..n PROVE Has(a \o b, Moves(Append(q, p)[i], list, j))
    <3>1. CASE i = Len(q) + 1
      <4>1. Append(q, p)[i] = p
        BY <3>1
      <4>2. Len(a) + j \in 1..Len(a \o b) /\ (a \o b)[Len(a) + j] = b[j]
        BY <2>2, <2>3
      <4>3. QED
        BY <2>2, <4>1, <4>2 DEF Has
    <3>2. CASE i # Len(q) + 1
      <4>1. i \in 1..Len(q) /\ Append(q, p)[i] = q[i]
        BY <3>2
      <4>2. PICK k \in 1..Len(a) : a[k] = Moves(q[i], list, j)
        BY <2>3, <4>1 DEF Has
      <4>3. k \in 1..Len(a \o b) /\ (a \o b)[k] = a[k]
        BY <2>2, <2>3
      <4>4. QED
        BY <4>1, <4>2, <4>3 DEF Has
    <3>3. QED
      BY <3>1, <3>2
  <2>6. QED
    BY <2>1, <2>4, <2>5
<1> HIDE DEF T
<1>4. \A q \in Seq(P) : q \in T
  BY <1>2, <1>3, Select!SeqInduction
<1>5. QED
  BY <1>4 DEF T

\* There is a combination; and the one the lists start from is among them
\* when each list holds its value.
LEMMA CombosType ==
  \A P, L, base : base \in P /\ (\A list \in L : Within(list, P)) =>
    \A lists \in Seq(L) : Combos(lists, base) \in Seq(P) /\ Combos(lists, base) # << >>
<1>1. SUFFICES ASSUME NEW P, NEW L, NEW base \in P, \A list \in L : Within(list, P)
               PROVE  \A lists \in Seq(L) : Combos(lists, base) \in Seq(P) /\ Combos(lists, base) # << >>
  OBVIOUS
<1> DEFINE C(lists) == Combos(lists, base)
           T == {lists \in Seq(L) : C(lists) \in Seq(P) /\ C(lists) # << >>}
<1>2. << >> \in T
  <2>1. C(<< >>) = <<base>>
    BY CombosIsFold, ComboFold!FoldEmpty
  <2>2. <<base>> \in Seq(P) /\ <<base>> # << >> /\ << >> \in Seq(L)
    OBVIOUS
  <2> HIDE DEF C
  <2>3. QED
    BY <2>1, <2>2
<1>3. ASSUME NEW q \in Seq(L), NEW list \in L, q \in T PROVE Append(q, list) \in T
  <2>1. C(Append(q, list)) = Widen(C(q), list)
    BY CombosGrow
  <2>2. C(q) \in Seq(P) /\ C(q) # << >> /\ Append(q, list) \in Seq(L)
    BY <1>3
  <2> HIDE DEF C
  <2>3. 1 \in 1..Len(C(q))
    BY <2>2
  <2>4. Within(list, P) /\ 1 \in 1..Len(list[2])
    BY <1>1 DEF Within
  <2>5. Widen(C(q), list) \in Seq(P) /\ Has(Widen(C(q), list), Moves(C(q)[1], list, 1))
    BY <2>2, <2>3, <2>4, WidenType
  <2>6. Widen(C(q), list) # << >>
    <3> DEFINE w == Widen(C(q), list)
    <3>1. PICK k \in 1..Len(w) : TRUE
      BY <2>5 DEF Has
    <3> HIDE DEF w
    <3>2. w # << >>
      BY <3>1
    <3>3. QED
      BY <3>2 DEF w
  <2>7. QED
    BY <2>1, <2>2, <2>5, <2>6
<1> HIDE DEF T
<1>4. \A q \in Seq(L) : q \in T
  BY <1>2, <1>3, Select!SeqInduction
<1>5. QED
  BY <1>4 DEF T

LEMMA CombosKeep ==
  \A P, L, base :
    /\ base \in P /\ \A list \in L : Within(list, P)
    /\ \A list \in L : \E j \in 1..Len(list[2]) : Moves(base, list, j) = base
    => \A lists \in Seq(L) : Has(Combos(lists, base), base)
<1>1. SUFFICES ASSUME NEW P, NEW L, NEW base \in P, \A list \in L : Within(list, P),
                      \A list \in L : \E j \in 1..Len(list[2]) : Moves(base, list, j) = base
               PROVE  \A lists \in Seq(L) : Has(Combos(lists, base), base)
  OBVIOUS
<1> DEFINE C(lists) == Combos(lists, base)
           T == {lists \in Seq(L) : Has(C(lists), base)}
<1>2. << >> \in T
  <2>1. C(<< >>) = <<base>>
    BY CombosIsFold, ComboFold!FoldEmpty
  <2>2. Len(<<base>>) = 1 /\ <<base>>[1] = base /\ 1 \in 1..1
    OBVIOUS
  <2>3. << >> \in Seq(L)
    OBVIOUS
  <2> HIDE DEF C
  <2>4. Has(C(<< >>), base)
    BY <2>1, <2>2 DEF Has
  <2>5. QED
    BY <2>3, <2>4
<1>3. ASSUME NEW q \in Seq(L), NEW list \in L, q \in T PROVE Append(q, list) \in T
  <2>1. C(Append(q, list)) = Widen(C(q), list)
    BY CombosGrow
  <2>2. C(q) \in Seq(P)
    BY <1>1, CombosType
  <2>3. Append(q, list) \in Seq(L) /\ Has(C(q), base)
    BY <1>3
  <2> HIDE DEF C
  <2>4. PICK i \in 1..Len(C(q)) : C(q)[i] = base
    BY <2>3 DEF Has
  <2>5. PICK j \in 1..Len(list[2]) : Moves(base, list, j) = base
    BY <1>1
  <2>6. Has(Widen(C(q), list), Moves(C(q)[i], list, j))
    BY <1>1, <2>2, WidenType
  <2>7. QED
    BY <2>1, <2>3, <2>4, <2>5, <2>6
<1> HIDE DEF T
<1>4. \A q \in Seq(L) : q \in T
  BY <1>2, <1>3, Select!SeqInduction
<1>5. QED
  BY <1>4 DEF T

---------------------------------------------------------------------------
(* What the study loads: events of its input, each of them with its bars   *)

LedgerOp(par, kept, r) == IF r.type # "EXIT" /\ r.reason = "Zero-Initial-Reentry" THEN Append(kept, r) ELSE kept
LedgerFold == INSTANCE FoldFacts WITH Op <- LedgerOp

FoundOp(par, kept, i) == IF i # 0 THEN Append(kept, i) ELSE kept
FoundFold == INSTANCE FoldFacts WITH Op <- FoundOp

KeepOp(events, acc, i) ==
  IF \E k \in 1..Len(acc) : acc[k].id = events[i].id THEN acc ELSE Append(acc, events[i])
KeepFold == INSTANCE FoldFacts WITH Op <- KeepOp

InsertOp(par, sorted, e) == Insert(sorted, e)
InsertFold == INSTANCE FoldFacts WITH Op <- InsertOp

Entries(ledger) == LedgerFold!Run(0, << >>, ledger)
Places(entries, events) == [i \in 1..Len(entries) |-> Nearest(entries[i], events)]
Found(q) == FoundFold!Run(0, << >>, q)

LEMMA LedgerSelects ==
  \A S : \A q \in Seq(S) : Entries(q) = Sel({b \in S : b.type # "EXIT" /\ b.reason = "Zero-Initial-Reentry"}, q)
<1>1. SUFFICES ASSUME NEW S
               PROVE  \A q \in Seq(S) : Entries(q) = Sel({b \in S : b.type # "EXIT" /\ b.reason = "Zero-Initial-Reentry"}, q)
  OBVIOUS
<1> DEFINE K == {b \in S : b.type # "EXIT" /\ b.reason = "Zero-Initial-Reentry"}
           F == [q \in Seq(S) |-> LedgerFold!Run(0, << >>, q)]
<1>2. Keeps(F, K, S)
  <2>1. F[<< >>] = << >>
    BY LedgerFold!RunEmpty
  <2>2. \A q \in Seq(S), x \in S : F[Append(q, x)] = IF x \in K THEN Append(F[q], x) ELSE F[q]
    BY LedgerFold!RunAppend DEF LedgerOp
  <2> HIDE DEF F, K
  <2>3. QED
    BY <2>1, <2>2 DEF Keeps
<1>3. \A q \in Seq(S) : F[q] = LedgerFold!Run(0, << >>, q)
  OBVIOUS
<1> HIDE DEF F, K
<1>4. \A q \in Seq(S) : F[q] = Sel(K, q)
  BY <1>2, FilterIsSel
<1>5. QED
  BY <1>3, <1>4 DEF K, Entries

LEMMA FoundSelects ==
  \A S : \A q \in Seq(S) : Found(q) = Sel({b \in S : b # 0}, q)
<1>1. SUFFICES ASSUME NEW S
               PROVE  \A q \in Seq(S) : Found(q) = Sel({b \in S : b # 0}, q)
  OBVIOUS
<1> DEFINE K == {b \in S : b # 0}
           F == [q \in Seq(S) |-> FoundFold!Run(0, << >>, q)]
<1>2. Keeps(F, K, S)
  <2>1. F[<< >>] = << >>
    BY FoundFold!RunEmpty
  <2>2. \A q \in Seq(S), x \in S : F[Append(q, x)] = IF x \in K THEN Append(F[q], x) ELSE F[q]
    BY FoundFold!RunAppend DEF FoundOp
  <2> HIDE DEF F, K
  <2>3. QED
    BY <2>1, <2>2 DEF Keeps
<1>3. \A q \in Seq(S) : F[q] = FoundFold!Run(0, << >>, q)
  OBVIOUS
<1> HIDE DEF F, K
<1>4. \A q \in Seq(S) : F[q] = Sel(K, q)
  BY <1>2, FilterIsSel
<1>5. QED
  BY <1>3, <1>4 DEF K, Found

LEMMA MatchIsFold ==
  \A entries, events : match_events(entries, events) = KeepFold!Fold(events, << >>, Found(Places(entries, events)))
BY DEF match_events, Found, Places, Where, FoldLeft, MapThenFoldSet, Max, FoundOp, FoundFold!Run,
       KeepOp, KeepFold!Fold, KeepFold!Largest

LEMMA LoadIsFold ==
  \A ledger, events : load_v6_gate_events(ledger, events) = match_events(Entries(ledger), events)
BY DEF load_v6_gate_events, Entries, Where, LedgerOp, LedgerFold!Run

LEMMA ByTouchIsFold == \A events : ByTouch(events) = InsertFold!Fold(0, << >>, events)
BY DEF ByTouch, FoldLeft, MapThenFoldSet, Max, InsertOp, InsertFold!Fold, InsertFold!Largest

\* A set of numbers that are not negative has a least one.
LEMMA LeastExists == \A U : U \subseteq Nat /\ U # {} => \E x \in U : \A y \in U : x <= y
<1>1. SUFFICES ASSUME NEW U, U \subseteq Nat, U # {} PROVE \E x \in U : \A y \in U : x <= y
  OBVIOUS
<1>2. PICK x \in U : \A y \in U : ~ (<<y, x>> \in OpToRel(<, Nat))
  BY <1>1, WFMin, NatLessThanWellFounded
<1>3. \A y \in U : ~(y < x)
  BY <1>1, <1>2 DEF OpToRel
<1>4. \A y \in U : x <= y
  BY <1>1, <1>3
<1>5. QED
  BY <1>4

\* The nearest event is one of the events, or there is none.
LEMMA NearestIsPlace ==
  \A S, entry : \A events \in Seq(S) :
    entry.time \in Int /\ (\A e \in S : e.touch \in Int) => Nearest(entry, events) \in 0..Len(events)
<1>1. SUFFICES ASSUME NEW S, NEW entry, NEW events \in Seq(S), entry.time \in Int, \A e \in S : e.touch \in Int
               PROVE  Nearest(entry, events) \in 0..Len(events)
  OBVIOUS
<1> DEFINE n == Len(events)
           D(i) == Span(events[i].touch, entry.time)
           near == {i \in 1..n : /\ events[i].symbol = entry.symbol /\ events[i].side = entry.side
                                 /\ Span(events[i].touch, entry.time) <= MatchWindow}
           best == {i \in near : \A j \in near : D(i) <= D(j)}
<1>2. Nearest(entry, events) = IF near = {} THEN 0 ELSE Min(best)
  BY DEF Nearest
<1>3. n \in Nat /\ \A i \in 1..n : D(i) \in Nat
  BY <1>1 DEF Span
<1>4. near \subseteq 1..n
  OBVIOUS
<1> HIDE DEF near, n, D
<1>5. CASE near = {}
  BY <1>2, <1>3, <1>5 DEF n
<1>6. CASE near # {}
  <2> DEFINE U == {D(i) : i \in near}
  <2>1. U \subseteq Nat /\ U # {}
    BY <1>3, <1>4, <1>6
  <2>2. PICK x \in U : \A y \in U : x <= y
    BY <2>1, LeastExists
  <2>3. best # {} /\ best \subseteq 1..n
    <3>1. PICK i \in near : x = D(i)
      BY <2>2
    <3>2. \A j \in near : D(i) <= D(j)
      BY <2>2, <3>1
    <3>3. QED
      BY <1>4, <3>1, <3>2
  <2> HIDE DEF best
  <2>4. PICK least \in best : \A y \in best : least <= y
    <3>1. best \subseteq Nat
      BY <1>3, <2>3
    <3>2. QED
      BY <2>3, <3>1, LeastExists
  <2>5. Min(best) \in best
    <3>1. \E z \in best : \A y \in best : z =< y
      BY <2>4
    <3>2. QED
      BY <3>1, Zenon DEF Min
  <2>6. Min(best) \in 1..n
    BY <2>3, <2>5
  <2>7. QED
    BY <1>2, <1>3, <1>6, <2>6 DEF n
<1>7. QED
  BY <1>5, <1>6

\* The names of the events of a sequence.
Names(q) == {q[i].id : i \in 1..Len(q)}

LEMMA NamesAppend ==
  \A S : \A q \in Seq(S), x \in S :
    /\ Names(Append(q, x)) = Names(q) \cup {x.id}
    /\ Unique(Append(q, x)) <=> Unique(q) /\ x.id \notin Names(q)
<1>1. SUFFICES ASSUME NEW S, NEW q \in Seq(S), NEW x \in S
               PROVE  /\ Names(Append(q, x)) = Names(q) \cup {x.id}
                      /\ Unique(Append(q, x)) <=> Unique(q) /\ x.id \notin Names(q)
  OBVIOUS
<1> DEFINE r == Append(q, x)
           n == Len(q)
<1>2. n \in Nat /\ Len(r) = n + 1 /\ r[n + 1] = x /\ \A i \in 1..n : r[i] = q[i]
  OBVIOUS
<1> HIDE DEF r, n
<1>3. 1..(n + 1) = (1..n) \cup {n + 1} /\ n + 1 \notin 1..n
  BY <1>2
<1>4. Names(r) = {r[i].id : i \in 1..n} \cup {x.id}
  BY <1>2, <1>3 DEF Names
<1>5. {r[i].id : i \in 1..n} = Names(q)
  BY <1>2 DEF Names, n
<1>6. ASSUME Unique(r) PROVE Unique(q) /\ x.id \notin Names(q)
  <2>1. \A i, j \in 1..(n + 1) : r[i].id = r[j].id => i = j
    BY <1>2, <1>6 DEF Unique
  <2>2. \A i, j \in 1..n : q[i].id = q[j].id => i = j
    BY <1>2, <1>3, <2>1
  <2>3. \A i \in 1..n : q[i].id # x.id
    BY <1>2, <1>3, <2>1
  <2>4. QED
    BY <2>2, <2>3 DEF Unique, Names, n
<1>7. ASSUME Unique(q), x.id \notin Names(q) PROVE Unique(r)
  <2>1. \A i, j \in 1..n : q[i].id = q[j].id => i = j
    BY <1>7 DEF Unique, n
  <2>2. \A i \in 1..n : q[i].id # x.id
    BY <1>7 DEF Names, n
  <2>3. \A i, j \in 1..(n + 1) : r[i].id = r[j].id => i = j
    BY <1>2, <1>3, <2>1, <2>2
  <2>4. QED
    BY <1>2, <2>3 DEF Unique
<1>8. QED
  BY <1>4, <1>5, <1>6, <1>7 DEF r

LEMMA UniqueEmpty == Unique(<< >>) /\ Names(<< >>) = {}
BY DEF Unique, Names

LEMMA MatchType ==
  \A R, S : \A entries \in Seq(R), events \in Seq(S) :
    (\A r \in R : r.time \in Int) /\ (\A e \in S : e.touch \in Int) =>
      match_events(entries, events) \in Seq(S) /\ Unique(match_events(entries, events))
<1>1. SUFFICES ASSUME NEW R, NEW S, NEW entries \in Seq(R), NEW events \in Seq(S),
                      \A r \in R : r.time \in Int, \A e \in S : e.touch \in Int
               PROVE  match_events(entries, events) \in Seq(S) /\ Unique(match_events(entries, events))
  OBVIOUS
<1> DEFINE n == Len(events)
           places == Places(entries, events)
           I == {i \in 0..n : i # 0}
<1>2. places \in Seq(0..n)
  <2>1. Len(entries) \in Nat /\ \A i \in 1..Len(entries) : entries[i] \in R
    OBVIOUS
  <2>2. \A i \in 1..Len(entries) : Nearest(entries[i], events) \in 0..n
    BY <1>1, <2>1, NearestIsPlace
  <2> HIDE DEF n
  <2>3. [i \in 1..Len(entries) |-> Nearest(entries[i], events)] \in Seq(0..n)
    BY <2>1, <2>2
  <2>4. QED
    BY <2>3 DEF Places
<1> HIDE DEF places
<1>3. Found(places) = Sel(I, places)
  BY <1>2, FoundSelects
<1>4. Found(places) \in Seq(0..n \cap I)
  BY <1>2, <1>3, SelType
<1>5. \A i \in (0..n) \cap I : events[i] \in S
  OBVIOUS
<1> HIDE DEF n, I
<1> DEFINE J == (0..n) \cap I
           F(q) == KeepFold!Fold(events, << >>, q)
           T == {q \in Seq(J) : F(q) \in Seq(S) /\ Unique(F(q))}
<1>6. << >> \in T
  <2>1. F(<< >>) = << >>
    BY KeepFold!FoldEmpty
  <2> HIDE DEF F
  <2>2. QED
    BY <2>1, EmptySeq, UniqueEmpty
<1>7. ASSUME NEW q \in Seq(J), NEW i \in J, q \in T PROVE Append(q, i) \in T
  <2>1. F(Append(q, i)) = KeepOp(events, F(q), i)
    BY KeepFold!FoldAppend
  <2>2. F(q) \in Seq(S) /\ Unique(F(q)) /\ events[i] \in S /\ Append(q, i) \in Seq(J)
    BY <1>5, <1>7
  <2> HIDE DEF F
  <2>3. KeepOp(events, F(q), i) = IF events[i].id \in Names(F(q)) THEN F(q) ELSE Append(F(q), events[i])
    BY DEF KeepOp, Names
  <2>4. KeepOp(events, F(q), i) \in Seq(S) /\ Unique(KeepOp(events, F(q), i))
    <3>1. Append(F(q), events[i]) \in Seq(S)
      BY <2>2, AppendProperties
    <3>2. events[i].id \notin Names(F(q)) => Unique(Append(F(q), events[i]))
      BY <2>2, NamesAppend
    <3>3. QED
      BY <2>2, <2>3, <3>1, <3>2
  <2>5. QED
    BY <2>1, <2>2, <2>4
<1> HIDE DEF T
<1>8. \A q \in Seq(J) : q \in T
  BY <1>6, <1>7, Select!SeqInduction
<1>9. F(Found(places)) \in Seq(S) /\ Unique(F(Found(places)))
  BY <1>4, <1>8 DEF T
<1>10. QED
  BY <1>9, MatchIsFold DEF places

LEMMA LoadType ==
  \A R, S : \A ledger \in Seq(R), events \in Seq(S) :
    (\A r \in R : r.time \in Int) /\ (\A e \in S : e.touch \in Int) =>
      load_v6_gate_events(ledger, events) \in Seq(S) /\ Unique(load_v6_gate_events(ledger, events))
<1>1. SUFFICES ASSUME NEW R, NEW S, NEW ledger \in Seq(R), NEW events \in Seq(S),
                      \A r \in R : r.time \in Int, \A e \in S : e.touch \in Int
               PROVE  load_v6_gate_events(ledger, events) \in Seq(S) /\ Unique(load_v6_gate_events(ledger, events))
  OBVIOUS
<1> DEFINE K == {b \in R : b.type # "EXIT" /\ b.reason = "Zero-Initial-Reentry"}
<1>2. Entries(ledger) = Sel(K, ledger)
  BY LedgerSelects
<1>3. Entries(ledger) \in Seq(R)
  BY <1>2, SelType
<1>4. match_events(Entries(ledger), events) \in Seq(S) /\ Unique(match_events(Entries(ledger), events))
  BY <1>1, <1>3, MatchType
<1>5. QED
  BY <1>4, LoadIsFold

\* An event is put into its place among the others.
IsPlaced(q, e, r) ==
  \E k \in 0..Len(q) :
    \A i \in 1..(Len(q) + 1) : r[i] = IF i <= k THEN q[i] ELSE IF i = k + 1 THEN e ELSE q[i - 1]

LEMMA InsertType ==
  \A S : \A q \in Seq(S), e \in S :
    Insert(q, e) \in Seq(S) /\ Len(Insert(q, e)) = Len(q) + 1 /\ IsPlaced(q, e, Insert(q, e))
<1>1. SUFFICES ASSUME NEW S, NEW q \in Seq(S), NEW e \in S
               PROVE  Insert(q, e) \in Seq(S) /\ Len(Insert(q, e)) = Len(q) + 1 /\ IsPlaced(q, e, Insert(q, e))
  OBVIOUS
<1> DEFINE n == Len(q)
           D == {i \in 1..n : q[i].touch <= e.touch}
           k == Cardinality(D)
<1>2. k \in 0..n
  <2>1. IsFiniteSet(1..n) /\ Cardinality(1..n) = n /\ n \in Nat
    <3>1. n \in Nat /\ 1 \in Int
      OBVIOUS
    <3> HIDE DEF n
    <3>2. IsFiniteSet(1..n) /\ Cardinality(1..n) = IF 1 > n THEN 0 ELSE n - 1 + 1
      BY <3>1, FS_Interval
    <3>3. QED
      BY <3>1, <3>2
  <2>2. D \in SUBSET (1..n)
    OBVIOUS
  <2> HIDE DEF D, n
  <2>3. IsFiniteSet(D) /\ k <= n
    BY <2>1, <2>2, FS_Subset
  <2>4. k \in Nat
    BY <2>3, FS_CardinalityType
  <2>5. QED
    BY <2>1, <2>3, <2>4
<1>3. Insert(q, e) = SubSeq(q, 1, (1 + k) - 1) \o <<e>> \o SubSeq(q, 1 + k, n)
  BY DEF Insert, InsertAt
<1> HIDE DEF k
<1> DEFINE a == SubSeq(q, 1, (1 + k) - 1)
           b == SubSeq(q, 1 + k, n)
<1>4. a \in Seq(S) /\ Len(a) = k /\ b \in Seq(S) /\ Len(b) = n - k
  BY <1>2
<1>10. (\A i \in 1..k : a[i] = q[i]) /\ \A i \in 1..(n - k) : b[i] = q[i + k]
  BY <1>2, SMTT(30)
<1>5. <<e>> \in Seq(S) /\ Len(<<e>>) = 1
  OBVIOUS
<1> HIDE DEF a, b
<1>6. a \o <<e>> \in Seq(S) /\ Len(a \o <<e>>) = k + 1
  BY <1>2, <1>4, <1>5
<1>7. (a \o <<e>>) \o b \in Seq(S) /\ Len((a \o <<e>>) \o b) = k + 1 + (n - k)
  BY <1>2, <1>4, <1>6
<1>8. k + 1 + (n - k) = n + 1
  BY <1>2
<1> DEFINE c == a \o <<e>>
           r == c \o b
<1>11. (\A i \in 1..k : c[i] = q[i]) /\ c[k + 1] = e
  BY <1>2, <1>4, <1>5, <1>10
<1> HIDE DEF c
<1>12. ASSUME NEW i \in 1..(n + 1) PROVE r[i] = IF i <= k THEN q[i] ELSE IF i = k + 1 THEN e ELSE q[i - 1]
  <2>1. c \in Seq(S) /\ Len(c) = k + 1 /\ b \in Seq(S) /\ Len(b) = n - k /\ n \in Nat
    BY <1>4, <1>6 DEF c
  <2>2. CASE i <= k + 1
    <3>1. r[i] = c[i]
      BY <1>2, <2>1, <2>2
    <3>2. QED
      BY <1>2, <1>11, <2>2, <3>1
  <2>3. CASE i > k + 1
    <3>1. i - (k + 1) \in 1..(n - k) /\ (i - (k + 1)) + k = i - 1
      BY <1>2, <2>1, <2>3
    <3>2. r[i] = b[i - (k + 1)]
      BY <1>2, <2>1, <2>3, <3>1
    <3>3. QED
      BY <1>2, <1>10, <2>3, <3>1, <3>2
  <2>4. i <= k + 1 \/ i > k + 1
    BY <1>2, <2>1
  <2>5. QED
    BY <2>2, <2>3, <2>4
<1>9. QED
  <2>1. Insert(q, e) = r
    BY <1>3 DEF a, b, c
  <2>2. r \in Seq(S) /\ Len(r) = n + 1
    BY <1>7, <1>8 DEF c
  <2>3. IsPlaced(q, e, r)
    BY <1>2, <1>12 DEF IsPlaced
  <2>4. QED
    BY <2>1, <2>2, <2>3

LEMMA InsertUnique ==
  \A S : \A q \in Seq(S), e \in S : Unique(q) /\ e.id \notin Names(q) =>
    Unique(Insert(q, e)) /\ Names(Insert(q, e)) \subseteq Names(q) \cup {e.id}
<1>1. SUFFICES ASSUME NEW S, NEW q \in Seq(S), NEW e \in S, Unique(q), e.id \notin Names(q)
               PROVE  Unique(Insert(q, e)) /\ Names(Insert(q, e)) \subseteq Names(q) \cup {e.id}
  OBVIOUS
<1> DEFINE r == Insert(q, e)
           n == Len(q)
<1>2. Len(r) = n + 1 /\ IsPlaced(q, e, r) /\ n \in Nat
  BY InsertType
<1> HIDE DEF r
<1>3. PICK k \in 0..n : \A i \in 1..(n + 1) : r[i] = IF i <= k THEN q[i] ELSE IF i = k + 1 THEN e ELSE q[i - 1]
  BY <1>2 DEF IsPlaced
<1> DEFINE P(i) == IF i <= k THEN i ELSE i - 1
<1>4. \A i \in 1..n : q[i].id # e.id
  BY <1>1 DEF Names
<1>5. \A i, j \in 1..n : q[i].id = q[j].id => i = j
  BY <1>1 DEF Unique
<1> HIDE DEF n
<1>6. \A i \in 1..(n + 1) : i = k + 1 \/ (P(i) \in 1..n /\ r[i] = q[P(i)])
  BY <1>2, <1>3
<1>7. r[k + 1] = e
  BY <1>2, <1>3
<1>8. \A i, j \in 1..(n + 1) : i # k + 1 /\ j # k + 1 /\ P(i) = P(j) => i = j
  BY <1>2
<1> HIDE DEF P
<1>9. \A i, j \in 1..(n + 1) : r[i].id = r[j].id => i = j
  BY <1>4, <1>5, <1>6, <1>7, <1>8, SMTT(30)
<1>10. \A i \in 1..(n + 1) : r[i].id = e.id \/ \E j \in 1..n : r[i].id = q[j].id
  BY <1>6, <1>7
<1>11. QED
  BY <1>2, <1>9, <1>10 DEF Unique, Names, r, n

LEMMA ByTouchType == \A S : \A q \in Seq(S) : ByTouch(q) \in Seq(S) /\ Len(ByTouch(q)) = Len(q)
<1>1. SUFFICES ASSUME NEW S PROVE \A q \in Seq(S) : ByTouch(q) \in Seq(S) /\ Len(ByTouch(q)) = Len(q)
  OBVIOUS
<1> DEFINE F(q) == InsertFold!Fold(0, << >>, q)
           T == {q \in Seq(S) : F(q) \in Seq(S) /\ Len(F(q)) = Len(q)}
<1>2. << >> \in T
  <2>1. F(<< >>) = << >>
    BY InsertFold!FoldEmpty
  <2> HIDE DEF F
  <2>2. QED
    BY <2>1, EmptySeq
<1>3. ASSUME NEW q \in Seq(S), NEW e \in S, q \in T PROVE Append(q, e) \in T
  <2>1. F(Append(q, e)) = Insert(F(q), e)
    BY InsertFold!FoldAppend DEF InsertOp
  <2>2. F(q) \in Seq(S) /\ Len(F(q)) = Len(q) /\ Append(q, e) \in Seq(S) /\ Len(Append(q, e)) = Len(q) + 1
    BY <1>3
  <2> HIDE DEF F
  <2>3. Insert(F(q), e) \in Seq(S) /\ Len(Insert(F(q), e)) = Len(F(q)) + 1
    BY <2>2, InsertType
  <2>4. QED
    BY <2>1, <2>2, <2>3
<1> HIDE DEF T
<1>4. \A q \in Seq(S) : q \in T
  BY <1>2, <1>3, Select!SeqInduction
<1>5. QED
  BY <1>4, ByTouchIsFold DEF T

LEMMA ByTouchUnique ==
  \A S : \A q \in Seq(S) : Unique(q) => Unique(ByTouch(q)) /\ Names(ByTouch(q)) \subseteq Names(q)
<1>1. SUFFICES ASSUME NEW S
               PROVE  \A q \in Seq(S) : Unique(q) => Unique(ByTouch(q)) /\ Names(ByTouch(q)) \subseteq Names(q)
  OBVIOUS
<1> DEFINE F(q) == InsertFold!Fold(0, << >>, q)
           T == {q \in Seq(S) : Unique(q) => Unique(F(q)) /\ Names(F(q)) \subseteq Names(q)}
<1>2. << >> \in T
  <2>1. F(<< >>) = << >>
    BY InsertFold!FoldEmpty
  <2> HIDE DEF F
  <2>2. QED
    BY <2>1, EmptySeq, UniqueEmpty
<1>3. ASSUME NEW q \in Seq(S), NEW e \in S, q \in T PROVE Append(q, e) \in T
  <2>1. F(Append(q, e)) = Insert(F(q), e)
    BY InsertFold!FoldAppend DEF InsertOp
  <2>2. F(q) \in Seq(S)
    BY ByTouchType, ByTouchIsFold
  <2>3. Unique(q) => Unique(F(q)) /\ Names(F(q)) \subseteq Names(q)
    BY <1>3
  <2>4. Append(q, e) \in Seq(S)
    OBVIOUS
  <2> HIDE DEF F
  <2>5. ASSUME Unique(Append(q, e)) PROVE Unique(Insert(F(q), e)) /\ Names(Insert(F(q), e)) \subseteq Names(Append(q, e))
    <3>1. Unique(q) /\ e.id \notin Names(q) /\ Names(Append(q, e)) = Names(q) \cup {e.id}
      BY <2>5, NamesAppend
    <3>2. Unique(F(q)) /\ e.id \notin Names(F(q)) /\ Names(F(q)) \subseteq Names(q)
      BY <2>3, <3>1
    <3>3. QED
      BY <2>2, <3>1, <3>2, InsertUnique
  <2>6. QED
    BY <2>1, <2>4, <2>5
<1> HIDE DEF T
<1>4. \A q \in Seq(S) : q \in T
  BY <1>2, <1>3, Select!SeqInduction
<1>5. QED
  BY <1>4, ByTouchIsFold DEF T

LEMMA SplitType ==
  \A S : \A q \in Seq(S) : time_split_events(q).train \in Seq(S) /\ time_split_events(q).test \in Seq(S)
<1>1. SUFFICES ASSUME NEW S, NEW q \in Seq(S)
               PROVE  time_split_events(q).train \in Seq(S) /\ time_split_events(q).test \in Seq(S)
  OBVIOUS
<1> DEFINE b == ByTouch(q)
           n == (6 * Len(q)) \div 10
<1>2. b \in Seq(S) /\ Len(b) = Len(q)
  BY ByTouchType
<1>3. n \in 0..Len(q)
  OBVIOUS
<1>4. time_split_events(q).train = SubSeq(b, 1, n) /\ time_split_events(q).test = SubSeq(b, n + 1, Len(q))
  BY DEF time_split_events
<1> HIDE DEF b, n
<1>5. SubSeq(b, 1, n) \in Seq(S) /\ SubSeq(b, n + 1, Len(q)) \in Seq(S)
  BY <1>2, <1>3
<1>6. QED
  BY <1>4, <1>5

---------------------------------------------------------------------------
(* The score of a combination is a number                                  *)

GoodCache(cache) == \A k \in DOMAIN cache : cache[k] \in Seq(Candles)
ScoreOf(train, cache, p) == compute_calendar_sum(run_dynamic_timing(train, cache, p))

LEMMA BarsType == \A cache, e : GoodCache(cache) => Bars(cache, e) \in Seq(Candles)
BY DEF GoodCache, Bars

LEMMA ScoreIsInt ==
  \A S, cache, p : (\A e \in S : IsTouch(e)) /\ GoodCache(cache) /\ p.max_steps \in Nat =>
    \A q \in Seq(S) : ScoreOf(q, cache, p) \in Int
<1>1. SUFFICES ASSUME NEW S, NEW cache, NEW p, \A e \in S : IsTouch(e), GoodCache(cache), p.max_steps \in Nat,
                      NEW q \in Seq(S)
               PROVE  ScoreOf(q, cache, p) \in Int
  OBVIOUS
<1> DEFINE One(i) == TimeOne(Bars(cache, q[i]), q[i], p)
           results == [i \in 1..Len(q) |-> One(i)]
           R == {One(i) : i \in 1..Len(q)}
           K == {b \in R : b.trade # None}
<1>2. run_dynamic_timing(q, cache, p) = results
  BY DEF run_dynamic_timing
<1>3. Len(q) \in Nat /\ \A i \in 1..Len(q) : q[i] \in S
  OBVIOUS
<1>4. \A i \in 1..Len(q) : One(i).trade # None => One(i).trade.realistic \in Int
  <2>1. SUFFICES ASSUME NEW i \in 1..Len(q), One(i).trade # None PROVE One(i).trade.realistic \in Int
    OBVIOUS
  <2>2. Bars(cache, q[i]) \in Seq(Candles) /\ IsTouch(q[i])
    BY <1>1, <1>3, BarsType
  <2>3. Pays(One(i).trade)
    BY <1>1, <2>1, <2>2, TimedPays
  <2>4. QED
    BY <2>3 DEF Pays
<1> HIDE DEF One
<1>5. results \in Seq(R)
  BY <1>3
<1>6. AreNumbered(R \cap K)
  BY <1>4 DEF AreNumbered
<1>7. Traded(results) = Sel(K, results)
  BY <1>5, TradedSelects
<1> HIDE DEF R, K, results
<1>8. Traded(results) \in Seq(R \cap K)
  BY <1>5, <1>7, SelType
<1>9. SumOfSilos(Traded(results)) \in Int
  BY <1>6, <1>8, SumIsInt
<1>10. QED
  BY <1>2, <1>9 DEF ScoreOf, compute_calendar_sum

---------------------------------------------------------------------------
(* The thresholds the searches try                                         *)

Values == Range(DefaultParams) \cup UNION {Range(list[2]) : list \in Range(Layer1) \cup Range(Layer2)}
Params == {p \in [DOMAIN DefaultParams -> Values] : p.max_steps \in Nat}
\* Those that leave the thresholds of the second search alone.
Params1 == {p \in Params : \A list \in Range(Layer2) : p[list[1]] = DefaultParams[list[1]]}

LEMMA DefaultsAreParams == DefaultParams \in Params1 /\ Params1 \subseteq Params
<1>1. DefaultParams \in [DOMAIN DefaultParams -> Values]
  BY ListsAssumption DEF Values, Range
<1>2. QED
  BY <1>1, ListsAssumption DEF Params, Params1

LEMMA ListFacts ==
  \A lists : AreLists(lists) =>
    \A list \in Range(lists) :
      /\ Len(list[2]) \in Nat /\ Len(list[2]) > 0 /\ list[1] \in DOMAIN DefaultParams
      /\ \A j \in 1..Len(list[2]) : list[2][j] \in Range(list[2])
      /\ list[1] = "max_steps" => Range(list[2]) \subseteq Nat
<1>1. SUFFICES ASSUME NEW lists, AreLists(lists), NEW list \in Range(lists)
               PROVE  /\ Len(list[2]) \in Nat /\ Len(list[2]) > 0 /\ list[1] \in DOMAIN DefaultParams
                      /\ \A j \in 1..Len(list[2]) : list[2][j] \in Range(list[2])
                      /\ list[1] = "max_steps" => Range(list[2]) \subseteq Nat
  OBVIOUS
<1> DEFINE q == list[2]
<1>2. q \in Seq(Range(q)) /\ q # << >> /\ list[1] \in DOMAIN DefaultParams
      /\ (list[1] = "max_steps" => Range(q) \subseteq Nat)
  BY <1>1 DEF AreLists, IsSequence
<1> HIDE DEF q
<1>3. Len(q) \in Nat /\ Len(q) > 0 /\ \A j \in 1..Len(q) : q[j] \in Range(q)
  BY <1>2
<1>4. QED
  BY <1>2, <1>3 DEF q

LEMMA MovesStay ==
  ASSUME NEW lists, AreLists(lists), Range(lists) \subseteq Range(Layer1) \cup Range(Layer2)
  PROVE  \A list \in Range(lists) : Within(list, Params)
<1>1. SUFFICES ASSUME NEW list \in Range(lists) PROVE Within(list, Params)
  OBVIOUS
<1> DEFINE f == list[1]
           n == Len(list[2])
<1>2. /\ n \in Nat /\ n > 0 /\ f \in DOMAIN DefaultParams
      /\ \A j \in 1..n : list[2][j] \in Range(list[2])
      /\ f = "max_steps" => Range(list[2]) \subseteq Nat
  BY ListFacts
<1>3. Range(list[2]) \subseteq Values
  BY DEF Values
<1>4. SUFFICES ASSUME NEW p \in Params, NEW j \in 1..n PROVE Moves(p, list, j) \in Params
  BY <1>2 DEF Within
<1> DEFINE v == list[2][j]
<1>5. v \in Values /\ (f = "max_steps" => v \in Nat)
  BY <1>2, <1>3
<1>6. Moves(p, list, j) = [p EXCEPT ![f] = v]
  BY DEF Moves
<1> HIDE DEF f, v, n
<1>7. p \in [DOMAIN DefaultParams -> Values] /\ p.max_steps \in Nat /\ "max_steps" \in DOMAIN DefaultParams
  BY ListsAssumption DEF Params
<1> DEFINE r == [p EXCEPT ![f] = v]
<1>8. r \in [DOMAIN DefaultParams -> Values]
  BY <1>5, <1>7
<1>9. r.max_steps \in Nat
  BY <1>5, <1>7
<1>10. QED
  BY <1>6, <1>8, <1>9 DEF Params

LEMMA FirstStays == \A list \in Range(Layer1) : Within(list, Params1)
<1>1. SUFFICES ASSUME NEW list \in Range(Layer1) PROVE Within(list, Params1)
  OBVIOUS
<1>2. Within(list, Params)
  BY ListsAssumption, MovesStay
<1>3. SUFFICES ASSUME NEW p \in Params1, NEW j \in 1..Len(list[2]) PROVE Moves(p, list, j) \in Params1
  BY <1>2 DEF Within
<1>4. p \in Params /\ Moves(p, list, j) \in Params
  BY <1>2 DEF Within, Params1
<1>5. ASSUME NEW other \in Range(Layer2) PROVE Moves(p, list, j)[other[1]] = DefaultParams[other[1]]
  <2>1. other[1] # list[1] /\ other[1] \in DOMAIN DefaultParams
    BY ListsAssumption, ListFacts
  <2>2. p \in [DOMAIN DefaultParams -> Values] /\ p[other[1]] = DefaultParams[other[1]]
    BY DEF Params1, Params
  <2>3. Moves(p, list, j)[other[1]] = p[other[1]]
    BY <2>1, <2>2 DEF Moves
  <2>4. QED
    BY <2>2, <2>3
<1>6. QED
  BY <1>4, <1>5 DEF Params1

\* The second search tries what the first one chose.
LEMMA FirstIsTried ==
  \A p \in Params1 : \A list \in Range(Layer2) : \E j \in 1..Len(list[2]) : Moves(p, list, j) = p
<1>1. SUFFICES ASSUME NEW p \in Params1, NEW list \in Range(Layer2)
               PROVE  \E j \in 1..Len(list[2]) : Moves(p, list, j) = p
  OBVIOUS
<1> DEFINE f == list[1]
           q == list[2]
<1>2. DefaultParams[f] \in Range(q) /\ f \in DOMAIN DefaultParams
  BY ListsAssumption, ListFacts
<1>3. q \in Seq(Range(q))
  BY ListsAssumption DEF AreLists, IsSequence
<1>4. p \in [DOMAIN DefaultParams -> Values] /\ p[f] = DefaultParams[f]
  BY DEF Params1, Params
<1>5. PICK j \in DOMAIN q : q[j] = DefaultParams[f]
  BY <1>2 DEF Range
<1> HIDE DEF f, q
<1>6. j \in 1..Len(q)
  BY <1>3
<1>7. [p EXCEPT ![f] = q[j]] = p
  BY <1>2, <1>4, <1>5
<1>8. QED
  BY <1>6, <1>7 DEF Moves, f, q

LEMMA FirstCombos == Combos(Layer1, DefaultParams) \in Seq(Params1) /\ Combos(Layer1, DefaultParams) # << >>
<1>1. Layer1 \in Seq(Range(Layer1))
  BY ListsAssumption DEF AreLists, IsSequence
<1>2. QED
  BY <1>1, DefaultsAreParams, FirstStays, CombosType

LEMMA SecondCombos ==
  \A p \in Params1 : /\ Combos(Layer2, p) \in Seq(Params) /\ Combos(Layer2, p) # << >>
                     /\ Has(Combos(Layer2, p), p)
<1>1. SUFFICES ASSUME NEW p \in Params1
               PROVE  Combos(Layer2, p) \in Seq(Params) /\ Combos(Layer2, p) # << >> /\ Has(Combos(Layer2, p), p)
  OBVIOUS
<1>2. Layer2 \in Seq(Range(Layer2)) /\ AreLists(Layer2)
  BY ListsAssumption DEF AreLists, IsSequence
<1>3. \A list \in Range(Layer2) : Within(list, Params)
  BY <1>2, MovesStay
<1>4. p \in Params
  BY DefaultsAreParams
<1>5. Combos(Layer2, p) \in Seq(Params) /\ Combos(Layer2, p) # << >>
  BY <1>2, <1>3, <1>4, CombosType
<1>6. \A list \in Range(Layer2) : \E j \in 1..Len(list[2]) : Moves(p, list, j) = p
  BY FirstIsTried
<1>7. Has(Combos(Layer2, p), p)
  BY <1>2, <1>3, <1>4, <1>6, CombosKeep
<1>8. QED
  BY <1>5, <1>7

---------------------------------------------------------------------------
(* A search that goes through the combinations of P in "all": those it has *)
(* passed have at most the score of the one it keeps.                      *)

IsKept(train, cache, P, best) ==
  best # None => best[1].params \in P /\ best[1].score = ScoreOf(train, cache, best[1].params)

IsPassed(train, cache, p, best) == best # None /\ ScoreOf(train, cache, p) <= best[1].score

SearchInv(train, cache, P, all, todo, best) ==
  /\ todo \in Seq(P)
  /\ IsKept(train, cache, P, best)
  /\ \A i \in 1..Len(all) : Has(todo, all[i]) \/ IsPassed(train, cache, all[i], best)

LEMMA HasTail ==
  \A P : \A q \in Seq(P) : q # << >> =>
    /\ Head(q) \in P /\ Tail(q) \in Seq(P) /\ (Tail(q) # << >> <=> Len(q) > 1)
    /\ \A x : Has(q, x) => x = Head(q) \/ Has(Tail(q), x)
<1>1. SUFFICES ASSUME NEW P, NEW q \in Seq(P), q # << >>
               PROVE  /\ Head(q) \in P /\ Tail(q) \in Seq(P) /\ (Tail(q) # << >> <=> Len(q) > 1)
                      /\ \A x : Has(q, x) => x = Head(q) \/ Has(Tail(q), x)
  OBVIOUS
<1>2. Len(q) \in Nat /\ Len(q) > 0 /\ Head(q) = q[1] /\ q[1] \in P
  BY <1>1
<1>3. Tail(q) \in Seq(P) /\ Len(Tail(q)) = Len(q) - 1 /\ \A i \in 1..(Len(q) - 1) : Tail(q)[i] = q[i + 1]
  BY <1>1
<1>4. Tail(q) # << >> <=> Len(q) > 1
  <2> DEFINE r == Tail(q)
  <2>1. r \in Seq(P) /\ Len(r) = Len(q) - 1
    BY <1>3
  <2> HIDE DEF r
  <2>2. r # << >> <=> Len(r) > 0
    BY <2>1
  <2>3. QED
    BY <1>2, <2>1, <2>2 DEF r
<1>5. ASSUME NEW x, Has(q, x), x # Head(q) PROVE Has(Tail(q), x)
  <2>1. PICK i \in 1..Len(q) : q[i] = x
    BY <1>5 DEF Has
  <2>2. i # 1
    BY <1>2, <1>5, <2>1
  <2>3. i - 1 \in 1..(Len(q) - 1) /\ (i - 1) + 1 = i
    BY <1>2, <2>2
  <2>4. Tail(q)[i - 1] = x
    BY <1>3, <2>1, <2>3
  <2>5. QED
    BY <1>3, <2>3, <2>4 DEF Has
<1>6. QED
  BY <1>2, <1>3, <1>4, <1>5

\* One more combination is tried.
LEMMA SearchStep ==
  ASSUME NEW train, NEW cache, NEW P, NEW all \in Seq(P), NEW todo, NEW best, NEW t,
         SearchInv(train, cache, P, all, todo, best), todo # << >>,
         \A p \in P : ScoreOf(train, cache, p) \in Int,
         t.params = Head(todo), t.score = ScoreOf(train, cache, Head(todo))
  PROVE  Search(best, t) # None /\ SearchInv(train, cache, P, all, Tail(todo), Search(best, t))
<1> DEFINE S(p) == ScoreOf(train, cache, p)
           next == Search(best, t)
<1>1. todo \in Seq(P) /\ (best # None => best[1].params \in P /\ best[1].score = S(best[1].params))
  BY DEF SearchInv, IsKept
<1>2. Head(todo) \in P /\ Tail(todo) \in Seq(P) /\ \A x : Has(todo, x) => x = Head(todo) \/ Has(Tail(todo), x)
  BY <1>1, HasTail
<1>3. next = IF best = None \/ t.score > best[1].score THEN <<t>> ELSE best
  BY DEF Search
<1>4. S(Head(todo)) \in Int /\ (best # None => best[1].score \in Int)
  BY <1>1, <1>2
<1>5. next # None
  BY <1>3 DEF None
<1>6. next[1].params \in P /\ next[1].score = S(next[1].params)
  BY <1>1, <1>2, <1>3
<1>7. next[1].score >= S(Head(todo)) /\ (best # None => next[1].score >= best[1].score) /\ next[1].score \in Int
  BY <1>3, <1>4
<1>8. ASSUME NEW i \in 1..Len(all) PROVE Has(Tail(todo), all[i]) \/ IsPassed(train, cache, all[i], next)
  <2>1. all[i] \in P
    OBVIOUS
  <2>2. S(all[i]) \in Int
    BY <2>1
  <2>3. CASE Has(todo, all[i])
    <3>1. CASE all[i] = Head(todo)
      <4>1. S(all[i]) <= next[1].score
        BY <1>4, <1>7, <3>1
      <4>2. QED
        BY <1>5, <4>1 DEF IsPassed
    <3>2. QED
      BY <1>2, <2>3, <3>1
  <2>4. CASE IsPassed(train, cache, all[i], best)
    <3>1. best # None /\ S(all[i]) <= best[1].score
      BY <2>4 DEF IsPassed
    <3>2. S(all[i]) <= next[1].score
      BY <1>4, <1>7, <2>2, <3>1
    <3>3. QED
      BY <1>5, <3>2 DEF IsPassed
  <2>5. QED
    BY <2>3, <2>4 DEF SearchInv
<1>9. QED
  BY <1>2, <1>5, <1>6, <1>8 DEF SearchInv, IsKept

---------------------------------------------------------------------------
(* The inductive invariant, as a property of a value x of the state        *)

Fields == {"at", "env", "cache", "train", "test", "todo", "layer1", "best", "eval", "sensitive",
           "stability", "out", "report", "files"}
Stages == {"load", "layer1", "layer2", "evaluate", "analyse", "output", "report", "end"}

First == Combos(Layer1, DefaultParams)
Second(p) == Combos(Layer2, p)

IsLoaded(x) ==
  /\ x.train \in Seq(Range(x.env.events)) /\ x.test \in Seq(Range(x.env.events))
  /\ GoodCache(x.cache)

FirstSearch(x, todo, best) == SearchInv(x.train, x.cache, Params1, First, todo, best)
SecondSearch(x, todo, best) == SearchInv(x.train, x.cache, Params, Second(x.layer1[1].params), todo, best)
FirstDone(x) == x.layer1 # None /\ FirstSearch(x, << >>, x.layer1)

IsEvaluated(x) ==
  /\ x.best # None /\ x.best[1].params.max_steps \in Nat
  /\ x.eval[1].dynamic = run_dynamic_timing(x.test, x.cache, x.best[1].params)
  /\ x.eval[1].baselines.a = run_baseline(x.test, x.cache, Interval)
  /\ x.eval[1].baselines.c = run_baseline(x.test, x.cache, 0)

InvOf(x) ==
  /\ Fields \subseteq DOMAIN x /\ x.at \in Stages /\ x.env \in Environments
  /\ x.at = "load" => x.best = None
  /\ x.at # "load" => IsLoaded(x)
  /\ x.at = "layer1" => x.todo # << >> /\ FirstSearch(x, x.todo, x.best)
  /\ x.at \in {"layer2", "evaluate"} => FirstDone(x)
  /\ x.at = "layer2" => x.todo # << >> /\ SecondSearch(x, x.todo, x.best)
  /\ x.at = "evaluate" => x.best # None /\ SecondSearch(x, << >>, x.best)
  /\ x.at = "analyse" => IsEvaluated(x)

DynamicInv == InvOf(s)

LEMMA ScoresAreInts ==
  \A x : x.env \in Environments /\ IsLoaded(x) =>
    \A p : p.max_steps \in Nat => ScoreOf(x.train, x.cache, p) \in Int
<1>1. SUFFICES ASSUME NEW x, x.env \in Environments, IsLoaded(x), NEW p, p.max_steps \in Nat
               PROVE  ScoreOf(x.train, x.cache, p) \in Int
  OBVIOUS
<1>2. \A e \in Range(x.env.events) : IsTouch(e)
  BY <1>1, InputsAssumption DEF AreInputs
<1>3. x.train \in Seq(Range(x.env.events)) /\ GoodCache(x.cache)
  BY <1>1 DEF IsLoaded
<1>4. QED
  BY <1>1, <1>2, <1>3, ScoreIsInt

LEMMA ParamsCount == \A p \in Params : p.max_steps \in Nat
BY DEF Params

\* Before anything was tried, everything is still to do.
LEMMA SearchStarts ==
  \A train, cache, P : \A all \in Seq(P) : SearchInv(train, cache, P, all, all, None)
BY DEF SearchInv, IsKept, Has

LEMMA InitInv == Init => DynamicInv
<1>1. SUFFICES ASSUME Init PROVE InvOf(s)
  BY DEF DynamicInv
<1>2. PICK env \in Environments :
        s = [at |-> "load", env |-> env, cache |-> << >>, train |-> << >>, test |-> << >>, todo |-> << >>,
             layer1 |-> None, best |-> None, eval |-> None, sensitive |-> {}, stability |-> None,
             out |-> None, report |-> None, files |-> {}]
  BY <1>1 DEF Init
<1>3. s.at = "load" /\ s.env \in Environments /\ s.best = None /\ Fields \subseteq DOMAIN s
  BY <1>2 DEF Fields
<1>4. QED
  BY <1>3 DEF InvOf, Stages

LEMMA LoadInv == ASSUME DynamicInv, Load PROVE InvOf(s')
<1> DEFINE events == load_v6_gate_events(s.env.ledger, s.env.events)
           E == Range(s.env.events)
           R == Range(s.env.ledger)
           cache == load_bars_cache(events, s.env.files)
           split == time_split_events(events)
           x == s'
<1>1. Fields \subseteq DOMAIN s /\ s.env \in Environments /\ s.at = "load" /\ s.best = None
  BY DEF DynamicInv, InvOf, Load
<1>2. s.env.ledger \in Seq(R) /\ s.env.events \in Seq(E) /\ (\A r \in R : r.time \in Int)
      /\ (\A e \in E : e.touch \in Int) /\ \A k \in DOMAIN s.env.files : s.env.files[k] \in Seq(Candles)
  BY <1>1, InputsAssumption DEF AreInputs, IsSequence, IsTouch
<1>3. events \in Seq(E)
  BY <1>2, LoadType
<1>4. x = [s EXCEPT !.at = "layer1", !.cache = cache, !.train = split.train, !.test = split.test, !.todo = First]
  BY DEF Load, Loaded, First
<1>5. GoodCache(cache)
  BY <1>2 DEF GoodCache, load_bars_cache
<1>6. split.train \in Seq(E) /\ split.test \in Seq(E)
  BY <1>3, SplitType
<1>7. First \in Seq(Params1) /\ First # << >>
  BY FirstCombos DEF First
<1>8. SearchInv(split.train, cache, Params1, First, First, None)
  BY <1>7, SearchStarts
<1> HIDE DEF cache, split
<1>9. /\ x.at = "layer1" /\ x.env = s.env /\ x.best = None /\ x.cache = cache /\ x.train = split.train
      /\ x.test = split.test /\ x.todo = First /\ Fields \subseteq DOMAIN x
  BY <1>1, <1>4 DEF Fields
<1> HIDE DEF x
<1>10. IsLoaded(x)
  BY <1>5, <1>6, <1>9 DEF IsLoaded
<1>11. FirstSearch(x, x.todo, x.best)
  BY <1>8, <1>9 DEF FirstSearch
<1>12. QED
  <2>1. InvOf(x)
    BY <1>1, <1>7, <1>9, <1>10, <1>11 DEF InvOf, Stages
  <2>2. QED
    BY <2>1 DEF x

LEMMA TriedIs == \A p : Tried(p).params = p /\ Tried(p).score = ScoreOf(s.train, s.cache, p)
BY DEF Tried, Row, ScoreOf

LEMMA Layer1Inv == ASSUME DynamicInv, run_grid_search_layer1 PROVE InvOf(s')
<1> DEFINE t == Tried(Head(s.todo))
           best == Search(s.best, t)
           x == s'
<1>1. /\ Fields \subseteq DOMAIN s /\ s.env \in Environments /\ s.at = "layer1" /\ IsLoaded(s)
      /\ s.todo # << >> /\ FirstSearch(s, s.todo, s.best)
  BY DEF DynamicInv, InvOf, run_grid_search_layer1
<1>2. First \in Seq(Params1) /\ s.todo \in Seq(Params1)
  BY <1>1, FirstCombos DEF First, FirstSearch, SearchInv
<1>3. \A p \in Params1 : ScoreOf(s.train, s.cache, p) \in Int
  BY <1>1, DefaultsAreParams, ParamsCount, ScoresAreInts
<1>4. t.params = Head(s.todo) /\ t.score = ScoreOf(s.train, s.cache, Head(s.todo))
  BY TriedIs
<1>5. x = IF Len(s.todo) > 1
          THEN [s EXCEPT !.todo = Tail(@), !.best = best]
          ELSE [s EXCEPT !.at = "layer2", !.layer1 = best, !.best = None,
                         !.todo = ToLayer2(best[1].params), !.files = @ \cup {"layer1.csv"}]
  BY DEF run_grid_search_layer1
<1> HIDE DEF t
<1>6. SearchInv(s.train, s.cache, Params1, First, s.todo, s.best)
  BY <1>1 DEF FirstSearch
<1>7. best # None /\ SearchInv(s.train, s.cache, Params1, First, Tail(s.todo), best)
  BY <1>1, <1>2, <1>3, <1>4, <1>6, SearchStep
<1> HIDE DEF best
<1>8. Tail(s.todo) # << >> <=> Len(s.todo) > 1
  BY <1>1, <1>2, HasTail
<1>9. CASE Len(s.todo) > 1
  <2>1. x = [s EXCEPT !.todo = Tail(s.todo), !.best = best]
    BY <1>5, <1>9
  <2>2. /\ x.at = "layer1" /\ x.env = s.env /\ x.best = best /\ x.cache = s.cache /\ x.train = s.train
        /\ x.test = s.test /\ x.todo = Tail(s.todo) /\ Fields \subseteq DOMAIN x
    BY <1>1, <2>1 DEF Fields
  <2> HIDE DEF x
  <2>3. IsLoaded(x) /\ FirstSearch(x, x.todo, x.best) /\ x.todo # << >>
    BY <1>1, <1>7, <1>8, <1>9, <2>2 DEF IsLoaded, FirstSearch
  <2>4. InvOf(x)
    BY <1>1, <2>2, <2>3 DEF InvOf, Stages
  <2>5. QED
    BY <2>4 DEF x
<1>10. CASE ~(Len(s.todo) > 1)
  <2> DEFINE p == best[1].params
  <2>1. x = [s EXCEPT !.at = "layer2", !.layer1 = best, !.best = None, !.todo = Second(p),
                      !.files = s.files \cup {"layer1.csv"}]
    BY <1>5, <1>10 DEF ToLayer2, Second
  <2>2. p \in Params1
    BY <1>7 DEF SearchInv, IsKept
  <2> HIDE DEF p
  <2>3. Second(p) \in Seq(Params) /\ Second(p) # << >>
    BY <2>2, SecondCombos DEF Second
  <2>4. SearchInv(s.train, s.cache, Params, Second(p), Second(p), None)
    BY <2>3, SearchStarts
  <2>5. /\ x.at = "layer2" /\ x.env = s.env /\ x.best = None /\ x.layer1 = best /\ x.cache = s.cache
        /\ x.train = s.train /\ x.test = s.test /\ x.todo = Second(p) /\ Fields \subseteq DOMAIN x
    BY <1>1, <2>1 DEF Fields
  <2> HIDE DEF x
  <2>6. IsLoaded(x)
    BY <1>1, <2>5 DEF IsLoaded
  <2>7. FirstDone(x)
    <3>1. Tail(s.todo) = << >>
      BY <1>8, <1>10
    <3>2. QED
      BY <1>7, <2>5, <3>1 DEF FirstDone, FirstSearch
  <2>8. SecondSearch(x, x.todo, x.best)
    BY <2>4, <2>5 DEF SecondSearch, p
  <2>9. InvOf(x)
    BY <1>1, <2>3, <2>5, <2>6, <2>7, <2>8 DEF InvOf, Stages
  <2>10. QED
    BY <2>9 DEF x
<1>11. QED
  BY <1>9, <1>10

LEMMA Layer2Inv == ASSUME DynamicInv, run_grid_search_layer2 PROVE InvOf(s')
<1> DEFINE t == Tried(Head(s.todo))
           best == Search(s.best, t)
           all == Second(s.layer1[1].params)
           x == s'
<1>1. /\ Fields \subseteq DOMAIN s /\ s.env \in Environments /\ s.at = "layer2" /\ IsLoaded(s)
      /\ FirstDone(s) /\ s.todo # << >> /\ SecondSearch(s, s.todo, s.best)
  BY DEF DynamicInv, InvOf, run_grid_search_layer2
<1>2. all \in Seq(Params) /\ s.todo \in Seq(Params)
  <2>1. s.layer1[1].params \in Params1
    BY <1>1 DEF FirstDone, FirstSearch, SearchInv, IsKept
  <2>2. all \in Seq(Params)
    BY <2>1, SecondCombos DEF Second
  <2>3. QED
    BY <1>1, <2>2 DEF SecondSearch, SearchInv
<1>3. \A p \in Params : ScoreOf(s.train, s.cache, p) \in Int
  BY <1>1, ParamsCount, ScoresAreInts
<1>4. t.params = Head(s.todo) /\ t.score = ScoreOf(s.train, s.cache, Head(s.todo))
  BY TriedIs
<1>5. x = IF Len(s.todo) > 1
          THEN [s EXCEPT !.todo = Tail(@), !.best = best]
          ELSE [s EXCEPT !.at = "evaluate", !.todo = << >>, !.best = best,
                         !.files = @ \cup {"layer2.csv", "params.json"}]
  BY DEF run_grid_search_layer2
<1> HIDE DEF t
<1>6. SearchInv(s.train, s.cache, Params, all, s.todo, s.best)
  BY <1>1 DEF SecondSearch
<1> HIDE DEF all
<1>7. best # None /\ SearchInv(s.train, s.cache, Params, all, Tail(s.todo), best)
  BY <1>1, <1>2, <1>3, <1>4, <1>6, SearchStep
<1> HIDE DEF best
<1>8. Tail(s.todo) # << >> <=> Len(s.todo) > 1
  BY <1>1, <1>2, HasTail
<1>9. CASE Len(s.todo) > 1
  <2>1. x = [s EXCEPT !.todo = Tail(s.todo), !.best = best]
    BY <1>5, <1>9
  <2>2. /\ x.at = "layer2" /\ x.env = s.env /\ x.best = best /\ x.cache = s.cache /\ x.train = s.train
        /\ x.test = s.test /\ x.layer1 = s.layer1 /\ x.todo = Tail(s.todo) /\ Fields \subseteq DOMAIN x
    BY <1>1, <2>1 DEF Fields
  <2> HIDE DEF x
  <2>3. IsLoaded(x) /\ FirstDone(x)
    BY <1>1, <2>2 DEF IsLoaded, FirstDone, FirstSearch
  <2>4. SecondSearch(x, x.todo, x.best) /\ x.todo # << >>
    BY <1>7, <1>8, <1>9, <2>2 DEF SecondSearch, all
  <2>5. InvOf(x)
    BY <1>1, <2>2, <2>3, <2>4 DEF InvOf, Stages
  <2>6. QED
    BY <2>5 DEF x
<1>10. CASE ~(Len(s.todo) > 1)
  <2>1. x = [s EXCEPT !.at = "evaluate", !.todo = << >>, !.best = best,
                      !.files = s.files \cup {"layer2.csv", "params.json"}]
    BY <1>5, <1>10
  <2>2. /\ x.at = "evaluate" /\ x.env = s.env /\ x.best = best /\ x.cache = s.cache /\ x.train = s.train
        /\ x.test = s.test /\ x.layer1 = s.layer1 /\ Fields \subseteq DOMAIN x
    BY <1>1, <2>1 DEF Fields
  <2> HIDE DEF x
  <2>3. IsLoaded(x) /\ FirstDone(x)
    BY <1>1, <2>2 DEF IsLoaded, FirstDone, FirstSearch
  <2>4. Tail(s.todo) = << >>
    BY <1>8, <1>10
  <2>5. SecondSearch(x, << >>, x.best) /\ x.best # None
    BY <1>7, <2>2, <2>4 DEF SecondSearch, all
  <2>6. InvOf(x)
    BY <1>1, <2>2, <2>3, <2>5 DEF InvOf, Stages
  <2>7. QED
    BY <2>6 DEF x
<1>11. QED
  BY <1>9, <1>10

LEMMA EvaluateInv == ASSUME DynamicInv, Evaluate PROVE InvOf(s')
<1> DEFINE p == s.best[1].params
           ev == evaluate_on_test_set(s.test, s.cache, p, Score(p))
           x == s'
<1>1. /\ Fields \subseteq DOMAIN s /\ s.env \in Environments /\ s.at = "evaluate" /\ IsLoaded(s)
      /\ s.best # None /\ SecondSearch(s, << >>, s.best)
  BY DEF DynamicInv, InvOf, Evaluate
<1>2. x = [s EXCEPT !.at = "analyse", !.eval = <<ev>>]
  BY DEF Evaluate
<1>3. /\ ev.dynamic = run_dynamic_timing(s.test, s.cache, p)
      /\ ev.baselines.a = run_baseline(s.test, s.cache, Interval)
      /\ ev.baselines.c = run_baseline(s.test, s.cache, 0)
  <2> DEFINE dyn == run_dynamic_timing(s.test, s.cache, p)
             base == run_all_baselines(s.test, s.cache)
  <2>1. ev = Judged(dyn, base, {s.test[i].symbol : i \in 1..Len(s.test)}, Score(p))
    BY DEF evaluate_on_test_set
  <2>2. base.a = run_baseline(s.test, s.cache, Interval) /\ base.c = run_baseline(s.test, s.cache, 0)
    BY DEF run_all_baselines
  <2> HIDE DEF dyn, base, p, ev
  <2>3. ev.dynamic = dyn /\ ev.baselines = base
    BY <2>1 DEF Judged, Evaluation
  <2>4. QED
    BY <2>2, <2>3 DEF dyn
<1>4. p.max_steps \in Nat
  BY <1>1, ParamsCount DEF SecondSearch, SearchInv, IsKept
<1> HIDE DEF ev
<1>5. /\ x.at = "analyse" /\ x.env = s.env /\ x.best = s.best /\ x.cache = s.cache /\ x.train = s.train
      /\ x.test = s.test /\ x.eval = <<ev>> /\ Fields \subseteq DOMAIN x
  BY <1>1, <1>2 DEF Fields
<1> HIDE DEF x
<1>6. IsLoaded(x)
  BY <1>1, <1>5 DEF IsLoaded
<1>7. IsEvaluated(x)
  BY <1>1, <1>3, <1>4, <1>5 DEF IsEvaluated
<1>8. InvOf(x)
  BY <1>1, <1>5, <1>6, <1>7 DEF InvOf, Stages
<1>9. QED
  BY <1>8 DEF x

\* What is left writes the figures and files of an evaluated study.
LEMMA RestInv == ASSUME DynamicInv, Analyse \/ Output \/ generate_report PROVE InvOf(s')
<1> DEFINE x == s'
<1>1. Fields \subseteq DOMAIN s /\ s.env \in Environments /\ IsLoaded(s)
  BY DEF DynamicInv, InvOf, Analyse, Output, generate_report
<1>2. /\ x.at \in {"output", "report", "end"} /\ x.env = s.env /\ x.cache = s.cache /\ x.train = s.train
      /\ x.test = s.test /\ Fields \subseteq DOMAIN x
  <2>1. CASE Analyse
    BY <1>1, <2>1 DEF Analyse, Fields
  <2>2. CASE Output
    BY <1>1, <2>2 DEF Output, Fields
  <2>3. CASE generate_report
    BY <1>1, <2>3 DEF generate_report, Fields
  <2>4. QED
    BY <2>1, <2>2, <2>3
<1> HIDE DEF x
<1>3. IsLoaded(x)
  BY <1>1, <1>2 DEF IsLoaded
<1>4. InvOf(x)
  BY <1>1, <1>2, <1>3 DEF InvOf, Stages
<1>5. QED
  BY <1>4 DEF x

\* The invariant is inductive.
LEMMA NextInv == DynamicInv /\ [Next]_s => DynamicInv'
<1>1. SUFFICES ASSUME DynamicInv, [Next]_s PROVE InvOf(s')
  BY DEF DynamicInv
<1>2. CASE UNCHANGED s
  BY <1>1, <1>2 DEF DynamicInv
<1>3. CASE Next
  BY <1>1, <1>3, LoadInv, Layer1Inv, Layer2Inv, EvaluateInv, RestInv DEF Next
<1>4. QED
  BY <1>1, <1>2, <1>3

LEMMA DynamicInvHolds == DynamicSpec => []DynamicInv
<1>1. Init => DynamicInv
  BY InitInv
<1>2. DynamicInv /\ [Next]_s => DynamicInv'
  BY NextInv
<1>3. QED
  BY <1>1, <1>2, PTL DEF DynamicSpec

---------------------------------------------------------------------------
(* What the study promises                                                 *)

\* What was decided for one of the events of the evaluation.
LEMMA EvaluatedOne ==
  ASSUME DynamicInv, s.at = "analyse", NEW i \in 1..Len(s.test)
  PROVE  /\ IsTouch(s.test[i]) /\ Bars(s.cache, s.test[i]) \in Seq(Candles) /\ s.best[1].params.max_steps \in Nat
         /\ s.eval[1].dynamic[i] = TimeOne(Bars(s.cache, s.test[i]), s.test[i], s.best[1].params)
<1>1. s.env \in Environments /\ IsLoaded(s) /\ IsEvaluated(s)
  BY DEF DynamicInv, InvOf
<1>2. s.test \in Seq(Range(s.env.events)) /\ GoodCache(s.cache)
  BY <1>1 DEF IsLoaded
<1>3. s.test[i] \in Range(s.env.events)
  BY <1>2
<1>4. IsTouch(s.test[i])
  BY <1>1, <1>3, InputsAssumption DEF AreInputs
<1>5. s.eval[1].dynamic[i] = TimeOne(Bars(s.cache, s.test[i]), s.test[i], s.best[1].params)
  BY <1>1 DEF IsEvaluated, run_dynamic_timing
<1>6. QED
  BY <1>1, <1>2, <1>4, <1>5, BarsType DEF IsEvaluated

LEMMA InvIsCausal == DynamicInv => TimingIsCausal
<1> DEFINE e(i) == s.test[i]
           r(i) == s.eval[1].dynamic[i]
           p == s.best[1].params
           again(i) == TimeOne(UpTo(Bars(s.cache, e(i)), r(i).entry[1]), e(i), p)
<1>1. SUFFICES ASSUME DynamicInv, s.at = "analyse", NEW i \in 1..Len(s.test), r(i).entry # None
               PROVE  again(i).entry = r(i).entry /\ again(i).decision = r(i).decision
                      /\ again(i).regime = r(i).regime
  BY DEF TimingIsCausal
<1>2. /\ IsTouch(e(i)) /\ Bars(s.cache, e(i)) \in Seq(Candles) /\ p.max_steps \in Nat
      /\ r(i) = TimeOne(Bars(s.cache, e(i)), e(i), p)
  BY <1>1, EvaluatedOne
<1> DEFINE bars == Bars(s.cache, e(i))
           once == TimeOne(bars, e(i), p)
           cut == TimeOne(UpTo(bars, once.entry[1]), e(i), p)
<1>3. once.entry # None => cut.entry = once.entry /\ cut.decision = once.decision /\ cut.regime = once.regime
  <2> DEFINE f == e(i)
  <2>1. bars \in Seq(Candles) /\ IsTouch(f) /\ p.max_steps \in Nat
    BY <1>2
  <2> HIDE DEF bars, f, p
  <2>2. LET a == TimeOne(bars, f, p) b == TimeOne(UpTo(bars, a.entry[1]), f, p)
        IN a.entry # None => b.entry = a.entry /\ b.decision = a.decision /\ b.regime = a.regime
    BY <2>1, CausalOne
  <2>3. QED
    BY <2>2 DEF f
<1>4. QED
  BY <1>1, <1>2, <1>3

\* Stopping the bars at the entry changes nothing of what step_features, the
\* classifier and the pullback monitor decide before it, in any evaluation.
THEOREM DynamicTimingIsCausal == DynamicSpec => []TimingIsCausal
<1>1. DynamicInv => TimingIsCausal
  BY InvIsCausal
<1>2. QED
  BY <1>1, DynamicInvHolds, PTL

\* The costs after the entry are the slippage of the exit and the fees.
LEMMA PaysMeans ==
  \A t : Pays(t) => /\ t.realistic >= -(t.risk + 2 + 6)
                    /\ t.reason \in {"BreakevenSL", "TrailingSL"} => t.realistic > 0
<1>1. \A a, b \in Int : a >= -(b + 8) => a >= -(b + 2 + 6)
  OBVIOUS
<1>2. QED
  BY <1>1, Zenon DEF Pays

LEMMA InvPays == DynamicInv => ProtectedTradesPay
<1>1. SUFFICES ASSUME DynamicInv, s.at = "analyse",
                      NEW rs \in {s.eval[1].dynamic, s.eval[1].baselines.a, s.eval[1].baselines.c},
                      NEW i \in 1..Len(rs), rs[i].trade # None
               PROVE  Pays(rs[i].trade)
  <2>1. SUFFICES ASSUME DynamicInv, s.at = "analyse",
                        NEW rs \in {s.eval[1].dynamic, s.eval[1].baselines.a, s.eval[1].baselines.c},
                        NEW i \in 1..Len(rs), rs[i].trade # None
                 PROVE  /\ rs[i].trade.realistic >= -(rs[i].trade.risk + 2 + 6)
                        /\ rs[i].trade.reason \in {"BreakevenSL", "TrailingSL"} => rs[i].trade.realistic > 0
    BY DEF ProtectedTradesPay
  <2> DEFINE t == rs[i].trade
  <2>2. Pays(t)
    BY <2>1, Zenon
  <2> HIDE DEF t
  <2>3. /\ t.realistic >= -(t.risk + 2 + 6)
        /\ t.reason \in {"BreakevenSL", "TrailingSL"} => t.realistic > 0
    BY <2>2, PaysMeans, Zenon
  <2>4. QED
    BY <2>3, Zenon DEF t
<1>2. IsEvaluated(s) /\ Interval \in Int /\ 0 \in Int
  BY <1>1, ExecutionAssumption DEF DynamicInv, InvOf
<1> DEFINE n == Len(s.test)
<1>3. n \in Nat
  BY <1>1 DEF DynamicInv, InvOf, IsLoaded
<1>4. CASE rs = s.eval[1].dynamic
  <2>1. rs = [j \in 1..n |-> TimeOne(Bars(s.cache, s.test[j]), s.test[j], s.best[1].params)]
    BY <1>2, <1>4 DEF IsEvaluated, run_dynamic_timing
  <2> HIDE DEF n
  <2>2. i \in 1..n
    BY <1>3, <2>1
  <2>3. /\ IsTouch(s.test[i]) /\ Bars(s.cache, s.test[i]) \in Seq(Candles) /\ s.best[1].params.max_steps \in Nat
        /\ rs[i] = TimeOne(Bars(s.cache, s.test[i]), s.test[i], s.best[1].params)
    BY <1>1, <1>4, <2>2, EvaluatedOne DEF n
  <2>4. QED
    BY <1>1, <2>3, TimedPays
<1>5. ASSUME NEW delay \in Int, rs = run_baseline(s.test, s.cache, delay) PROVE Pays(rs[i].trade)
  <2>1. rs = [j \in 1..n |-> BaselineOne(Bars(s.cache, s.test[j]), s.test[j], delay)]
    BY <1>5 DEF run_baseline, BaselineOne
  <2> HIDE DEF n
  <2>2. i \in 1..n
    BY <1>3, <2>1
  <2>3. IsTouch(s.test[i]) /\ Bars(s.cache, s.test[i]) \in Seq(Candles)
    BY <1>1, <2>2, EvaluatedOne DEF n
  <2>4. rs[i] = BaselineOne(Bars(s.cache, s.test[i]), s.test[i], delay)
    BY <2>1, <2>2
  <2>5. QED
    BY <1>1, <2>3, <2>4, BaselinePays
<1>6. QED
  BY <1>1, <1>2, <1>4, <1>5 DEF IsEvaluated

\* No walk of simulate_position loses more than the risk of its position and
\* the costs, and a stop moved by the break-even or the trailing rule pays.
THEOREM DynamicProtectedTradesPay == DynamicSpec => []ProtectedTradesPay
<1>1. DynamicInv => ProtectedTradesPay
  BY InvPays
<1>2. QED
  BY <1>1, DynamicInvHolds, PTL

LEMMA InvKeepsBest == DynamicInv => SearchKeepsBest
<1>1. SUFFICES ASSUME DynamicInv, s.at = "evaluate"
               PROVE  /\ s.best[1].score >= s.layer1[1].score
                      /\ \A i \in 1..Len(First) : Score(First[i]) <= s.layer1[1].score
                      /\ LET all == Second(s.layer1[1].params)
                         IN \A i \in 1..Len(all) : Score(all[i]) <= s.best[1].score
  BY DEF SearchKeepsBest, First, Second
<1> DEFINE p == s.layer1[1].params
           all == Second(p)
<1>2. /\ s.env \in Environments /\ IsLoaded(s) /\ s.best # None /\ s.layer1 # None
      /\ SearchInv(s.train, s.cache, Params1, First, << >>, s.layer1)
      /\ SearchInv(s.train, s.cache, Params, all, << >>, s.best)
  BY <1>1 DEF DynamicInv, InvOf, FirstDone, FirstSearch, SecondSearch
<1>3. p \in Params1 /\ s.layer1[1].score = ScoreOf(s.train, s.cache, p)
  BY <1>2 DEF SearchInv, IsKept
<1>4. \A x : ~Has(<< >>, x)
  BY DEF Has
<1>5. \A i \in 1..Len(First) : IsPassed(s.train, s.cache, First[i], s.layer1)
  BY <1>2, <1>4 DEF SearchInv
<1>6. Has(all, p)
  BY <1>3, SecondCombos DEF Second
<1> HIDE DEF all
<1>7. PICK j \in 1..Len(all) : all[j] = p
  BY <1>6 DEF Has
<1>8. \A i \in 1..Len(all) : IsPassed(s.train, s.cache, all[i], s.best)
  BY <1>2, <1>4 DEF SearchInv
<1>9. ScoreOf(s.train, s.cache, p) \in Int /\ s.best[1].score \in Int
  <2>1. s.best[1].params \in Params /\ s.best[1].score = ScoreOf(s.train, s.cache, s.best[1].params)
    BY <1>2 DEF SearchInv, IsKept
  <2>2. QED
    BY <1>2, <1>3, <2>1, DefaultsAreParams, ParamsCount, ScoresAreInts
<1>10. s.best[1].score >= s.layer1[1].score
  <2>1. ScoreOf(s.train, s.cache, p) <= s.best[1].score
    BY <1>7, <1>8 DEF IsPassed
  <2>2. QED
    BY <1>3, <1>9, <2>1
<1>11. \A q : Score(q) = ScoreOf(s.train, s.cache, q)
  BY DEF Score, ScoreOf
<1>12. QED
  BY <1>5, <1>8, <1>10, <1>11 DEF IsPassed, all

\* The grid searches end with the best of what they tried, and the second one,
\* whose lists hold the defaults, with no less than the first.
THEOREM DynamicSearchKeepsBest == DynamicSpec => []SearchKeepsBest
<1>1. DynamicInv => SearchKeepsBest
  BY InvKeepsBest
<1>2. QED
  BY <1>1, DynamicInvHolds, PTL

---------------------------------------------------------------------------
(* What the studies of the delays compute: sums over the silos, the result *)
(* of a delay, the best of some                                            *)

DelaySymbol(id) == IF id[1] \in {"BTC", "ETH"} THEN id[1] ELSE "unknown"
DelaySilo(r) == <<DelaySymbol(r.id), r.entry[1] \div 100>>
DelaySilos(trades) == {DelaySilo(trades[i]) : i \in 1..Len(trades)}

OwnOp(silo, kept, r) == IF DelaySilo(r) = silo THEN Append(kept, r) ELSE kept
OwnFold == INSTANCE FoldFacts WITH Op <- OwnOp

IsEarlier(a, b) == a.entry[1] < b.entry[1]
PutOp(par, sorted, r) ==
  InsertAt(sorted, 1 + Cardinality({i \in 1..Len(sorted) : ~IsEarlier(r, sorted[i])}), r)
PutFold == INSTANCE FoldFacts WITH Op <- PutOp

DelayGain(trades, silo) ==
  GrowFold!Fold(0, START, PutFold!Fold(0, << >>, OwnFold!Run(silo, << >>, trades))) - START
DelaySumOp(trades, sum, silo) == DelayGain(trades, silo) + sum
DelaySumFold == INSTANCE FoldFacts WITH Op <- DelaySumOp
DelayTotal(results) == DelaySumFold!SetFold(Traded(results), 0, DelaySilos(Traded(results)))

LEMMA OwnType == \A S, silo : \A q \in Seq(S) : OwnFold!Run(silo, << >>, q) \in Seq(S)
<1>1. SUFFICES ASSUME NEW S, NEW silo PROVE \A q \in Seq(S) : OwnFold!Run(silo, << >>, q) \in Seq(S)
  OBVIOUS
<1>2. << >> \in Seq(S) /\ \A v \in Seq(S), x \in S : OwnOp(silo, v, x) \in Seq(S)
  BY EmptySeq DEF OwnOp
<1>3. QED
  BY <1>2, OwnFold!FoldType

LEMMA PutType == \A S : \A q \in Seq(S), e \in S : PutOp(0, q, e) \in Seq(S)
<1>1. SUFFICES ASSUME NEW S, NEW q \in Seq(S), NEW e \in S PROVE PutOp(0, q, e) \in Seq(S)
  OBVIOUS
<1> DEFINE n == Len(q)
           D == {i \in 1..n : ~IsEarlier(e, q[i])}
           k == Cardinality(D)
           a == SubSeq(q, 1, (1 + k) - 1)
           b == SubSeq(q, 1 + k, n)
<1>2. k \in 0..n
  <2>1. n \in Nat /\ D \in SUBSET (1..n)
    OBVIOUS
  <2> HIDE DEF D, n
  <2>2. IsFiniteSet(1..n) /\ Cardinality(1..n) = n
    BY <2>1, FS_Interval
  <2>3. IsFiniteSet(D) /\ k <= n
    BY <2>1, <2>2, FS_Subset
  <2>4. k \in Nat
    BY <2>3, FS_CardinalityType
  <2>5. QED
    BY <2>1, <2>3, <2>4
<1>3. PutOp(0, q, e) = a \o <<e>> \o b
  BY DEF PutOp, InsertAt
<1> HIDE DEF k
<1>4. a \in Seq(S) /\ b \in Seq(S) /\ <<e>> \in Seq(S)
  BY <1>2
<1> HIDE DEF a, b
<1> DEFINE c == a \o <<e>>
<1>5. c \in Seq(S)
  BY <1>4
<1>6. PutOp(0, q, e) = c \o b
  BY <1>3
<1> HIDE DEF c
<1>7. c \o b \in Seq(S)
  BY <1>4, <1>5
<1>8. QED
  BY <1>6, <1>7, Zenon

LEMMA SortedType == \A S : \A q \in Seq(S) : PutFold!Fold(0, << >>, q) \in Seq(S)
<1>1. SUFFICES ASSUME NEW S PROVE \A q \in Seq(S) : PutFold!Fold(0, << >>, q) \in Seq(S)
  OBVIOUS
<1>2. << >> \in Seq(S) /\ \A v \in Seq(S), x \in S : PutOp(0, v, x) \in Seq(S)
  BY EmptySeq, PutType
<1>3. QED
  BY <1>2, PutFold!FoldType

\* A result of a delay: it was traded with a return or not at all.
IsDelay(r) == "trade" \in DOMAIN r /\ (r.trade # None => r.trade.realistic \in Int)

LEMMA DelayTotalIsInt == \A S : (\A r \in S : IsDelay(r)) => \A q \in Seq(S) : DelayTotal(q) \in Int
<1>1. SUFFICES ASSUME NEW S, \A r \in S : IsDelay(r), NEW q \in Seq(S) PROVE DelayTotal(q) \in Int
  OBVIOUS
<1> DEFINE K == {b \in S : b.trade # None}
           t == Traded(q)
           D == DelaySilos(t)
<1>2. t \in Seq(K) /\ AreNumbered(K)
  <2>1. t = Sel(K, q)
    BY TradedSelects
  <2>2. S \cap K = K
    OBVIOUS
  <2>3. Sel(K, q) \in Seq(S \cap K)
    BY SelType
  <2>4. AreNumbered(K)
    BY <1>1 DEF IsDelay, AreNumbered
  <2>5. QED
    BY <2>1, <2>2, <2>3, <2>4
<1> HIDE DEF K, t
<1>3. IsFiniteSet(D)
  <2> DEFINE n == Len(t)
             f == [i \in 1..n |-> DelaySilo(t[i])]
  <2>1. n \in Nat
    BY <1>2
  <2>2. IsFiniteSet(1..n)
    BY <2>1, FS_Interval
  <2>3. f \in Surjection(1..n, D)
    BY DEF Surjection, DelaySilos
  <2>4. QED
    BY <2>2, <2>3, FS_Surjection
<1>4. \A v \in Int, silo \in D : DelaySumOp(t, v, silo) \in Int
  <2>1. SUFFICES ASSUME NEW v \in Int, NEW silo \in D PROVE DelaySumOp(t, v, silo) \in Int
    OBVIOUS
  <2> DEFINE own == OwnFold!Run(silo, << >>, t)
             sorted == PutFold!Fold(0, << >>, own)
  <2>2. own \in Seq(K)
    BY <1>2, OwnType
  <2> HIDE DEF own
  <2>3. sorted \in Seq(K)
    BY <2>2, SortedType
  <2> HIDE DEF sorted
  <2>4. GrowFold!Fold(0, START, sorted) \in Int
    BY <1>2, <2>3, GrownIsInt
  <2>5. QED
    BY <2>4 DEF DelaySumOp, DelayGain, START, own, sorted
<1> HIDE DEF D
<1>5. DelaySumFold!IsFiniteSet(D)
  BY <1>3, Zenon DEF IsFiniteSet, DelaySumFold!IsFiniteSet
<1>6. 0 \in Int
  OBVIOUS
<1>7. DelaySumFold!SetFold(t, 0, D) \in Int
  BY <1>4, <1>5, <1>6, DelaySumFold!SetFoldType
<1>8. QED
  BY <1>7 DEF DelayTotal, D, t

\* The result of a label among the results of an event.
SameOp(label, kept, r) == IF r.label = label THEN Append(kept, r) ELSE kept
SameFold == INSTANCE FoldFacts WITH Op <- SameOp
FoundDelay(results, label) ==
  LET same == SameFold!Run(label, << >>, results)
  IN IF same = << >> THEN [Head(results) EXCEPT !.label = label, !.entry = None, !.delay = 0,
                                                !.reason = "NoMatch", !.trade = None]
     ELSE Head(same)

LEMMA FoundIsDelay ==
  \A R : (\A r \in R : IsDelay(r)) => \A q \in Seq(R) : q # << >> => \A label : IsDelay(FoundDelay(q, label))
<1>1. SUFFICES ASSUME NEW R, \A r \in R : IsDelay(r), NEW q \in Seq(R), q # << >>, NEW label
               PROVE  IsDelay(FoundDelay(q, label))
  OBVIOUS
<1> DEFINE same == SameFold!Run(label, << >>, q)
           none == [Head(q) EXCEPT !.label = label, !.entry = None, !.delay = 0, !.reason = "NoMatch", !.trade = None]
<1>2. same \in Seq(R)
  <2>1. << >> \in Seq(R) /\ \A v \in Seq(R), x \in R : SameOp(label, v, x) \in Seq(R)
    BY EmptySeq DEF SameOp
  <2>2. QED
    BY <2>1, SameFold!FoldType
<1>3. FoundDelay(q, label) = IF same = << >> THEN none ELSE Head(same)
  BY DEF FoundDelay
<1>4. IsDelay(Head(q))
  <2>1. Head(q) \in R
    BY <1>1
  <2>2. QED
    BY <1>1, <2>1
<1> HIDE DEF same
<1>5. CASE same = << >>
  <2>1. "trade" \in DOMAIN none /\ none.trade = None
    BY <1>4 DEF IsDelay, None
  <2> HIDE DEF none
  <2>2. QED
    BY <1>3, <1>5, <2>1 DEF IsDelay
<1>6. CASE same # << >>
  <2>1. Head(same) \in R
    BY <1>2, <1>6
  <2>2. QED
    BY <1>1, <1>3, <1>6, <2>1
<1>7. QED
  BY <1>5, <1>6

\* The results of the events, each with its delays.
AreDelays(results) ==
  /\ Len(results) \in Nat
  /\ \A i \in 1..Len(results) :
       \E R : results[i] \in Seq(R) /\ results[i] # << >> /\ \A r \in R : IsDelay(r)

LEMMA TotalOf ==
  ASSUME NEW n \in Nat, NEW q, q = [i \in 1..n |-> q[i]], \A i \in 1..n : IsDelay(q[i])
  PROVE  DelayTotal(q) \in Int
<1> DEFINE S == {q[i] : i \in 1..n}
<1>1. q \in Seq(S) /\ \A r \in S : IsDelay(r)
  <2>1. q \in [1..n -> S]
    OBVIOUS
  <2>2. \A r \in S : IsDelay(r)
    OBVIOUS
  <2> HIDE DEF S
  <2>3. QED
    BY <2>1, <2>2
<1> HIDE DEF S
<1>2. QED
  BY <1>1, DelayTotalIsInt

LEMMA CollectedIsInt ==
  ASSUME NEW results, NEW labels, NEW n \in Nat, AreDelays(results), n <= Len(results)
  PROVE  DelayTotal([i \in 1..n |-> FoundDelay(results[i], labels[i])]) \in Int
<1> DEFINE q == [i \in 1..n |-> FoundDelay(results[i], labels[i])]
<1>1. ASSUME NEW i \in 1..n PROVE IsDelay(q[i])
  <2>1. i \in 1..Len(results)
    BY DEF AreDelays
  <2>2. PICK R : results[i] \in Seq(R) /\ results[i] # << >> /\ \A r \in R : IsDelay(r)
    BY <2>1 DEF AreDelays
  <2>3. IsDelay(FoundDelay(results[i], labels[i]))
    BY <2>2, FoundIsDelay
  <2>4. QED
    BY <2>3
<1>2. q = [i \in 1..n |-> q[i]]
  OBVIOUS
<1> HIDE DEF q
<1>3. DelayTotal(q) \in Int
  BY <1>1, <1>2, TotalOf
<1>4. QED
  BY <1>3 DEF q

PlacesUpTo(n) == [i \in 1..n |-> i]

LEMMA PlacesType == \A n \in Nat : PlacesUpTo(n) \in Seq(1..n)
BY DEF PlacesUpTo

LEMMA DelaysAt ==
  ASSUME NEW results, AreDelays(results), NEW idx \in Seq(1..Len(results))
  PROVE  LET q == [k \in 1..Len(idx) |-> results[idx[k]]] IN AreDelays(q) /\ Len(q) = Len(idx)
<1> DEFINE q == [k \in 1..Len(idx) |-> results[idx[k]]]
<1>1. Len(idx) \in Nat /\ \A k \in 1..Len(idx) : idx[k] \in 1..Len(results)
  OBVIOUS
<1>2. Len(q) = Len(idx) /\ \A k \in 1..Len(idx) : q[k] = results[idx[k]]
  BY <1>1
<1> HIDE DEF q
<1>3. AreDelays(q)
  BY <1>1, <1>2 DEF AreDelays
<1>4. QED
  BY <1>2, <1>3 DEF q


\* Of some numbers one is the largest.
LEMMA LargestOfSome ==
  ASSUME NEW n \in Nat, NEW v, \A i \in 1..n : v[i] \in Int, NEW J \in SUBSET (1..n), J # {}
  PROVE  \E j \in J : \A k \in J : v[k] <= v[j]
<1> DEFINE T == {m \in Nat : m <= n => \A I \in SUBSET (1..m) : I # {} => \E j \in I : \A k \in I : v[k] <= v[j]}
<1>1. 0 \in T
  <2>1. \A I \in SUBSET (1..0) : I = {}
    OBVIOUS
  <2>2. QED
    BY <2>1
<1>2. ASSUME NEW m \in Nat, m \in T PROVE m + 1 \in T
  <2>1. SUFFICES ASSUME m + 1 <= n, NEW I \in SUBSET (1..(m + 1)), I # {}
                 PROVE  \E j \in I : \A k \in I : v[k] <= v[j]
    OBVIOUS
  <2>2. \A i \in I : v[i] \in Int
    BY <2>1
  <2>3. CASE m + 1 \notin I
    <3>1. I \in SUBSET (1..m)
      BY <2>3
    <3>2. QED
      BY <1>2, <2>1, <3>1
  <2>4. CASE m + 1 \in I /\ I \ {m + 1} = {}
    <3>1. \A k \in I : k = m + 1
      BY <2>4
    <3>2. \A k \in I : v[k] <= v[m + 1]
      BY <2>2, <3>1
    <3>3. QED
      BY <2>4, <3>2
  <2>5. CASE m + 1 \in I /\ I \ {m + 1} # {}
    <3> DEFINE L == I \ {m + 1}
    <3>1. L \in SUBSET (1..m) /\ L # {}
      BY <2>5
    <3>2. PICK j \in L : \A k \in L : v[k] <= v[j]
      <4> HIDE DEF L
      <4>1. QED
        BY <1>2, <2>1, <3>1
    <3>3. CASE v[m + 1] <= v[j]
      <4>1. j \in I /\ \A k \in I : v[k] <= v[j]
        BY <3>2, <3>3
      <4>2. QED
        BY <4>1
    <3>4. CASE ~(v[m + 1] <= v[j])
      <4>1. \A k \in I : v[k] <= v[m + 1]
        BY <2>2, <2>5, <3>2, <3>4
      <4>2. QED
        BY <2>5, <4>1
    <3>5. QED
      BY <3>3, <3>4
  <2>6. QED
    BY <2>3, <2>4, <2>5
<1> HIDE DEF T
<1>3. \A m \in Nat : m \in T
  BY <1>1, <1>2, Select!Induction
<1>4. QED
  BY <1>3 DEF T

OwnedOp(delays, kept, r) == IF r.label \in delays /\ r.trade # None THEN Append(kept, r) ELSE kept
OwnedFold == INSTANCE FoldFacts WITH Op <- OwnedOp

EarnedOp(top, kept, r) == IF r.trade.realistic = top THEN Append(kept, r) ELSE kept
EarnedFold == INSTANCE FoldFacts WITH Op <- EarnedOp

LEMMA OwnedSelects ==
  \A S, delays : \A q \in Seq(S) :
    OwnedFold!Run(delays, << >>, q) = Sel({b \in S : b.label \in delays /\ b.trade # None}, q)
<1>1. SUFFICES ASSUME NEW S, NEW delays
               PROVE  \A q \in Seq(S) : OwnedFold!Run(delays, << >>, q)
                                          = Sel({b \in S : b.label \in delays /\ b.trade # None}, q)
  OBVIOUS
<1> DEFINE K == {b \in S : b.label \in delays /\ b.trade # None}
           F == [q \in Seq(S) |-> OwnedFold!Run(delays, << >>, q)]
<1>2. Keeps(F, K, S)
  <2>1. F[<< >>] = << >>
    BY OwnedFold!RunEmpty
  <2>2. \A q \in Seq(S), x \in S : F[Append(q, x)] = IF x \in K THEN Append(F[q], x) ELSE F[q]
    BY OwnedFold!RunAppend DEF OwnedOp
  <2> HIDE DEF F, K
  <2>3. QED
    BY <2>1, <2>2 DEF Keeps
<1>3. \A q \in Seq(S) : F[q] = OwnedFold!Run(delays, << >>, q)
  OBVIOUS
<1> HIDE DEF F, K
<1>4. QED
  BY <1>2, <1>3, FilterIsSel DEF K

LEMMA EarnedSelects ==
  \A S, top : \A q \in Seq(S) : EarnedFold!Run(top, << >>, q) = Sel({b \in S : b.trade.realistic = top}, q)
<1>1. SUFFICES ASSUME NEW S, NEW top
               PROVE  \A q \in Seq(S) : EarnedFold!Run(top, << >>, q) = Sel({b \in S : b.trade.realistic = top}, q)
  OBVIOUS
<1> DEFINE K == {b \in S : b.trade.realistic = top}
           F == [q \in Seq(S) |-> EarnedFold!Run(top, << >>, q)]
<1>2. Keeps(F, K, S)
  <2>1. F[<< >>] = << >>
    BY EarnedFold!RunEmpty
  <2>2. \A q \in Seq(S), x \in S : F[Append(q, x)] = IF x \in K THEN Append(F[q], x) ELSE F[q]
    BY EarnedFold!RunAppend DEF EarnedOp
  <2> HIDE DEF F, K
  <2>3. QED
    BY <2>1, <2>2 DEF Keeps
<1>3. \A q \in Seq(S) : F[q] = EarnedFold!Run(top, << >>, q)
  OBVIOUS
<1> HIDE DEF F, K
<1>4. QED
  BY <1>2, <1>3, FilterIsSel DEF K

\* Where nothing is in the set, nothing is kept.
LEMMA SelNone == \A K, R : \A q \in Seq(R) : (\A z \in 1..Len(q) : q[z] \notin K) => Sel(K, q) = << >>
<1>1. SUFFICES ASSUME NEW K, NEW R
               PROVE  \A q \in Seq(R) : (\A z \in 1..Len(q) : q[z] \notin K) => Sel(K, q) = << >>
  OBVIOUS
<1> DEFINE T == {a \in Seq(R) : (\A z \in 1..Len(a) : a[z] \notin K) => Sel(K, a) = << >>}
<1>2. << >> \in T
  BY EmptySeq, SelEmpty
<1>3. ASSUME NEW a \in Seq(R), NEW x \in R, a \in T PROVE Append(a, x) \in T
  <2>1. Append(a, x) \in Seq(R)
    OBVIOUS
  <2>2. Sel(K, Append(a, x)) = IF x \in K THEN Append(Sel(K, a), x) ELSE Sel(K, a)
    BY SelAppend
  <2>3. SUFFICES ASSUME \A z \in 1..Len(Append(a, x)) : Append(a, x)[z] \notin K
                 PROVE  Sel(K, Append(a, x)) = << >>
    BY <2>1, Zenon
  <2>4. /\ Len(Append(a, x)) = Len(a) + 1 /\ Append(a, x)[Len(a) + 1] = x /\ Len(a) \in Nat
        /\ \A z \in 1..Len(a) : Append(a, x)[z] = a[z]
    OBVIOUS
  <2>5. x \notin K /\ \A z \in 1..Len(a) : a[z] \notin K
    BY <2>3, <2>4
  <2>6. QED
    BY <1>3, <2>2, <2>5
<1> HIDE DEF T
<1>4. \A a \in Seq(R) : a \in T
  BY <1>2, <1>3, Select!SeqInduction
<1>5. QED
  BY <1>4 DEF T

\* One more value has a largest one, too.
LEMMA LargestStep ==
  ASSUME NEW n \in Nat, NEW v, \A i \in 1..(n + 1) : v[i] \in Int,
         \E i \in 1..n : \A j \in 1..n : v[j] <= v[i]
  PROVE  \E i \in 1..(n + 1) : \A j \in 1..(n + 1) : v[j] <= v[i]
<1>1. PICK i \in 1..n : \A j \in 1..n : v[j] <= v[i]
  OBVIOUS
<1>2. CASE v[n + 1] <= v[i]
  <2>1. i \in 1..(n + 1) /\ \A j \in 1..(n + 1) : v[j] <= v[i]
    BY <1>1, <1>2
  <2>2. QED
    BY <2>1
<1>3. CASE ~(v[n + 1] <= v[i])
  <2>1. n + 1 \in 1..(n + 1) /\ \A j \in 1..(n + 1) : v[j] <= v[n + 1]
    BY <1>1, <1>3
  <2>2. QED
    BY <2>1
<1>4. QED
  BY <1>2, <1>3

\* Of up to six numbers one is the largest.
LEMMA LargestOfSix ==
  ASSUME NEW n \in 1..6, NEW v, \A i \in 1..n : v[i] \in Int
  PROVE  \E i \in 1..n : \A j \in 1..n : v[j] <= v[i]
<1> DEFINE P(m) == \E i \in 1..m : \A j \in 1..m : v[j] <= v[i]
<1>1. P(1)
  <2>1. 1 \in 1..1 /\ \A j \in 1..1 : v[j] <= v[1]
    OBVIOUS
  <2>2. QED
    BY <2>1
<1>2. \A m \in 1..5 : m + 1 <= n /\ P(m) => P(m + 1)
  <2>1. SUFFICES ASSUME NEW m \in 1..5, m + 1 <= n, P(m) PROVE P(m + 1)
    OBVIOUS
  <2>2. m \in Nat /\ \A i \in 1..(m + 1) : v[i] \in Int
    BY <2>1
  <2>3. QED
    BY <2>1, <2>2, LargestStep
<1> HIDE DEF P
<1>3. /\ 2 <= n => P(2)
      /\ 3 <= n => P(3)
      /\ 4 <= n => P(4)
      /\ 5 <= n => P(5)
      /\ 6 <= n => P(6)
  <2>1. 2 <= n => P(2)
    BY <1>1, <1>2
  <2>2. 3 <= n => P(3)
    BY <2>1, <1>2
  <2>3. 4 <= n => P(4)
    BY <2>2, <1>2
  <2>4. 5 <= n => P(5)
    BY <2>3, <1>2
  <2>5. 6 <= n => P(6)
    BY <2>4, <1>2
  <2>6. QED
    BY <2>1, <2>2, <2>3, <2>4, <2>5
<1>4. P(n)
  BY <1>1, <1>3
<1>5. QED
  BY <1>4 DEF P
=============================================================================
