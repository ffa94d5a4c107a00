---------------------------- MODULE TimingProofs ----------------------------
(***************************************************************************)
(* Three of the timing studies, for all environments, learners and sizes:  *)
(* the checks of pretouch_refinement repeat the arm that was judged, the   *)
(* learner pre_breakout_timing takes is the best it tried, and the dynamic *)
(* study keeps its promises among the others.  PathProofs has the fourth.  *)
(***************************************************************************)
EXTENDS TimingStudies, DynamicProofs, TLAPS

---------------------------------------------------------------------------
(* The sums of the studies of the delays are numbers                       *)

LEMMA PreTraded == \A results : Pre!Traded(results) = Traded(results)
BY DEF Pre!Traded, Pre!Where, Pre!None, Traded, Where, None

LEMMA RefineTraded == \A results : Refine!Traded(results) = Traded(results)
BY DEF Refine!Traded, Refine!Where, Refine!None, Traded, Where, None

LEMMA PreSum == \A results : Pre!compute_calendar_sum(results) = DelayTotal(results)
<1>1. \A t : Pre!SumOver(t, LAMBDA r : Pre!infer_symbol_from_event_id(r.id))
               = DelaySumFold!SetFold(t, 0, DelaySilos(t))
  BY SMTT(60) DEF Pre!SumOver, Pre!SiloReturn, Pre!MapThenSumSet, Pre!MapThenFoldSet, Pre!Where,
         Pre!FoldLeft, Pre!Max, Pre!PutIn, Pre!Earlier, Pre!InsertAt, Pre!Cardinality, Pre!IsFiniteSet, Pre!Grow,
         Pre!Exec, Pre!DEFAULT_EXEC_PARAMS, Pre!START, Pre!infer_symbol_from_event_id,
         Grow, Exec, DEFAULT_EXEC_PARAMS, START, InsertAt, Cardinality, IsFiniteSet,
         DelaySumOp, DelaySumFold!SetFold, DelaySumFold!Some, DelayGain, DelaySilos, DelaySilo, DelaySymbol,
         OwnOp, OwnFold!Run, PutOp, IsEarlier, PutFold!Fold, PutFold!Largest, GrowOp, GrowFold!Fold, GrowFold!Largest
<1>2. QED
  BY <1>1, PreTraded, Zenon DEF Pre!compute_calendar_sum, DelayTotal

LEMMA RefineSum == \A results : Refine!compute_calendar_sum(results) = DelayTotal(results)
<1>1. \A t : Refine!SumOver(t, LAMBDA r : Refine!infer_symbol_from_event_id(r.id))
               = DelaySumFold!SetFold(t, 0, DelaySilos(t))
  BY SMTT(60) DEF Refine!SumOver, Refine!SiloReturn, Refine!MapThenSumSet, Refine!MapThenFoldSet, Refine!Where,
         Refine!FoldLeft, Refine!Max, Refine!PutIn, Refine!Earlier, Refine!InsertAt, Refine!Cardinality,
         Refine!IsFiniteSet, Refine!Grow, Refine!Exec, Refine!DEFAULT_EXEC_PARAMS, Refine!START,
         Refine!infer_symbol_from_event_id,
         Grow, Exec, DEFAULT_EXEC_PARAMS, START, InsertAt, Cardinality, IsFiniteSet,
         DelaySumOp, DelaySumFold!SetFold, DelaySumFold!Some, DelayGain, DelaySilos, DelaySilo, DelaySymbol,
         OwnOp, OwnFold!Run, PutOp, IsEarlier, PutFold!Fold, PutFold!Largest, GrowOp, GrowFold!Fold, GrowFold!Largest
<1>2. QED
  BY <1>1, RefineTraded, Zenon DEF Refine!compute_calendar_sum, DelayTotal

LEMMA PreFound == \A results, label : Pre!find_delay_result(results, label) = FoundDelay(results, label)
BY DEF Pre!find_delay_result, Pre!Where, Pre!None, None, FoundDelay, SameOp, SameFold!Run

LEMMA RefineFound == \A results, label : Refine!find_delay_result(results, label) = FoundDelay(results, label)
BY DEF Refine!find_delay_result, Refine!Where, Refine!None, None, FoundDelay, SameOp, SameFold!Run

LEMMA PreLeftOutIsInt ==
  ASSUME NEW rule, NEW X, NEW y, NEW results, Len(y) \in Nat, AreDelays(results), Len(y) <= Len(results)
  PROVE  Pre!loocv_calendar_sum_inline(rule, X, y, results) \in Int
<1> DEFINE n == Len(y)
           labels == [i \in 1..n |-> Pre!predict(rule, Pre!RemoveAt(X, i), Pre!RemoveAt(y, i), X[i])]
<1>1. Pre!loocv_calendar_sum_inline(rule, X, y, results)
        = Pre!compute_calendar_sum(Pre!collect_results_from_predictions(labels, results))
  BY DEF Pre!loocv_calendar_sum_inline
<1>2. Len(labels) = n
  OBVIOUS
<1> HIDE DEF labels, n
<1>3. Pre!collect_results_from_predictions(labels, results) = [i \in 1..n |-> FoundDelay(results[i], labels[i])]
  BY <1>2, PreFound DEF Pre!collect_results_from_predictions
<1>4. DelayTotal([i \in 1..n |-> FoundDelay(results[i], labels[i])]) \in Int
  BY CollectedIsInt DEF n
<1>5. QED
  BY <1>1, <1>3, <1>4, PreSum

LEMMA RefineLeftOutIsInt ==
  ASSUME NEW rule, NEW X, NEW y, NEW results, Len(y) \in Nat, AreDelays(results), Len(y) <= Len(results)
  PROVE  Refine!loocv_calendar_sum_inline(rule, X, y, results) \in Int
<1> DEFINE n == Len(y)
           labels == [i \in 1..n |-> Refine!predict(rule, Refine!RemoveAt(X, i), Refine!RemoveAt(y, i), X[i])]
<1>1. Refine!loocv_calendar_sum_inline(rule, X, y, results)
        = Refine!compute_calendar_sum(Refine!collect_results_from_predictions(labels, results))
  BY DEF Refine!loocv_calendar_sum_inline
<1>2. Len(labels) = n
  OBVIOUS
<1> HIDE DEF labels, n
<1>3. Refine!collect_results_from_predictions(labels, results) = [i \in 1..n |-> FoundDelay(results[i], labels[i])]
  BY <1>2, RefineFound DEF Refine!collect_results_from_predictions
<1>4. DelayTotal([i \in 1..n |-> FoundDelay(results[i], labels[i])]) \in Int
  BY CollectedIsInt DEF n
<1>5. QED
  BY <1>1, <1>3, <1>4, RefineSum


PreWalkOp(par, acc, bar) == Pre!WalkBar(acc, bar)
PreWalkFold == INSTANCE FoldFacts WITH Op <- PreWalkOp

LEMMA PreExec == Pre!Exec = Exec
BY DEF Pre!Exec, Exec, Pre!DEFAULT_EXEC_PARAMS, DEFAULT_EXEC_PARAMS

LEMMA PreExit == \A pos, raw, time, reason : Pre!make_exit(pos, raw, time, reason) = make_exit(pos, raw, time, reason)
BY PreExec DEF Pre!make_exit, make_exit

LEMMA PreMax == \A S : Pre!Max(S) = Max(S) /\ Pre!Min(S) = Min(S)
BY DEF Pre!Max, Pre!Min, Max, Min

LEMMA PreProtect == \A pos : Pre!Protect(pos) = Protect(pos)
BY PreExec DEF Pre!Protect, Protect

LEMMA PreTrail == \A pos : Pre!Trail(pos) = Trail(pos)
BY PreExec DEF Pre!Trail, Trail

LEMMA PreMoved == \A pos, bar : Pre!Moved(pos, bar) = Moved(pos, bar)
BY PreProtect, PreTrail, PreMax DEF Pre!Moved, Moved, Pre!Favourable, Favourable

LEMMA PreStopped == \A pos, bar : Pre!Stopped(pos, bar) = Stopped(pos, bar)
BY PreExit DEF Pre!Stopped, Stopped, Pre!StopReason, StopReason, Pre!Adverse, Adverse, Pre!None, None

LEMMA PreWalkBar == \A acc, bar : Pre!WalkBar(acc, bar) = WalkBar(acc, bar)
BY PreMoved, PreStopped DEF Pre!WalkBar, WalkBar, Pre!None, None

LEMMA PreOpen == \A e, at, price : Pre!open_position(e, at, price) = open_position(e, at, price)
<1>1. SUFFICES ASSUME NEW e, NEW at, NEW price PROVE Pre!open_position(e, at, price) = open_position(e, at, price)
  OBVIOUS
<1>2. \A n : Pre!Atr(n, e) = Atr(n, e)
  BY DEF Pre!Atr, Atr
<1>3. Pre!Dir(e.side) = Dir(e.side) /\ Pre!None = None
  BY DEF Pre!Dir, Dir, Pre!None, None
<1> DEFINE entry == Dir(e.side) * price + Exec.slippage
           edge == IF e.side = "long" THEN e.low ELSE -e.high
           raw == Min({edge - Atr(Exec.stop_buffer_atr, e), entry - Atr(Exec.initial_stop_atr, e)})
           stop == Max({raw, entry - Atr(Exec.stop_cap_atr, e)})
           Held(way, en, st, risk, buffer) ==
             [side |-> e.side, at |-> at, raw |-> way * price, entry |-> en, sl |-> st, risk |-> risk,
              buffer |-> buffer, best |-> en, protected |-> FALSE, trailing |-> FALSE]
           Given(way, en, st, risk, least, buffer, none) ==
             IF risk <= 0 \/ risk < least THEN none ELSE Held(way, en, st, risk, buffer)
           pentry == Pre!Dir(e.side) * price + Pre!Exec.slippage
           praw == Pre!Min({edge - Pre!Atr(Pre!Exec.stop_buffer_atr, e), pentry - Pre!Atr(Pre!Exec.initial_stop_atr, e)})
           pstop == Pre!Max({praw, pentry - Pre!Atr(Pre!Exec.stop_cap_atr, e)})
<1>4. open_position(e, at, price)
        = Given(Dir(e.side), entry, stop, entry - stop, Exec.min_stop_bps, Atr(Exec.trail_buffer_atr, e), None)
  BY Zenon DEF open_position
<1>5. Pre!open_position(e, at, price)
        = Given(Pre!Dir(e.side), pentry, pstop, pentry - pstop, Pre!Exec.min_stop_bps,
                 Pre!Atr(Pre!Exec.trail_buffer_atr, e), Pre!None)
  BY Zenon DEF Pre!open_position
<1> HIDE DEF Given
<1>6. pentry = entry
  BY <1>3, PreExec
<1> HIDE DEF entry, pentry
<1>7. praw = raw
  BY <1>2, <1>6, PreExec, PreMax
<1> HIDE DEF raw, praw
<1>8. pstop = stop
  BY <1>2, <1>6, <1>7, PreExec, PreMax
<1> HIDE DEF stop, pstop
<1>9. QED
  BY <1>2, <1>3, <1>4, <1>5, <1>6, <1>8, PreExec

LEMMA PreClose == \A done, window : Pre!Close(done, window) = Close(done, window)
BY PreExit DEF Pre!Close, Close, Pre!Dir, Dir, Pre!Last, Last, Pre!None, None

LEMMA PreBetween == \A bars, lo, hi : Pre!Between(bars, lo, hi) = Between(bars, lo, hi)
BY DEF Pre!Between, Between, Pre!Where, Where

LEMMA PreWalked ==
  \A pos, S : \A q \in Seq(S) : PreWalkFold!Fold(0, WalkStart(pos), q) = Walked(pos, q)
<1>1. SUFFICES ASSUME NEW pos, NEW S
               PROVE  \A q \in Seq(S) : PreWalkFold!Fold(0, WalkStart(pos), q) = Walked(pos, q)
  OBVIOUS
<1> DEFINE P(q) == PreWalkFold!Fold(0, WalkStart(pos), q)
           W(q) == Walked(pos, q)
           T == {q \in Seq(S) : P(q) = W(q)}
<1>2. P(<< >>) = W(<< >>)
  BY PreWalkFold!FoldEmpty, WalkFold!FoldEmpty DEF Walked
<1>3. \A q \in Seq(S), x \in S : P(Append(q, x)) = Pre!WalkBar(P(q), x) /\ W(Append(q, x)) = WalkBar(W(q), x)
  BY PreWalkFold!FoldAppend, WalkFold!FoldAppend DEF PreWalkOp, WalkOp, Walked
<1> HIDE DEF P, W
<1>4. << >> \in T
  BY <1>2, EmptySeq
<1>5. ASSUME NEW q \in Seq(S), NEW x \in S, q \in T PROVE Append(q, x) \in T
  BY <1>3, <1>5, PreWalkBar
<1> HIDE DEF T
<1>6. \A q \in Seq(S) : q \in T
  BY <1>4, <1>5, Select!SeqInduction
<1>7. QED
  BY <1>6 DEF T, P, W

LEMMA PreWalk == \A pos : \A window \in Seq(Candles) : Pre!Walk(pos, window) = Walk(pos, window)
<1>1. SUFFICES ASSUME NEW pos, NEW window \in Seq(Candles) PROVE Pre!Walk(pos, window) = Walk(pos, window)
  OBVIOUS
<1>2. CASE window = << >>
  BY <1>2, PreExit DEF Pre!Walk, Walk
<1>3. CASE window # << >>
  <2>1. Pre!Walk(pos, window) = Pre!Close(PreWalkFold!Fold(0, WalkStart(pos), window), window)
    BY <1>3 DEF Pre!Walk, WalkStart, Pre!FoldLeft, Pre!MapThenFoldSet, Pre!Max, PreWalkOp, PreWalkFold!Fold,
                PreWalkFold!Largest, Pre!None, None
  <2>2. QED
    BY <1>3, <2>1, PreWalked, PreClose, WalkIsFold
<1>4. QED
  BY <1>2, <1>3

LEMMA PreTrade ==
  \A bars \in Seq(Candles) : \A e, at, price : Pre!execute_trade(bars, e, at, price) = execute_trade(bars, e, at, price)
<1>1. \A bars \in Seq(Candles) : \A pos : Pre!simulate_position(pos, bars) = simulate_position(pos, bars)
  BY BetweenType, PreBetween, PreWalk DEF Pre!simulate_position, simulate_position, Pre!None, None
<1>2. QED
  BY <1>1, PreOpen DEF Pre!execute_trade, execute_trade

LEMMA PreBars == \A cache, e : Pre!Bars(cache, e) = Bars(cache, e)
BY DEF Pre!Bars, Pre!Key, Bars, Key

LEMMA PreFirst == \A bars, time : Pre!FirstFrom(bars, time) = FirstFrom(bars, time)
BY DEF Pre!FirstFrom, Pre!From, Pre!Where, Pre!None, FirstFrom, From, Where, None

LEMMA PreEnterIsDelay ==
  \A bars \in Seq(Candles) : \A e, label, bar :
    IsTouch(e) /\ (bar # None => bar[1] \in Candles) => IsDelay(Pre!Enter(e, bars, label, bar))
<1>1. SUFFICES ASSUME NEW bars \in Seq(Candles), NEW e, NEW label, NEW bar, IsTouch(e), bar # None => bar[1] \in Candles
               PROVE  IsDelay(Pre!Enter(e, bars, label, bar))
  OBVIOUS
<1>2. CASE bar = None
  <2>1. Pre!Enter(e, bars, label, bar) = Pre!DelayResult(e, label, Pre!None, "NoData", Pre!None)
    BY <1>2 DEF Pre!Enter, Pre!None, None
  <2> DEFINE r == Pre!DelayResult(e, label, Pre!None, "NoData", Pre!None)
  <2>2. "trade" \in DOMAIN r /\ r.trade = None
    BY DEF Pre!DelayResult, Pre!None, None
  <2> HIDE DEF r
  <2>3. IsDelay(r)
    BY <2>2 DEF IsDelay
  <2>4. QED
    BY <2>1, <2>3 DEF r
<1>3. CASE bar # None
  <2> DEFINE t == execute_trade(bars, e, bar[1].t, bar[1].c)
             why == IF t = Pre!None THEN "MinStopFilter" ELSE t.reason
             r == Pre!DelayResult(e, label, <<bar[1].t, bar[1].c>>, why, t)
  <2>1. Pre!Enter(e, bars, label, bar) = r
    BY <1>3, PreTrade DEF Pre!Enter, Pre!Filled, Pre!None, None
  <2>2. bar[1].t \in Int /\ bar[1].c \in Int
    BY <1>1, <1>3 DEF Candles
  <2>3. t # None => t.realistic \in Int
    BY <1>1, <2>2, TradePays DEF Pays
  <2> HIDE DEF t, why
  <2>4. "trade" \in DOMAIN r /\ r.trade = t
    BY DEF Pre!DelayResult
  <2> HIDE DEF r
  <2>5. QED
    BY <2>1, <2>3, <2>4 DEF IsDelay
<1>4. QED
  BY <1>2, <1>3


\* The bars of the window a pullback is reached at: par is the reference
\* bar, the event and the target.
HitOp(par, kept, b) ==
  IF 100 * (Pre!Dir(par[2].side) * par[1].c - Pre!Adverse(b, par[2].side)) >= par[3] * par[2].atr
  THEN Append(kept, b) ELSE kept
HitFold == INSTANCE FoldFacts WITH Op <- HitOp
Hits(e, window, target) == HitFold!Run(<<Head(window), e, target>>, << >>, window)

LEMMA HitsIsFold ==
  \A e, window, target :
    Pre!Pulled(e, window, target).bar
      = IF Hits(e, window, target) # << >> THEN <<Head(Hits(e, window, target))>> ELSE <<Last(window)>>
<1>1. SUFFICES ASSUME NEW e, NEW window, NEW target
               PROVE  Pre!Pulled(e, window, target).bar
                        = IF Hits(e, window, target) # << >> THEN <<Head(Hits(e, window, target))>> ELSE <<Last(window)>>
  OBVIOUS
<1> DEFINE par == <<Head(window), e, target>>
           Deep(b) == 100 * (Pre!Dir(e.side) * Head(window).c - Pre!Adverse(b, e.side)) >= target * e.atr
           hits == Pre!Where(window, Deep)
           hit == <<Head(hits)>>
           last == <<Pre!Last(window)>>
<1>2. par[1] = Head(window) /\ par[2] = e /\ par[3] = target
  OBVIOUS
<1> HIDE DEF par
<1>3. hits = HitFold!Run(par, << >>, window)
  BY <1>2 DEF Pre!Where, HitOp, HitFold!Run
<1>4. Pre!Pulled(e, window, target)
        = IF hits # << >> THEN [bar |-> hit, triggered |-> TRUE] ELSE [bar |-> last, triggered |-> FALSE]
  BY Zenon DEF Pre!Pulled
<1> HIDE DEF hits, hit, last
<1>5. Pre!Pulled(e, window, target).bar = IF hits # << >> THEN hit ELSE last
  BY <1>4
<1>6. hits = Hits(e, window, target) /\ last = <<Last(window)>>
  BY <1>3 DEF Hits, par, last, Last, Pre!Last
<1>7. QED
  BY <1>5, <1>6 DEF hit

LEMMA PrePulledIsBar ==
  \A bars \in Seq(Candles) : \A e, target, width :
    LET at == Pre!simulate_pullback_entry(e, bars, target, width).bar IN at # None => at[1] \in Candles
<1>1. SUFFICES ASSUME NEW bars \in Seq(Candles), NEW e, NEW target, NEW width,
                      Pre!simulate_pullback_entry(e, bars, target, width).bar # None
               PROVE  Pre!simulate_pullback_entry(e, bars, target, width).bar[1] \in Candles
  OBVIOUS
<1> DEFINE at == Pre!simulate_pullback_entry(e, bars, target, width).bar
           w == Between(bars, e.touch + Step, e.touch + Step + width)
           hits == Hits(e, w, target)
<1>2. at = Pre!PulledIn(e, w, target).bar
  BY PreBetween DEF Pre!simulate_pullback_entry
<1>3. w \in Seq(Candles)
  BY BetweenType
<1> HIDE DEF w
<1>4. w # << >> /\ at = Pre!Pulled(e, w, target).bar
  BY <1>1, <1>2 DEF Pre!PulledIn, Pre!None, None
<1>5. hits \in Seq(Candles)
  <2> DEFINE par == <<Head(w), e, target>>
  <2>1. << >> \in Seq(Candles) /\ \A v \in Seq(Candles), x \in Candles : HitOp(par, v, x) \in Seq(Candles)
    <3>1. << >> \in Seq(Candles)
      BY EmptySeq
    <3> HIDE DEF par
    <3>2. \A v \in Seq(Candles), x \in Candles : HitOp(par, v, x) = Append(v, x) \/ HitOp(par, v, x) = v
      BY DEF HitOp
    <3>3. \A v \in Seq(Candles), x \in Candles : Append(v, x) \in Seq(Candles)
      OBVIOUS
    <3>4. QED
      BY <3>1, <3>2, <3>3
  <2> HIDE DEF par
  <2>2. HitFold!Run(par, << >>, w) \in Seq(Candles)
    BY <1>3, <2>1, HitFold!FoldType
  <2>3. QED
    BY <2>2 DEF par, Hits
<1>6. at = IF hits # << >> THEN <<Head(hits)>> ELSE <<Last(w)>>
  BY <1>4, HitsIsFold
<1> HIDE DEF hits, at
<1>7. CASE hits # << >>
  <2>1. Head(hits) \in Candles /\ at[1] = Head(hits)
    BY <1>5, <1>6, <1>7
  <2>2. QED
    BY <2>1 DEF at
<1>8. CASE hits = << >>
  <2>1. Last(w) \in Candles
    BY <1>3, <1>4 DEF Last
  <2>2. at[1] = Last(w)
    BY <1>6, <1>8
  <2>3. QED
    BY <2>1, <2>2 DEF at
<1>9. QED
  BY <1>7, <1>8

LEMMA PreDelaysOfOne ==
  \A bars \in Seq(Candles) : \A e : IsTouch(e) =>
    \E R : /\ Pre!simulate_all_delays(e, bars) \in Seq(R) /\ Pre!simulate_all_delays(e, bars) # << >>
           /\ \A r \in R : IsDelay(r)
<1>1. SUFFICES ASSUME NEW bars \in Seq(Candles), NEW e, IsTouch(e)
               PROVE  \E R : /\ Pre!simulate_all_delays(e, bars) \in Seq(R) /\ Pre!simulate_all_delays(e, bars) # << >>
                             /\ \A r \in R : IsDelay(r)
  OBVIOUS
<1> DEFINE R == {r \in {Pre!Enter(e, bars, Pre!Delays[i], FirstFrom(bars, e.touch + (i - 1) * Step)) : i \in 1..4}
                     \cup {Pre!Enter(e, bars, "pullback", Pre!simulate_pullback_entry(e, bars, 5, PullbackWindow).bar)} :
                     IsDelay(r)}
           D(i) == Pre!Enter(e, bars, Pre!Delays[i], FirstFrom(bars, e.touch + (i - 1) * Step))
           P == Pre!Enter(e, bars, "pullback", Pre!simulate_pullback_entry(e, bars, 5, PullbackWindow).bar)
           fixed == [i \in 1..4 |-> D(i)]
<1>2. Pre!simulate_all_delays(e, bars) = fixed \o <<P>>
  <2>1. Len(Pre!Delays) = 4
    BY DEF Pre!Delays
  <2>2. QED
    BY <2>1, PreFirst DEF Pre!simulate_all_delays
<1>3. ASSUME NEW i \in 1..4 PROVE IsDelay(D(i))
  <2> DEFINE from == e.touch + (i - 1) * Step
             bar == FirstFrom(bars, from)
  <2>1. from \in Int
    BY <1>1, PreAssumption DEF IsTouch
  <2>2. bar # None => bar[1] \in Candles
    BY <2>1, FirstIsBar
  <2> HIDE DEF bar
  <2>3. IsDelay(Pre!Enter(e, bars, Pre!Delays[i], bar))
    BY <1>1, <2>2, PreEnterIsDelay
  <2>4. QED
    BY <2>3 DEF bar
<1>4. IsDelay(P)
  <2> DEFINE bar == Pre!simulate_pullback_entry(e, bars, 5, PullbackWindow).bar
  <2>1. bar # None => bar[1] \in Candles
    BY PrePulledIsBar
  <2> HIDE DEF bar
  <2>2. IsDelay(Pre!Enter(e, bars, "pullback", bar))
    BY <1>1, <2>1, PreEnterIsDelay
  <2>3. QED
    BY <2>2 DEF bar
<1>5. (\A i \in 1..4 : D(i) \in R) /\ P \in R /\ \A r \in R : IsDelay(r)
  BY <1>3, <1>4
<1> HIDE DEF R, D, P
<1>6. fixed \in Seq(R)
  BY <1>5
<1>7. <<P>> \in Seq(R) /\ Len(<<P>>) = 1
  BY <1>5
<1> HIDE DEF fixed
<1>8. fixed \o <<P>> \in Seq(R) /\ Len(fixed \o <<P>>) = Len(fixed) + 1 /\ Len(fixed) \in Nat
  BY <1>6, <1>7
<1>9. fixed \o <<P>> # << >>
  BY <1>8
<1>10. QED
  BY <1>2, <1>5, <1>8, <1>9

LEMMA PreSimulated ==
  \A S, cache : (\A e \in S : IsTouch(e)) /\ GoodCache(cache) =>
    \A q \in Seq(S) : AreDelays(Pre!simulate(q, cache)) /\ Len(Pre!simulate(q, cache)) = Len(q)
<1>1. SUFFICES ASSUME NEW S, NEW cache, \A e \in S : IsTouch(e), GoodCache(cache), NEW q \in Seq(S)
               PROVE  AreDelays(Pre!simulate(q, cache)) /\ Len(Pre!simulate(q, cache)) = Len(q)
  OBVIOUS
<1> DEFINE One(i) == Pre!simulate_all_delays(q[i], Bars(cache, q[i]))
           results == [i \in 1..Len(q) |-> One(i)]
<1>2. Pre!simulate(q, cache) = results
  BY PreBars DEF Pre!simulate
<1>3. Len(q) \in Nat /\ \A i \in 1..Len(q) : q[i] \in S
  OBVIOUS
<1>4. \A i \in 1..Len(q) : \E R : One(i) \in Seq(R) /\ One(i) # << >> /\ \A r \in R : IsDelay(r)
  <2>1. SUFFICES ASSUME NEW i \in 1..Len(q)
                 PROVE  \E R : One(i) \in Seq(R) /\ One(i) # << >> /\ \A r \in R : IsDelay(r)
    OBVIOUS
  <2>2. Bars(cache, q[i]) \in Seq(Candles) /\ IsTouch(q[i])
    BY <1>1, <1>3, BarsType
  <2>3. QED
    BY <2>2, PreDelaysOfOne
<1> HIDE DEF One
<1>5. Len(results) = Len(q) /\ \A i \in 1..Len(q) : results[i] = One(i)
  BY <1>3
<1> HIDE DEF results
<1>6. QED
  BY <1>2, <1>3, <1>4, <1>5 DEF AreDelays


---------------------------------------------------------------------------
(* The rows that are kept                                                  *)

SkipOp(labels, kept, i) == IF labels[i] # "skip" THEN Append(kept, i) ELSE kept
SkipFold == INSTANCE FoldFacts WITH Op <- SkipOp

ArmOp(par, kept, i) == IF par[1] = 2 \/ par[2][i] # "skip" THEN Append(kept, i) ELSE kept
ArmFold == INSTANCE FoldFacts WITH Op <- ArmOp

PartOp(par, kept, i) == IF par[1][i].id \in par[2] THEN Append(kept, i) ELSE kept
PartFold == INSTANCE FoldFacts WITH Op <- PartOp

UnskippedOf(labels) == Pre!Positions(labels, LAMBDA g : g # "skip")

LEMMA PreSkipped ==
  ASSUME NEW labels, Len(labels) \in Nat
  PROVE  UnskippedOf(labels) \in Seq(1..Len(labels))
<1> DEFINE n == Len(labels)
           I == 1..n
<1>1. UnskippedOf(labels) = SkipFold!Run(labels, << >>, PlacesUpTo(n))
  BY DEF UnskippedOf, Pre!Positions, Pre!Where, SkipFold!Run, SkipOp, PlacesUpTo
<1>2. PlacesUpTo(n) \in Seq(I)
  BY PlacesType
<1> HIDE DEF n, I
<1>3. << >> \in Seq(I) /\ \A v \in Seq(I), x \in I : SkipOp(labels, v, x) \in Seq(I)
  BY EmptySeq DEF SkipOp
<1>4. SkipFold!Run(labels, << >>, PlacesUpTo(n)) \in Seq(I)
  BY <1>2, <1>3, SkipFold!FoldType
<1>5. QED
  BY <1>1, <1>4 DEF I, n

KeptOf(schema, labels) == Refine!Positions(labels, LAMBDA g : schema = 2 \/ g # "skip")
PartOf(events, ids) == Refine!Positions(events, LAMBDA e : e.id \in ids)

LEMMA RefineKept ==
  ASSUME NEW labels, NEW schema, Len(labels) \in Nat
  PROVE  KeptOf(schema, labels) \in Seq(1..Len(labels))
<1> DEFINE n == Len(labels)
           I == 1..n
           par == <<schema, labels>>
<1>1. par[1] = schema /\ par[2] = labels
  OBVIOUS
<1> HIDE DEF par
<1>2. KeptOf(schema, labels) = ArmFold!Run(par, << >>, PlacesUpTo(n))
  BY <1>1 DEF KeptOf, Refine!Positions, Refine!Where, ArmFold!Run, ArmOp, PlacesUpTo
<1>3. PlacesUpTo(n) \in Seq(I)
  BY PlacesType
<1> HIDE DEF n, I
<1>4. << >> \in Seq(I) /\ \A v \in Seq(I), x \in I : ArmOp(par, v, x) \in Seq(I)
  BY EmptySeq DEF ArmOp
<1> DEFINE places == PlacesUpTo(n)
           J == Seq(I)
           base == << >>
<1> HIDE DEF places, J, base
<1>5. ArmFold!Run(par, << >>, PlacesUpTo(n)) \in Seq(I)
  <2>1. places \in Seq(I) /\ base \in J /\ \A v \in J, x \in I : ArmOp(par, v, x) \in J
    BY <1>3, <1>4 DEF places, J, base
  <2>2. ArmFold!Run(par, base, places) \in J
    BY <2>1, ArmFold!FoldType, Zenon
  <2>3. QED
    BY <2>2 DEF places, J, base
<1>6. QED
  BY <1>2, <1>5 DEF I, n

LEMMA RefinePart ==
  ASSUME NEW events, NEW ids, Len(events) \in Nat
  PROVE  PartOf(events, ids) \in Seq(1..Len(events))
<1> DEFINE n == Len(events)
           I == 1..n
           par == <<events, ids>>
<1>1. par[1] = events /\ par[2] = ids
  OBVIOUS
<1> HIDE DEF par
<1>2. PartOf(events, ids) = PartFold!Run(par, << >>, PlacesUpTo(n))
  BY <1>1 DEF PartOf, Refine!Positions, Refine!Where, PartFold!Run, PartOp, PlacesUpTo
<1>3. PlacesUpTo(n) \in Seq(I)
  BY PlacesType
<1> HIDE DEF n, I
<1>4. << >> \in Seq(I) /\ \A v \in Seq(I), x \in I : PartOp(par, v, x) \in Seq(I)
  BY EmptySeq DEF PartOp
<1>5. PartFold!Run(par, << >>, PlacesUpTo(n)) \in Seq(I)
  BY <1>3, <1>4, PartFold!FoldType, Zenon
<1>6. QED
  BY <1>2, <1>5 DEF I, n

---------------------------------------------------------------------------
(* What the arms take is a result of a delay                               *)

\* What the delays of a regime earned at best is what one of them earned.
LEMMA BestOfIsEarned ==
  ASSUME NEW R, \A r \in R : IsDelay(r), NEW q \in Seq(R), NEW delays,
         NEW z \in 1..Len(q), q[z].label \in delays, q[z].trade # None
  PROVE  \E i \in 1..Len(q) : /\ q[i].label \in delays /\ q[i].trade # None
                              /\ Refine!BestOf(q, delays) = q[i].trade.realistic
<1> DEFINE n == Len(q)
           J == {j \in 1..n : q[j].label \in delays /\ q[j].trade # None}
           earned == {q[i].trade.realistic : i \in J}
<1>1. n \in Nat /\ \A i \in 1..n : q[i] \in R
  OBVIOUS
<1>2. \A i \in J : q[i].trade.realistic \in Int
  BY <1>1 DEF IsDelay
<1>3. J \in SUBSET (1..n) /\ J # {}
  OBVIOUS
<1>4. \E x \in earned : \A y \in earned : x >= y
  <2> DEFINE w == [i \in 1..n |-> IF i \in J THEN q[i].trade.realistic ELSE 0]
  <2>1. (\A i \in 1..n : w[i] \in Int) /\ \A i \in J : w[i] = q[i].trade.realistic
    BY <1>2
  <2> HIDE DEF w, J
  <2>2. \E j \in J : \A k \in J : w[k] <= w[j]
    BY <1>1, <1>3, <2>1, LargestOfSome, Zenon
  <2>3. PICK j \in J : \A k \in J : w[k] <= w[j]
    BY <2>2
  <2>4. \A y \in earned : w[j] >= y
    BY <1>2, <2>1, <2>3
  <2>5. QED
    BY <2>1, <2>4
<1>5. Refine!BestOf(q, delays) = Refine!Max(earned)
  <2>1. Refine!BestOf(q, delays) = IF earned = {} THEN 0 ELSE Refine!Max(earned)
    BY Zenon DEF Refine!BestOf, Refine!None, None
  <2>2. earned # {}
    BY <1>3, Zenon
  <2>3. QED
    BY <2>1, <2>2, Zenon
<1>6. Refine!Max(earned) \in earned
  <2> HIDE DEF earned
  <2>1. QED
    BY <1>4, Zenon DEF Refine!Max
<1>7. QED
  BY <1>5, <1>6, Zenon


LEMMA HindsightIsFold ==
  \A q, label, delays :
    Refine!Hindsight(q, label, delays)
      = LET owned == OwnedFold!Run(delays, << >>, q)
        IN IF owned = << >> THEN Refine!NoTrade(q[1].id, label, "NoMatch")
           ELSE Head(EarnedFold!Run(Refine!BestOf(q, delays), << >>, owned))
BY DEF Refine!Hindsight, Refine!Where, Refine!None, None, OwnedOp, OwnedFold!Run, EarnedOp, EarnedFold!Run

LEMMA NoTradeIsDelay == \A id, label, reason : IsDelay(Refine!NoTrade(id, label, reason))
<1>1. SUFFICES ASSUME NEW id, NEW label, NEW reason PROVE IsDelay(Refine!NoTrade(id, label, reason))
  OBVIOUS
<1> DEFINE r == Refine!NoTrade(id, label, reason)
<1>2. "trade" \in DOMAIN r /\ r.trade = None
  BY DEF Refine!NoTrade, Refine!None, None
<1> HIDE DEF r
<1>3. IsDelay(r)
  BY <1>2 DEF IsDelay
<1>4. QED
  BY <1>3 DEF r

LEMMA HindsightIsDelay ==
  ASSUME NEW R, \A r \in R : IsDelay(r), NEW q \in Seq(R), NEW label, NEW delays
  PROVE  IsDelay(Refine!Hindsight(q, label, delays))
<1> DEFINE K == {b \in R : b.label \in delays /\ b.trade # None}
           owned == OwnedFold!Run(delays, << >>, q)
           top == Refine!BestOf(q, delays)
           L == {b \in R : b.trade.realistic = top}
           best == EarnedFold!Run(top, << >>, owned)
<1>1. owned = Sel(K, q)
  BY OwnedSelects
<1>2. owned \in Seq(R \cap K) /\ owned \in Seq(R)
  BY <1>1, SelType
<1>3. best = Sel(L, owned)
  <2> HIDE DEF owned, top
  <2>1. QED
    BY <1>2, EarnedSelects
<1>4. Refine!Hindsight(q, label, delays)
        = IF owned = << >> THEN Refine!NoTrade(q[1].id, label, "NoMatch") ELSE Head(best)
  BY HindsightIsFold
<1> HIDE DEF owned, best, top
<1>5. CASE owned = << >>
  BY <1>4, <1>5, NoTradeIsDelay
<1>6. CASE owned # << >>
  <2>1. PICK z \in 1..Len(q) : q[z] \in K
    <3>1. \/ \E z \in 1..Len(q) : q[z] \in K
          \/ \A z \in 1..Len(q) : q[z] \notin K
      OBVIOUS
    <3>2. (\A z \in 1..Len(q) : q[z] \notin K) => Sel(K, q) = << >>
      BY SelNone
    <3>3. QED
      BY <1>1, <1>6, <3>1, <3>2
  <2>2. PICK i \in 1..Len(q) : q[i].label \in delays /\ q[i].trade # None /\ top = q[i].trade.realistic
    BY <2>1, BestOfIsEarned DEF top
  <2>3. q[i] \in K /\ q[i] \in L
    BY <2>2
  <2>4. PICK j \in 1..Len(owned) : owned[j] = q[i]
    <3> HIDE DEF K, L
    <3>1. QED
      BY <1>1, <2>3, SelHas
  <2>5. PICK k \in 1..Len(best) : best[k] = q[i]
    <3> HIDE DEF K, L
    <3>1. QED
      BY <1>2, <1>3, <2>3, <2>4, SelHas
  <2>6. best \in Seq(R)
    <3> HIDE DEF K, L
    <3>1. QED
      BY <1>2, <1>3, SelType
  <2>7. Head(best) \in R
    BY <2>5, <2>6
  <2>8. QED
    BY <1>4, <1>6, <2>7
<1>7. QED
  BY <1>5, <1>6

LEMMA ResolvedIsDelay ==
  ASSUME NEW R, \A r \in R : IsDelay(r), NEW q \in Seq(R), q # << >>, NEW schema, NEW label
  PROVE  IsDelay(Refine!Resolved(schema, label, q))
<1>1. \A g : IsDelay(Refine!find_delay_result(q, g))
  BY FoundIsDelay, RefineFound
<1>2. \A g, why : IsDelay(Refine!NoTrade(q[1].id, g, why))
  BY NoTradeIsDelay
<1>3. \A g, delays : IsDelay(Refine!Hindsight(q, g, delays))
  BY HindsightIsDelay
<1>4. IsDelay(Refine!resolve_single_3regime_prediction(label, q))
  BY <1>1, <1>2, <1>3 DEF Refine!resolve_single_3regime_prediction
<1>5. IsDelay(Refine!resolve_2regime_prediction(label, q))
  BY <1>1, <1>2 DEF Refine!resolve_2regime_prediction
<1>6. QED
  BY <1>1, <1>4, <1>5 DEF Refine!Resolved

LEMMA ResolvedSum ==
  ASSUME NEW results, AreDelays(results), NEW predictions, NEW schema, Len(predictions) \in Nat,
         Len(predictions) <= Len(results)
  PROVE  Refine!compute_calendar_sum(Refine!ResolvedAll(schema, predictions, results)) \in Int
<1> DEFINE n == Len(predictions)
           q == [i \in 1..n |-> Refine!Resolved(schema, predictions[i], results[i])]
<1>1. ASSUME NEW i \in 1..n PROVE IsDelay(q[i])
  <2>1. i \in 1..Len(results)
    BY DEF AreDelays
  <2>2. PICK R : results[i] \in Seq(R) /\ results[i] # << >> /\ \A r \in R : IsDelay(r)
    BY <2>1 DEF AreDelays
  <2>3. IsDelay(Refine!Resolved(schema, predictions[i], results[i]))
    BY <2>2, ResolvedIsDelay
  <2>4. QED
    BY <2>3
<1>2. q = [i \in 1..n |-> q[i]]
  OBVIOUS
<1>3. Refine!ResolvedAll(schema, predictions, results) = q
  BY DEF Refine!ResolvedAll
<1> HIDE DEF q
<1>4. DelayTotal(q) \in Int
  BY <1>1, <1>2, TotalOf
<1>5. QED
  BY <1>3, <1>4, RefineSum


---------------------------------------------------------------------------
(* The scores of the arms, and the rows of the matrix                      *)

ArmScored(par, depth) ==
  Refine!loocv_calendar_sum_inline(par.rules[<<par.family, depth>>], par.X, par.y, par.results)
ArmDepthOp(par, best, depth) == Refine!Deeper(best, [depth |-> depth, loocv |-> ArmScored(par, depth)])
ArmDepthFold == INSTANCE FoldFacts WITH Op <- ArmDepthOp
ArmDeepest(par, depths) == ArmDepthFold!Fold(par, Refine!None, depths)

LEMMA ArmTrainIsFold ==
  \A rules, family, X, y, results :
    Refine!train(rules, family, X, y, results).loocv
      = ArmDeepest([rules |-> rules, family |-> family, X |-> X, y |-> y, results |-> results],
                   Refine!Depths(family))[1].loocv
<1>1. SUFFICES ASSUME NEW rules, NEW family, NEW X, NEW y, NEW results
               PROVE  Refine!train(rules, family, X, y, results).loocv
                        = ArmDeepest([rules |-> rules, family |-> family, X |-> X, y |-> y, results |-> results],
                                     Refine!Depths(family))[1].loocv
  BY Zenon
<1> DEFINE par == [rules |-> rules, family |-> family, X |-> X, y |-> y, results |-> results]
           chosen == Refine!FoldLeft(LAMBDA best, d : Refine!Deeper(best, Refine!Tried(rules, family, d, X, y, results)),
                                     Refine!None, Refine!Depths(family))
<1>2. par.rules = rules /\ par.family = family /\ par.X = X /\ par.y = y /\ par.results = results
  OBVIOUS
<1> HIDE DEF par
<1>3. Refine!train(rules, family, X, y, results).loocv = chosen[1].loocv
  BY DEF Refine!train, Refine!Fitted, Refine!ClassifierResult
<1>4. chosen = ArmDeepest(par, Refine!Depths(family))
  BY <1>2 DEF Refine!FoldLeft, Refine!MapThenFoldSet, Refine!Max, Refine!Tried, ArmScored, ArmDepthOp, ArmDeepest,
              ArmDepthFold!Fold, ArmDepthFold!Largest
<1>5. QED
  BY <1>3, <1>4, Zenon DEF par

\* The score that is kept is a number.
LEMMA ArmDeepestIsInt ==
  ASSUME NEW par, \A d : ArmScored(par, d) \in Int
  PROVE  \A q \in Seq(Int) : q # << >> => ArmDeepest(par, q)[1].loocv \in Int
<1> DEFINE F(q) == ArmDeepest(par, q)
           T == {q \in Seq(Int) : (q = << >> => F(q) = << >>) /\ (q # << >> => F(q)[1].loocv \in Int)}
<1>1. << >> \in T
  <2>1. F(<< >>) = << >>
    BY ArmDepthFold!FoldEmpty DEF ArmDeepest, Refine!None
  <2> HIDE DEF F
  <2>2. QED
    BY <2>1, EmptySeq
<1>2. ASSUME NEW q \in Seq(Int), NEW x \in Int, q \in T PROVE Append(q, x) \in T
  <2> DEFINE a == Append(q, x)
             tried == [depth |-> x, loocv |-> ArmScored(par, x)]
  <2>1. F(a) = IF F(q) = << >> \/ tried.loocv > F(q)[1].loocv THEN <<tried>> ELSE F(q)
    BY ArmDepthFold!FoldAppend DEF ArmDeepest, ArmDepthOp, Refine!Deeper, Refine!None
  <2>2. a \in Seq(Int) /\ a # << >>
    <3>1. a \in Seq(Int) /\ Len(a) = Len(q) + 1 /\ Len(q) \in Nat
      OBVIOUS
    <3> HIDE DEF a
    <3>2. QED
      BY <3>1
  <2>3. tried.loocv \in Int
    OBVIOUS
  <2> HIDE DEF F, a, tried
  <2>4. F(a)[1].loocv \in Int
    <3>1. CASE F(a) = <<tried>>
      BY <2>3, <3>1
    <3>2. CASE F(a) # <<tried>>
      <4>1. F(a) = F(q) /\ q # << >>
        BY <1>2, <2>1, <3>2
      <4>2. QED
        BY <1>2, <4>1
    <3>3. QED
      BY <3>1, <3>2
  <2>5. QED
    BY <2>2, <2>4 DEF a
<1> HIDE DEF T
<1>3. \A q \in Seq(Int) : q \in T
  BY <1>1, <1>2, Select!SeqInduction
<1>4. QED
  BY <1>3 DEF T

LEMMA ArmTrainedIsInt ==
  ASSUME NEW rules, NEW family, NEW X, NEW y, NEW results, Len(y) \in Nat, AreDelays(results), Len(y) <= Len(results)
  PROVE  Refine!train(rules, family, X, y, results).loocv \in Int
<1> DEFINE par == [rules |-> rules, family |-> family, X |-> X, y |-> y, results |-> results]
           q == Refine!Depths(family)
<1>1. \A d : ArmScored(par, d) \in Int
  <2>1. \A rule : Refine!loocv_calendar_sum_inline(rule, X, y, results) \in Int
    BY RefineLeftOutIsInt
  <2>2. par.X = X /\ par.y = y /\ par.results = results
    OBVIOUS
  <2> HIDE DEF par
  <2>3. QED
    BY <2>1, <2>2 DEF ArmScored
<1>2. q \in Seq(Int) /\ q # << >>
  BY DEF Refine!Depths
<1> HIDE DEF par, q
<1>3. ArmDeepest(par, q)[1].loocv \in Int
  BY <1>1, <1>2, ArmDeepestIsInt
<1>4. QED
  BY <1>3, ArmTrainIsFold DEF par, q

RowOp(par, kept, r) == IF r.id = par[1] /\ r.label = par[2] THEN Append(kept, r) ELSE kept
RowFold == INSTANCE FoldFacts WITH Op <- RowOp

LEMMA RowsType == \A R, id, label : \A m \in Seq(R) : Refine!RowOf(m, id, label) \in Seq(R)
<1>1. SUFFICES ASSUME NEW R, NEW id, NEW label, NEW m \in Seq(R) PROVE Refine!RowOf(m, id, label) \in Seq(R)
  OBVIOUS
<1> DEFINE par == <<id, label>>
<1>2. par[1] = id /\ par[2] = label
  OBVIOUS
<1> HIDE DEF par
<1>3. Refine!RowOf(m, id, label) = RowFold!Run(par, << >>, m)
  BY <1>2 DEF Refine!RowOf, Refine!Where, RowOp, RowFold!Run
<1>4. << >> \in Seq(R) /\ \A v \in Seq(R), x \in R : RowOp(par, v, x) \in Seq(R)
  BY EmptySeq DEF RowOp
<1>5. RowFold!Run(par, << >>, m) \in Seq(R)
  BY <1>4, RowFold!FoldType, Zenon
<1>6. QED
  BY <1>3, <1>5

LEMMA RebuiltAreDelays ==
  ASSUME NEW R, \A r \in R : IsDelay(r), NEW m \in Seq(R), NEW events, Len(events) \in Nat,
         Refine!Rebuildable(m, events)
  PROVE  LET results == Refine!rebuild_delay_results_from_matrix(m, events)
         IN AreDelays(results) /\ Len(results) = Len(events)
<1> DEFINE n == Len(events)
           H(i, k) == Head(Refine!RowOf(m, events[i].id, Refine!Labels[k]))
           O(i) == [k \in 1..5 |-> H(i, k)]
           results == [i \in 1..n |-> O(i)]
<1>1. Len(Refine!Labels) = 5
  BY DEF Refine!Labels, Refine!Delays
<1>2. Refine!rebuild_delay_results_from_matrix(m, events) = results
  BY <1>1 DEF Refine!rebuild_delay_results_from_matrix
<1>3. \A i \in 1..n : \A k \in 1..5 : H(i, k) \in R
  <2>1. SUFFICES ASSUME NEW i \in 1..n, NEW k \in 1..5 PROVE H(i, k) \in R
    OBVIOUS
  <2> DEFINE row == Refine!RowOf(m, events[i].id, Refine!Labels[k])
  <2>2. row # << >>
    BY <1>1 DEF Refine!Rebuildable
  <2>3. row \in Seq(R)
    BY RowsType
  <2> HIDE DEF row
  <2>4. Head(row) \in R
    BY <2>2, <2>3
  <2>5. QED
    BY <2>4 DEF row
<1> HIDE DEF H
<1>4. \A i \in 1..n : O(i) \in Seq(R) /\ O(i) # << >>
  <2>1. SUFFICES ASSUME NEW i \in 1..n PROVE O(i) \in Seq(R) /\ O(i) # << >>
    OBVIOUS
  <2> DEFINE o == O(i)
  <2>2. o \in Seq(R) /\ Len(o) = 5
    BY <1>3
  <2> HIDE DEF o
  <2>3. o \in Seq(R) /\ o # << >>
    BY <2>2, SMTT(30)
  <2>4. QED
    BY <2>3 DEF o
<1> HIDE DEF O
<1>5. Len(results) = n /\ \A i \in 1..n : results[i] = O(i)
  OBVIOUS
<1> HIDE DEF results
<1>6. AreDelays(results)
  BY <1>4, <1>5 DEF AreDelays
<1>7. QED
  BY <1>2, <1>5, <1>6

LEMMA RefineNearest == \A entry, events : Refine!Nearest(entry, events) = Nearest(entry, events)
BY DEF Refine!Nearest, Refine!Span, Refine!Min, Nearest, Span, Min

LEMMA RefineMatch == \A entries, events : Refine!match_events(entries, events) = match_events(entries, events)
<1>1. SUFFICES ASSUME NEW entries, NEW events PROVE Refine!match_events(entries, events) = match_events(entries, events)
  OBVIOUS
<1> DEFINE places == [i \in 1..Len(entries) |-> Refine!Nearest(entries[i], events)]
<1>2. places = Places(entries, events)
  BY RefineNearest DEF Places
<1>3. Refine!match_events(entries, events) = KeepFold!Fold(events, << >>, Found(places))
  BY DEF Refine!match_events, Refine!Where, Refine!FoldLeft, Refine!MapThenFoldSet, Refine!Max, KeepOp, KeepFold!Fold, KeepFold!Largest,
         Found, FoundOp, FoundFold!Run
<1>4. QED
  BY <1>2, <1>3, MatchIsFold

LEMMA RefineLoad == \A ledger, events : Refine!load_v6_gate_events(ledger, events) = load_v6_gate_events(ledger, events)
BY RefineMatch DEF Refine!load_v6_gate_events, load_v6_gate_events, Refine!Where, Where

LEMMA PreNearest == \A entry, events : Pre!Nearest(entry, events) = Nearest(entry, events)
BY DEF Pre!Nearest, Pre!Span, Pre!Min, Nearest, Span, Min

LEMMA PreMatch == \A entries, events : Pre!match_events(entries, events) = match_events(entries, events)
<1>1. SUFFICES ASSUME NEW entries, NEW events PROVE Pre!match_events(entries, events) = match_events(entries, events)
  OBVIOUS
<1> DEFINE places == [i \in 1..Len(entries) |-> Pre!Nearest(entries[i], events)]
<1>2. places = Places(entries, events)
  BY PreNearest DEF Places
<1>3. Pre!match_events(entries, events) = KeepFold!Fold(events, << >>, Found(places))
  BY DEF Pre!match_events, Pre!Where, Pre!FoldLeft, Pre!MapThenFoldSet, Pre!Max, KeepOp, KeepFold!Fold, KeepFold!Largest,
         Found, FoundOp, FoundFold!Run
<1>4. QED
  BY <1>2, <1>3, MatchIsFold

LEMMA PreLoad == \A ledger, events : Pre!load_v6_gate_events(ledger, events) = load_v6_gate_events(ledger, events)
BY PreMatch DEF Pre!load_v6_gate_events, load_v6_gate_events, Pre!Where, Where

---------------------------------------------------------------------------
(* pretouch_refinement                                                     *)

\* The rows of an arm, from the rows of the two feature sets.
ArmRows(original, enhanced, config, part) ==
  IF config.enhanced THEN [i \in 1..Len(original[part]) |-> Refine!Wide(original[part][i], enhanced[1][part][i])]
  ELSE original[part]

\* The trades of the test events under the learner of an arm, fitted to the
\* rows of the arm.
ArmTrades(env, original, enhanced, labels, train_at, test_at, results, config, best) ==
  LET own == Refine!At(labels[config.schema], train_at)
      kept == Refine!Positions(own, LAMBDA g : config.schema = 2 \/ g # "skip")
  IN Refine!ResolvedAll(config.schema,
       Refine!predict_all(env.rules[<<best.name, best.depth>>],
                          Refine!At(ArmRows(original, enhanced, config, "train"), kept), Refine!At(own, kept),
                          ArmRows(original, enhanced, config, "test")),
       Refine!At(results, test_at))

\* The test sum of an arm is that of its trades.
LEMMA TestSumOfTrades ==
  \A best, config :
    Refine!evaluate_best_on_test(best, Refine!Data(config), config)
      = Refine!compute_calendar_sum(ArmTrades(s.env, s.original, s.enhanced, s.labels, s.train_at, s.test_at,
                                              s.results, config, best))
BY DEF Refine!evaluate_best_on_test, Refine!Predicted, Refine!Data, Refine!KeptRows, Refine!select_labels_for_arm,
       Refine!RowsOf, ArmTrades, ArmRows

\* The trades the checks resample.
LEMMA CheckedTrades ==
  \A best, config :
    LET d == Refine!BestData(config)
    IN Refine!ResolvedAll(config.schema, Refine!predict_all(Refine!build_classifier(best), d.X, d.y, d.test),
                          Refine!At(s.results, s.test_at))
         = ArmTrades(s.env, s.original, s.enhanced, s.labels, s.train_at, s.test_at, s.results, config, best)
BY DEF Refine!BestData, Refine!BestRows, Refine!RowsOf, Refine!build_classifier, ArmTrades, ArmRows

\* The smallest of some of the positions one to six is one of them.
LEMMA FirstIsOne ==
  ASSUME NEW S, S \subseteq 1..6, S # {}
  PROVE  Refine!Min(S) \in S
<1>1. \E x \in S : \A y \in S : x <= y
  <2>1. \A y \in S : y \in 1..6
    OBVIOUS
  <2>2. 1 \in S \/ 2 \in S \/ 3 \in S \/ 4 \in S \/ 5 \in S \/ 6 \in S
    <3>1. PICK z : z \in S
      OBVIOUS
    <3>2. z = 1 \/ z = 2 \/ z = 3 \/ z = 4 \/ z = 5 \/ z = 6
      BY <2>1, <3>1
    <3>3. QED
      BY <3>1, <3>2
  <2>3. QED
    BY <2>1, <2>2
<1>2. QED
  BY <1>1 DEF Refine!Min

\* The learner that is chosen is one of the four.
LEMMA ChosenIsOne ==
  ASSUME NEW c, Len(c) = 4, \A j \in 1..4 : c[j].loocv \in Int
  PROVE  \E j \in 1..4 : Refine!Best(c) = c[j]
<1> DEFINE v == [i \in 1..4 |-> c[i].loocv]
           S == {i \in 1..4 : \A j \in 1..4 : c[j].loocv <= c[i].loocv}
<1>1. \A i \in 1..4 : v[i] \in Int
  OBVIOUS
<1>2. \E i \in 1..4 : \A j \in 1..4 : v[j] <= v[i]
  <2> HIDE DEF v
  <2>1. 4 \in 1..6
    OBVIOUS
  <2>2. QED
    BY <1>1, <2>1, LargestOfSix
<1>3. S # {} /\ S \subseteq 1..6 /\ S \subseteq 1..4
  BY <1>2
<1>4. Refine!Best(c) = c[Refine!Min(S)]
  BY DEF Refine!Best
<1> HIDE DEF S
<1>5. Refine!Min(S) \in S
  BY <1>3, FirstIsOne, Zenon
<1>6. QED
  BY <1>3, <1>4, <1>5, Zenon

\* The best arm is one of the six.
LEMMA BestIsOne ==
  ASSUME NEW arms, Len(arms) = 6, \A j \in 1..6 : arms[j].test \in Int
  PROVE  \E j \in 1..6 : Refine!BestArm(arms) = arms[j]
<1> DEFINE v == [i \in 1..6 |-> arms[i].test]
           S == {i \in 1..6 : \A j \in 1..6 : arms[j].test <= arms[i].test}
<1>1. \A i \in 1..6 : v[i] \in Int
  OBVIOUS
<1>2. \E i \in 1..6 : \A j \in 1..6 : v[j] <= v[i]
  <2> HIDE DEF v
  <2>1. 6 \in 1..6
    OBVIOUS
  <2>2. QED
    BY <1>1, <2>1, LargestOfSix
<1>3. S # {} /\ S \subseteq 1..6
  BY <1>2
<1>4. Refine!BestArm(arms) = arms[Refine!Min(S)]
  BY DEF Refine!BestArm
<1> HIDE DEF S
<1>5. Refine!Min(S) \in S
  BY <1>3, FirstIsOne, Zenon
<1>6. QED
  BY <1>3, <1>4, <1>5

\* A learner that was trained has a name and a depth.
LEMMA TrainedIsNamed ==
  \A rules, family, X, y, results : {"name", "depth", "test"} \subseteq DOMAIN Refine!train(rules, family, X, y, results)
BY DEF Refine!train, Refine!Fitted, Refine!ClassifierResult

\* An arm that was run: its test sum is that of the learner it keeps.
LEMMA ArmFacts ==
  ASSUME NEW config
  PROVE  LET a == Refine!run_single_arm(config)
         IN /\ a.config = config
            /\ a.test = Refine!evaluate_best_on_test(Refine!Best(a.classifiers), Refine!Data(config), config)
            /\ a.best = [Refine!Best(a.classifiers) EXCEPT !.test = a.test]
            /\ Len(a.classifiers) = 4
            /\ \A j \in 1..4 : {"name", "depth", "test"} \subseteq DOMAIN a.classifiers[j]
<1> DEFINE a == Refine!run_single_arm(config)
           d == Refine!Data(config)
           T(family) == Refine!train(s.env.rules, family, d.X, d.y, d.results)
           c == <<T("RuleBased_DT3"), T("DecisionTree"), T("RandomForest"), T("LogisticRegression")>>
<1>1. a = Refine!Judged(config, d, c)
  BY DEF Refine!run_single_arm, Refine!ArmOn, Refine!train_rule_based_classifier, Refine!train_decision_tree,
         Refine!train_random_forest, Refine!train_logistic_regression
<1>2. \A family : {"name", "depth", "test"} \subseteq DOMAIN T(family)
  BY TrainedIsNamed
<1> HIDE DEF T
<1>3. Len(c) = 4 /\ \A j \in 1..4 : {"name", "depth", "test"} \subseteq DOMAIN c[j]
  <2>1. Len(c) = 4 /\ c[1] = T("RuleBased_DT3") /\ c[2] = T("DecisionTree") /\ c[3] = T("RandomForest")
        /\ c[4] = T("LogisticRegression")
    OBVIOUS
  <2> HIDE DEF c
  <2>2. \A j \in 1..4 : c[j] = T("RuleBased_DT3") \/ c[j] = T("DecisionTree") \/ c[j] = T("RandomForest")
                        \/ c[j] = T("LogisticRegression")
    BY <2>1
  <2>3. QED
    BY <1>2, <2>1, <2>2
<1> HIDE DEF c, d
<1>4. /\ a.config = config /\ a.classifiers = c
      /\ a.test = Refine!evaluate_best_on_test(Refine!Best(c), d, config)
      /\ a.best = [Refine!Best(c) EXCEPT !.test = Refine!evaluate_best_on_test(Refine!Best(c), d, config)]
  BY <1>1 DEF Refine!Judged, Refine!ArmResult
<1>5. QED
  BY <1>3, <1>4 DEF d

\* The sums by which the learners and the arms were chosen.
Numbers(arms) ==
  /\ \A k \in 1..6 : arms[k].test \in Int
  /\ \A k \in 2..6 : \A j \in 1..4 : arms[k].classifiers[j].loocv \in Int

TradesOf(config, best) ==
  ArmTrades(s.env, s.original, s.enhanced, s.labels, s.train_at, s.test_at, s.results, config, best)

RefineFields ==
  {"at", "env", "events", "cache", "extended", "test", "train_at", "test_at", "results", "labels", "best_global_delay",
   "distribution", "extracted", "audit", "original", "enhanced", "arms", "ablation", "apart", "resolved", "robust",
   "report"}

\* The results were put together from the rows of the matrix.
IsRebuilt(env, results, train_at, test_at) ==
  /\ env.legacy # None /\ AreDelays(results)
  /\ train_at \in Seq(1..Len(results)) /\ test_at \in Seq(1..Len(results))

\* What is inductive: the results are those of the matrix; the first arm is
\* the earlier study, every other one was judged by the trades of the learner
\* it keeps, by numbers; and the trades the checks resample are those of the
\* best arm.
RefineInv ==
  /\ RefineFields \subseteq DOMAIN s /\ s.env \in RefineEnvironments
  /\ s.at \in {"label", "features", "arms"} => IsRebuilt(s.env, s.results, s.train_at, s.test_at)
  /\ s.at = "arms" => Len(s.original.test) = Len(s.test_at)
  /\ s.at \in {"ablate", "robust", "report", "end"} =>
       /\ Len(s.arms) = 6 /\ s.arms[1].config.name = "Baseline" /\ Numbers(s.arms)
       /\ \A k \in 2..6 : s.arms[k].test = Refine!compute_calendar_sum(TradesOf(s.arms[k].config, s.arms[k].best))
  /\ s.at \in {"report", "end"} =>
       s.resolved = TradesOf(Refine!BestArm(s.arms).config, Refine!BestArm(s.arms).best)

\* The trades depend on the name and the depth of the learner.
LEMMA TradesOfLearner ==
  ASSUME NEW config, NEW a, NEW b, a.name = b.name, a.depth = b.depth
  PROVE  TradesOf(config, a) = TradesOf(config, b)
BY DEF TradesOf, ArmTrades

\* An arm whose learners have numbers for scores was judged by the learner it keeps.
LEMMA ArmIsJudged ==
  ASSUME NEW config, \A j \in 1..4 : Refine!run_single_arm(config).classifiers[j].loocv \in Int
  PROVE  LET a == Refine!run_single_arm(config)
         IN a.test = Refine!compute_calendar_sum(TradesOf(a.config, a.best))
<1> DEFINE a == Refine!run_single_arm(config)
           b == Refine!Best(a.classifiers)
<1>1. /\ a.config = config
      /\ a.test = Refine!evaluate_best_on_test(b, Refine!Data(config), config)
      /\ a.best = [b EXCEPT !.test = a.test]
      /\ Len(a.classifiers) = 4
      /\ \A j \in 1..4 : {"name", "depth", "test"} \subseteq DOMAIN a.classifiers[j]
  BY ArmFacts
<1>2. a.test = Refine!compute_calendar_sum(TradesOf(config, b))
  BY <1>1, TestSumOfTrades DEF TradesOf
<1>3. {"name", "depth", "test"} \subseteq DOMAIN b
  <2> DEFINE c == a.classifiers
  <2>1. Len(c) = 4 /\ \A j \in 1..4 : c[j].loocv \in Int
    BY <1>1
  <2> HIDE DEF c
  <2>2. \E j \in 1..4 : Refine!Best(c) = c[j]
    BY <2>1, ChosenIsOne
  <2>3. QED
    BY <1>1, <2>2 DEF c
<1> HIDE DEF a, b
<1>4. a.best.name = b.name /\ a.best.depth = b.depth
  BY <1>1, <1>3
<1>5. TradesOf(config, a.best) = TradesOf(config, b)
  BY <1>4, TradesOfLearner
<1>6. QED
  BY <1>1, <1>2, <1>5 DEF a

LEMMA RefineStart == Refine!Init => s.at = "load" /\ s.env \in RefineEnvironments /\ RefineFields \subseteq DOMAIN s
<1>1. SUFFICES ASSUME Refine!Init
               PROVE  s.at = "load" /\ s.env \in RefineEnvironments /\ RefineFields \subseteq DOMAIN s
  OBVIOUS
<1> DEFINE blank == ""
           none == Refine!None
           empty == << >>
<1>2. s.at = "load" /\ s.env \in RefineEnvironments
  <2>1. PICK env \in RefineEnvironments :
          s = [at |-> "load", env |-> env, events |-> empty, cache |-> empty, extended |-> empty, test |-> empty,
               train_at |-> empty, test_at |-> empty, results |-> empty, labels |-> empty, best_global_delay |-> blank,
               distribution |-> none, extracted |-> none, audit |-> none, original |-> empty, enhanced |-> none,
               arms |-> empty, ablation |-> empty, apart |-> none, resolved |-> empty, robust |-> none, report |-> none]
    BY <1>1, Zenon DEF Refine!Init
  <2> HIDE DEF blank, none, empty
  <2>2. QED
    BY <2>1
<1>3. RefineFields \subseteq DOMAIN s
  BY <1>1, Zenon DEF Refine!Init, RefineFields
<1>4. QED
  BY <1>2, <1>3

LEMMA RefineInvInit == Refine!Init => RefineInv
BY RefineStart DEF RefineInv

\* The files are read.
LEMMA RefineInvLoad == ASSUME RefineInv, Refine!Load PROVE RefineInv'
<1>1. RefineFields \subseteq DOMAIN s /\ s.env \in RefineEnvironments
  BY DEF RefineInv
<1> DEFINE events == Refine!load_v6_gate_events(s.env.ledger, s.env.events)
           cache == Refine!load_bars_cache(events, s.env.files)
           test == Refine!time_split_events(events).test
           early == Refine!Ids(Refine!time_split_events(events).train)
           late == Refine!Ids(Refine!time_split_events(events).test)
           train_at == PartOf(events, early)
           test_at == PartOf(events, late)
           m == s.env.matrix[1]
           results == Refine!rebuild_delay_results_from_matrix(m, events)
<1>2. \/ s' = [s EXCEPT !.at = "failed"]
      \/ /\ s' = [s EXCEPT !.at = "label", !.events = events, !.cache = cache, !.test = test, !.train_at = train_at,
                           !.test_at = test_at, !.results = results]
         /\ s.env.matrix # None /\ s.env.legacy # None /\ Refine!Rebuildable(m, events)
  BY DEF Refine!Load, Refine!load_delay_pnl_matrix, Refine!None, None, PartOf
<1>3. Len(events) \in Nat
  <2> DEFINE R == Range(s.env.ledger)
             S == Range(s.env.events)
  <2>1. /\ s.env.ledger \in Seq(R) /\ s.env.events \in Seq(S)
        /\ (\A r \in R : r.time \in Int) /\ (\A e \in S : e.touch \in Int)
    BY <1>1, RefineAssumption DEF IsSequence
  <2> HIDE DEF R, S
  <2>2. load_v6_gate_events(s.env.ledger, s.env.events) \in Seq(S)
    BY <2>1, LoadType
  <2>3. events \in Seq(S)
    BY <2>2, RefineLoad
  <2> HIDE DEF events
  <2>4. QED
    BY <2>3
<1> HIDE DEF events, early, late
<1>4. CASE s' = [s EXCEPT !.at = "failed"]
  <2>1. DOMAIN s' = DOMAIN s /\ s'.at = "failed" /\ s'.env = s.env
    BY <1>1, <1>4 DEF RefineFields
  <2>2. QED
    BY <1>1, <2>1 DEF RefineInv
<1>5. CASE /\ s' = [s EXCEPT !.at = "label", !.events = events, !.cache = cache, !.test = test, !.train_at = train_at,
                             !.test_at = test_at, !.results = results]
           /\ s.env.matrix # None /\ s.env.legacy # None /\ Refine!Rebuildable(m, events)
  <2>1. AreDelays(results) /\ Len(results) = Len(events)
    <3> DEFINE R == Range(m)
    <3>1. m \in Seq(R) /\ \A r \in R : IsDelay(r)
      BY <1>1, <1>5, RefineAssumption DEF IsSequence, IsDelay
    <3> HIDE DEF R, m
    <3>2. QED
      BY <1>3, <1>5, <3>1, RebuiltAreDelays
  <2>2. train_at \in Seq(1..Len(events)) /\ test_at \in Seq(1..Len(events))
    BY <1>3, RefinePart
  <2> HIDE DEF cache, test, train_at, test_at, results
  <2>3. /\ DOMAIN s' = DOMAIN s /\ s'.at = "label" /\ s'.env = s.env
        /\ s'.results = results /\ s'.train_at = train_at /\ s'.test_at = test_at
    BY <1>1, <1>5 DEF RefineFields
  <2>4. IsRebuilt(s'.env, s'.results, s'.train_at, s'.test_at)
    BY <1>5, <2>1, <2>2, <2>3 DEF IsRebuilt
  <2>5. QED
    BY <1>1, <2>3, <2>4 DEF RefineInv
<1>6. QED
  BY <1>2, <1>4, <1>5

\* The steps before the arms.
LEMMA RefineInvEarly ==
  ASSUME RefineInv, Refine!Label \/ Refine!ExtractFeatures
  PROVE  RefineInv'
<1>1. RefineFields \subseteq DOMAIN s /\ s.env \in RefineEnvironments
  BY DEF RefineInv
<1>2. CASE Refine!Label
  <2>1. s.at = "label" /\ \E a, b, c : s' = [s EXCEPT !.at = "features", !.labels = a, !.best_global_delay = b, !.distribution = c]
    BY <1>2, Zenon DEF Refine!Label
  <2>2. /\ DOMAIN s' = DOMAIN s /\ s'.at = "features" /\ s'.env = s.env
        /\ s'.results = s.results /\ s'.train_at = s.train_at /\ s'.test_at = s.test_at
    BY <1>1, <2>1 DEF RefineFields
  <2>3. IsRebuilt(s.env, s.results, s.train_at, s.test_at)
    BY <2>1 DEF RefineInv
  <2>4. QED
    BY <1>1, <2>2, <2>3 DEF RefineInv
<1>3. CASE Refine!ExtractFeatures
  <2> DEFINE extended == Refine!load_extended_bars_cache(s.events, s.env.files, "extended" \in s.env.broken)
             x == Refine!extract_enhanced_features(s.events, s.cache, extended, s.env.broken)
             f == Refine!extract_features(s.events)
             w == Refine!WithFeatures(x, f)
             early == Refine!At(s.events, s.train_at)
             late == Refine!At(s.events, s.test_at)
             original == Refine!impute_features(early, late, Refine!Range(f.used))
  <2>1. s.at = "features" /\ s' = [w EXCEPT !.extended = extended]
    BY <1>3 DEF Refine!ExtractFeatures
  <2>2. IsRebuilt(s.env, s.results, s.train_at, s.test_at)
    BY <2>1 DEF RefineInv
  <2>3. Len(original.test) = Len(s.test_at)
    <3>1. Len(s.test_at) \in Nat
      BY <2>2 DEF IsRebuilt
    <3>2. Len(late) = Len(s.test_at)
      BY <3>1 DEF Refine!At
    <3> HIDE DEF late
    <3>3. \E medians : original.test = Refine!ImputedRows(late, Refine!Range(f.used), medians)
      BY DEF Refine!impute_features, Refine!impute_with
    <3>4. PICK medians : original.test = Refine!ImputedRows(late, Refine!Range(f.used), medians)
      BY <3>3
    <3> HIDE DEF original
    <3>5. Len(Refine!ImputedRows(late, Refine!Range(f.used), medians)) = Len(late)
      BY <3>1, <3>2 DEF Refine!ImputedRows
    <3>6. QED
      BY <3>2, <3>4, <3>5
  <2>4. \E a, b, c : w = [s EXCEPT !.at = "arms", !.extracted = a, !.audit = b, !.original = original, !.enhanced = c]
    BY Zenon DEF Refine!WithFeatures
  <2> HIDE DEF extended, x, f, w, original
  <2>5. /\ DOMAIN w = DOMAIN s /\ w.at = "arms" /\ w.env = s.env /\ w.original = original
        /\ w.results = s.results /\ w.train_at = s.train_at /\ w.test_at = s.test_at
    BY <1>1, <2>4 DEF RefineFields
  <2>6. /\ DOMAIN s' = DOMAIN s /\ s'.at = "arms" /\ s'.env = s.env /\ s'.original = original
        /\ s'.results = s.results /\ s'.train_at = s.train_at /\ s'.test_at = s.test_at
    BY <1>1, <2>1, <2>5 DEF RefineFields
  <2>7. QED
    BY <1>1, <2>2, <2>3, <2>6 DEF RefineInv
<1>4. QED
  BY <1>2, <1>3

\* The rows of an arm: its scores and its test sum are numbers.
LEMMA ArmNumbers ==
  ASSUME NEW config, IsRebuilt(s.env, s.results, s.train_at, s.test_at), Len(s.original.test) = Len(s.test_at)
  PROVE  LET a == Refine!run_single_arm(config)
         IN a.test \in Int /\ \A j \in 1..4 : a.classifiers[j].loocv \in Int
<1> DEFINE a == Refine!run_single_arm(config)
           d == Refine!Data(config)
           own == Refine!select_labels_for_arm(config)
           kept == Refine!KeptRows(config)
           mine == Refine!At(s.results, s.train_at)
           rest == Refine!At(s.results, s.test_at)
<1>1. /\ AreDelays(s.results) /\ s.train_at \in Seq(1..Len(s.results)) /\ s.test_at \in Seq(1..Len(s.results))
      /\ Len(s.train_at) \in Nat /\ Len(s.test_at) \in Nat
  BY DEF IsRebuilt
<1>2. AreDelays(mine) /\ Len(mine) = Len(s.train_at) /\ AreDelays(rest) /\ Len(rest) = Len(s.test_at)
  BY <1>1, DelaysAt, Zenon DEF Refine!At
<1>3. Len(own) = Len(s.train_at)
  BY <1>1 DEF Refine!select_labels_for_arm, Refine!At
<1>4. kept \in Seq(1..Len(mine))
  <2>1. kept = KeptOf(config.schema, own)
    BY DEF Refine!KeptRows, KeptOf
  <2> HIDE DEF own, kept, mine
  <2>2. KeptOf(config.schema, own) \in Seq(1..Len(own))
    BY <1>1, <1>3, RefineKept
  <2>3. QED
    BY <1>2, <1>3, <2>1, <2>2
<1>5. d.y = Refine!At(own, kept) /\ d.results = Refine!At(mine, kept)
  BY DEF Refine!Data
<1> HIDE DEF own, kept, mine, rest
<1>6. AreDelays(d.results) /\ Len(d.results) = Len(kept)
  BY <1>2, <1>4, <1>5, DelaysAt DEF Refine!At
<1>7. Len(d.y) = Len(kept) /\ Len(kept) \in Nat
  BY <1>4, <1>5 DEF Refine!At
<1>8. \A family : Refine!train(s.env.rules, family, d.X, d.y, d.results).loocv \in Int
  <2> HIDE DEF d
  <2>1. QED
    BY <1>6, <1>7, ArmTrainedIsInt
<1>9. \A j \in 1..4 : a.classifiers[j].loocv \in Int
  <2> DEFINE T(family) == Refine!train(s.env.rules, family, d.X, d.y, d.results)
             c == <<T("RuleBased_DT3"), T("DecisionTree"), T("RandomForest"), T("LogisticRegression")>>
  <2>1. a = Refine!Judged(config, d, c)
    BY DEF Refine!run_single_arm, Refine!ArmOn, Refine!train_rule_based_classifier, Refine!train_decision_tree,
           Refine!train_random_forest, Refine!train_logistic_regression
  <2>2. a.classifiers = c
    <3> HIDE DEF c, d
    <3>1. QED
      BY <2>1 DEF Refine!Judged, Refine!ArmResult
  <2> HIDE DEF a, d
  <2>3. \A family : T(family).loocv \in Int
    BY <1>8
  <2> HIDE DEF T
  <2>4. c[1] = T("RuleBased_DT3") /\ c[2] = T("DecisionTree") /\ c[3] = T("RandomForest") /\ c[4] = T("LogisticRegression")
    OBVIOUS
  <2> HIDE DEF c
  <2>5. \A j \in 1..4 : j = 1 \/ j = 2 \/ j = 3 \/ j = 4
    OBVIOUS
  <2>6. QED
    BY <2>2, <2>3, <2>4, <2>5
<1>10. a.test \in Int
  <2> DEFINE b == Refine!Best(a.classifiers)
             predictions == Refine!Predicted(b, d)
  <2>1. a.test = Refine!evaluate_best_on_test(b, d, config)
    BY ArmFacts, Zenon
  <2>2. Refine!evaluate_best_on_test(b, d, config)
          = Refine!compute_calendar_sum(Refine!ResolvedAll(config.schema, predictions, rest))
    BY DEF Refine!evaluate_best_on_test, rest
  <2>3. Len(d.test) = Len(s.test_at)
    BY <1>1 DEF Refine!Data, Refine!RowsOf
  <2> HIDE DEF a, b, d
  <2>4. Len(predictions) = Len(s.test_at)
    BY <1>1, <2>3 DEF Refine!Predicted, Refine!predict_all
  <2> HIDE DEF predictions
  <2>5. Refine!compute_calendar_sum(Refine!ResolvedAll(config.schema, predictions, rest)) \in Int
    BY <1>1, <1>2, <2>4, ResolvedSum
  <2>6. QED
    BY <2>1, <2>2, <2>5
<1>11. QED
  BY <1>9, <1>10

\* The arms are run.
LEMMA RefineInvArms == ASSUME RefineInv, Refine!RunArms PROVE RefineInv'
<1>1. /\ RefineFields \subseteq DOMAIN s /\ s.env \in RefineEnvironments
      /\ IsRebuilt(s.env, s.results, s.train_at, s.test_at) /\ Len(s.original.test) = Len(s.test_at)
  BY DEF RefineInv, Refine!RunArms
<1> DEFINE arms == Refine!run_all_arms
<1>2. s' = [s EXCEPT !.at = "failed"] \/ s' = [s EXCEPT !.at = "ablate", !.arms = arms]
  BY DEF Refine!RunArms
<1>3. Len(Refine!ARM_CONFIGS) = 6 /\ Refine!ARM_CONFIGS[1].name = "Baseline"
  BY DEF Refine!ARM_CONFIGS, Refine!Arm
<1>4. /\ Len(arms) = 6
      /\ arms[1] = Refine!build_baseline_arm_result(Refine!ARM_CONFIGS[1], s.env.legacy[1])
      /\ \A k \in 2..6 : arms[k] = Refine!run_single_arm(Refine!ARM_CONFIGS[k])
  BY <1>3 DEF Refine!run_all_arms
<1>5. arms[1].config.name = "Baseline" /\ arms[1].test \in Int
  <2>1. arms[1].config.name = "Baseline" /\ arms[1].test = s.env.legacy[1].best.test
    BY <1>3, <1>4 DEF Refine!build_baseline_arm_result, Refine!ArmResult
  <2>2. s.env.legacy[1].best.test \in Int
    BY <1>1, RefineAssumption DEF IsRebuilt
  <2>3. QED
    BY <2>1, <2>2
<1>6. ASSUME NEW k \in 2..6
      PROVE  /\ arms[k].test \in Int /\ \A j \in 1..4 : arms[k].classifiers[j].loocv \in Int
             /\ arms[k].test = Refine!compute_calendar_sum(TradesOf(arms[k].config, arms[k].best))
  <2> DEFINE config == Refine!ARM_CONFIGS[k]
  <2>1. arms[k] = Refine!run_single_arm(config)
    BY <1>4
  <2> HIDE DEF config, arms
  <2>2. /\ Refine!run_single_arm(config).test \in Int
        /\ \A j \in 1..4 : Refine!run_single_arm(config).classifiers[j].loocv \in Int
    BY <1>1, ArmNumbers
  <2>3. QED
    BY <2>1, <2>2, ArmIsJudged
<1> HIDE DEF arms
<1>7. Numbers(arms)
  <2>1. \A k \in 1..6 : k = 1 \/ k \in 2..6
    OBVIOUS
  <2>2. QED
    BY <1>5, <1>6, <2>1 DEF Numbers
<1>8. CASE s' = [s EXCEPT !.at = "failed"]
  <2>1. DOMAIN s' = DOMAIN s /\ s'.at = "failed" /\ s'.env = s.env
    BY <1>1, <1>8 DEF RefineFields
  <2>2. QED
    BY <1>1, <2>1 DEF RefineInv
<1>9. CASE s' = [s EXCEPT !.at = "ablate", !.arms = arms]
  <2>1. /\ DOMAIN s' = DOMAIN s /\ s'.at = "ablate" /\ s'.arms = arms
        /\ s'.env = s.env /\ s'.original = s.original /\ s'.enhanced = s.enhanced /\ s'.labels = s.labels
        /\ s'.train_at = s.train_at /\ s'.test_at = s.test_at /\ s'.results = s.results
    BY <1>1, <1>9 DEF RefineFields
  <2>2. QED
    BY <1>1, <1>4, <1>5, <1>6, <1>7, <2>1 DEF RefineInv, TradesOf
<1>10. QED
  BY <1>2, <1>8, <1>9

\* A step that leaves the arms and what they were made of alone.
LEMMA RefineInvKeeps ==
  ASSUME RefineInv, DOMAIN s' = DOMAIN s,
         s.at \in {"ablate", "robust", "report"}, s'.at \in {"failed", "robust", "report", "end"},
         s'.at = "end" => s.at = "report",
         s'.arms = s.arms, s'.env = s.env, s'.original = s.original, s'.enhanced = s.enhanced,
         s'.labels = s.labels, s'.train_at = s.train_at, s'.test_at = s.test_at, s'.results = s.results,
         s'.at = "end" => s'.resolved = s.resolved,
         s'.at = "report" =>
           s'.resolved = TradesOf(Refine!BestArm(s.arms).config, Refine!BestArm(s.arms).best)
  PROVE  RefineInv'
<1>1. /\ RefineFields \subseteq DOMAIN s' /\ s'.env \in RefineEnvironments
      /\ Len(s'.arms) = 6 /\ s'.arms[1].config.name = "Baseline" /\ Numbers(s.arms)
      /\ \A k \in 2..6 : s.arms[k].test = Refine!compute_calendar_sum(TradesOf(s.arms[k].config, s.arms[k].best))
  BY DEF RefineInv
<1>2. s'.at \in {"report", "end"} =>
        s'.resolved = TradesOf(Refine!BestArm(s.arms).config, Refine!BestArm(s.arms).best)
  BY DEF RefineInv
<1>3. QED
  BY <1>1, <1>2 DEF RefineInv, TradesOf

LEMMA RefineInvAblate == ASSUME RefineInv, Refine!Ablate PROVE RefineInv'
<1>1. RefineFields \subseteq DOMAIN s /\ s.at = "ablate"
  BY DEF RefineInv, Refine!Ablate
<1> DEFINE d == Refine!AblationData(Refine!BestArm(s.arms).config)
           a == Refine!run_ablation(Refine!BestArm(s.arms), d)
           r == <<Refine!generate_ablation_report(a)>>
<1>2. \/ s' = [s EXCEPT !.at = "robust"] \/ s' = [s EXCEPT !.at = "failed"]
      \/ s' = [s EXCEPT !.at = "robust", !.ablation = a, !.apart = r]
  BY DEF Refine!Ablate
<1> HIDE DEF a, d, r
<1>3. /\ DOMAIN s' = DOMAIN s /\ s'.at \in {"failed", "robust"} /\ s'.arms = s.arms
      /\ s'.env = s.env /\ s'.original = s.original /\ s'.enhanced = s.enhanced /\ s'.labels = s.labels
      /\ s'.train_at = s.train_at /\ s'.test_at = s.test_at /\ s'.results = s.results
  BY <1>1, <1>2 DEF RefineFields
<1>4. QED
  BY <1>1, <1>3, RefineInvKeeps

LEMMA RefineInvCheck == ASSUME RefineInv, Refine!Check PROVE RefineInv'
<1>1. RefineFields \subseteq DOMAIN s /\ s.at = "robust"
  BY DEF RefineInv, Refine!Check
<1> DEFINE b == Refine!BestArm(s.arms)
           d == Refine!BestData(b.config)
           r == Refine!ResolvedAll(b.config.schema, Refine!predict_all(Refine!build_classifier(b.best), d.X, d.y, d.test),
                                   Refine!At(s.results, s.test_at))
<1>2. s' = [s EXCEPT !.at = "failed"] \/ s' = [s EXCEPT !.at = "report", !.resolved = r]
  BY DEF Refine!Check
<1>3. r = TradesOf(b.config, b.best)
  BY CheckedTrades DEF TradesOf
<1> HIDE DEF r
<1>4. /\ DOMAIN s' = DOMAIN s /\ s'.at \in {"failed", "report"} /\ s'.arms = s.arms
      /\ s'.env = s.env /\ s'.original = s.original /\ s'.enhanced = s.enhanced /\ s'.labels = s.labels
      /\ s'.train_at = s.train_at /\ s'.test_at = s.test_at /\ s'.results = s.results
      /\ s'.at = "report" => s'.resolved = r
  BY <1>1, <1>2, Zenon DEF RefineFields
<1>5. QED
  BY <1>1, <1>3, <1>4, RefineInvKeeps

LEMMA RefineInvReport == ASSUME RefineInv, Refine!Report PROVE RefineInv'
<1>1. RefineFields \subseteq DOMAIN s /\ s.at = "report"
  BY DEF RefineInv, Refine!Report
<1>2. \E a, b : s' = [s EXCEPT !.at = "end", !.robust = a, !.report = b]
  BY Zenon DEF Refine!Report
<1>3. /\ DOMAIN s' = DOMAIN s /\ s'.at = "end" /\ s'.arms = s.arms /\ s'.resolved = s.resolved
      /\ s'.env = s.env /\ s'.original = s.original /\ s'.enhanced = s.enhanced /\ s'.labels = s.labels
      /\ s'.train_at = s.train_at /\ s'.test_at = s.test_at /\ s'.results = s.results
  BY <1>1, <1>2 DEF RefineFields
<1>4. QED
  BY <1>1, <1>3, RefineInvKeeps

\* The best arm is an arm that was run, or the earlier study.
LEMMA RefineInvRepeats ==
  ASSUME RefineInv, s.at \in {"report", "end"},
         Refine!BestArm(s.arms).config.name # "Baseline"
  PROVE  Refine!compute_calendar_sum(s.resolved) = Refine!BestArm(s.arms).test
<1> DEFINE b == Refine!BestArm(s.arms)
<1>1. /\ Len(s.arms) = 6 /\ s.arms[1].config.name = "Baseline" /\ Numbers(s.arms)
      /\ \A k \in 2..6 : s.arms[k].test = Refine!compute_calendar_sum(TradesOf(s.arms[k].config, s.arms[k].best))
      /\ s.resolved = TradesOf(b.config, b.best)
  BY DEF RefineInv
<1>2. PICK j \in 1..6 : b = s.arms[j]
  <2> DEFINE arms == s.arms
  <2>1. Len(arms) = 6 /\ \A i \in 1..6 : arms[i].test \in Int
    BY <1>1 DEF Numbers
  <2> HIDE DEF arms
  <2>2. \E j \in 1..6 : Refine!BestArm(arms) = arms[j]
    BY <2>1, BestIsOne
  <2>3. QED
    BY <2>2, SMTT(30) DEF arms
<1>3. j \in 2..6
  BY <1>1, <1>2
<1>4. QED
  BY <1>1, <1>2, <1>3

\* Of the study of pretouch_refinement, whatever its events, features, learners
\* and bounds: the trades the checks resample are the ones the best arm was
\* chosen for, though its rows are put together and its learner fitted a second
\* time.
THEOREM TheChecksRepeatTheArm == TimingSpec => []ChecksRepeatTheArm
<1> DEFINE Inv == study = "refine" => RefineInv
<1>1. TimingInit => Inv
  BY RefineInvInit DEF TimingInit
<1>2. Inv /\ [TimingNext]_<<study, s>> => Inv'
  <2>1. SUFFICES ASSUME Inv, [TimingNext]_<<study, s>>, study' = "refine" PROVE RefineInv'
    OBVIOUS
  <2>2. study = "refine" /\ RefineInv /\ (Refine!Next \/ s' = s)
    BY <2>1 DEF TimingNext
  <2>3. CASE s' = s
    BY <2>2, <2>3 DEF RefineInv, TradesOf
  <2>4. CASE Refine!Next
    BY <2>2, <2>4, RefineInvLoad, RefineInvEarly, RefineInvArms, RefineInvAblate, RefineInvCheck, RefineInvReport DEF Refine!Next
  <2>5. QED
    BY <2>2, <2>3, <2>4
<1>3. Inv => ChecksRepeatTheArm
  BY RefineInvRepeats DEF ChecksRepeatTheArm
<1>4. QED
  BY <1>1, <1>2, <1>3, PTL DEF TimingSpec

---------------------------------------------------------------------------
(* The dynamic study among the others                                      *)

\* The other studies never come to the steps of the dynamic one.
Elsewhere == "at" \in DOMAIN s /\ s.at \notin {"analyse", "evaluate"}

PreFields ==
  {"at", "env", "matrix", "events", "split", "cache", "results", "baselines", "labels", "oracle", "used", "excluded",
   "rows", "classifiers", "pullback", "best", "applied", "symbols", "checks", "shifted", "statistics", "report",
   "files", "leaks", "pulled", "backup", "same"}

LEMMA PreStart == Pre!Init => s.at = "matrix" /\ s.env \in PreEnvironments /\ PreFields \subseteq DOMAIN s
<1>1. SUFFICES ASSUME Pre!Init PROVE s.at = "matrix" /\ s.env \in PreEnvironments /\ PreFields \subseteq DOMAIN s
  OBVIOUS
<1> DEFINE blank == ""
           none == Pre!None
           empty == << >>
           unset == {}
           no == FALSE
<1>2. PICK env \in PreEnvironments :
        s = [at |-> "matrix", env |-> env, matrix |-> none, events |-> empty, split |-> 0, cache |-> empty,
             results |-> empty, baselines |-> empty, labels |-> empty, oracle |-> 0, used |-> empty,
             excluded |-> empty, rows |-> empty, classifiers |-> empty, pullback |-> empty, best |-> none,
             applied |-> none, symbols |-> none, checks |-> none, shifted |-> unset, statistics |-> none,
             report |-> none, files |-> unset, leaks |-> unset, pulled |-> blank, backup |-> none, same |-> no]
  BY <1>1, Zenon DEF Pre!Init
<1> HIDE DEF blank, none, empty, unset, no
<1>3. s.at = "matrix" /\ s.env \in PreEnvironments
  BY <1>2
<1>4. PreFields \subseteq DOMAIN s
  BY <1>2 DEF PreFields
<1>5. QED
  BY <1>3, <1>4

LEMMA ElsewherePre == Elsewhere /\ Pre!Next => Elsewhere'
<1>1. SUFFICES ASSUME Elsewhere, Pre!Next PROVE Elsewhere'
  OBVIOUS
<1>2. CASE Pre!run_delay_simulation
  BY <1>1, <1>2 DEF Pre!run_delay_simulation, Elsewhere
<1>3. CASE Pre!Load
  BY <1>1, <1>3 DEF Pre!Load, Elsewhere
<1>4. CASE Pre!Simulate
  BY <1>1, <1>4 DEF Pre!Simulate, Elsewhere
<1>5. CASE Pre!Label
  BY <1>1, <1>5 DEF Pre!Label, Elsewhere
<1>6. CASE Pre!ExtractFeatures
  BY <1>1, <1>6 DEF Pre!ExtractFeatures, Elsewhere
<1>7. CASE Pre!Train
  BY <1>1, <1>7 DEF Pre!Train, Pre!TrainedOn, Elsewhere
<1>8. CASE Pre!OptimisePullback
  BY <1>1, <1>8 DEF Pre!OptimisePullback, Elsewhere
<1>9. CASE Pre!Predict
  BY <1>1, <1>9 DEF Pre!Predict, Elsewhere
<1>10. CASE Pre!Check
  BY <1>1, <1>10 DEF Pre!Check, Elsewhere
<1>11. CASE Pre!generate_report
  BY <1>1, <1>11 DEF Pre!generate_report, Elsewhere
<1>12. CASE Pre!Verify
  BY <1>1, <1>12 DEF Pre!Verify, Elsewhere
<1>13. CASE Pre!backup_outputs
  BY <1>1, <1>13 DEF Pre!backup_outputs, Elsewhere
<1>14. CASE Pre!compare_all
  BY <1>1, <1>14 DEF Pre!compare_all, Elsewhere
<1>15. QED
  BY <1>1, <1>2, <1>3, <1>4, <1>5, <1>6, <1>7, <1>8, <1>9, <1>10, <1>11, <1>12, <1>13, <1>14 DEF Pre!Next

LEMMA ElsewherePath == Elsewhere /\ PathC!Next => Elsewhere'
<1>1. SUFFICES ASSUME Elsewhere, PathC!Next PROVE Elsewhere'
  OBVIOUS
<1>2. CASE PathC!LoadOriginal
  BY <1>1, <1>2 DEF PathC!LoadOriginal, Elsewhere
<1>3. CASE PathC!ExploreGate
  BY <1>1, <1>3 DEF PathC!ExploreGate, Elsewhere
<1>4. CASE PathC!LoadExpanded
  BY <1>1, <1>4 DEF PathC!LoadExpanded, Elsewhere
<1>5. CASE PathC!run_multi_delay_simulation
  BY <1>1, <1>5 DEF PathC!run_multi_delay_simulation, Elsewhere
<1>6. CASE PathC!Label
  BY <1>1, <1>6 DEF PathC!Label, Elsewhere
<1>7. CASE PathC!Train
  BY <1>1, <1>7 DEF PathC!Train, PathC!TrainedOn, Elsewhere
<1>8. CASE PathC!Compare
  BY <1>1, <1>8 DEF PathC!Compare, Elsewhere
<1>9. CASE PathC!Check
  BY <1>1, <1>9 DEF PathC!Check, Elsewhere
<1>10. CASE PathC!Report
  BY <1>1, <1>10 DEF PathC!Report, Elsewhere
<1>11. QED
  BY <1>1, <1>2, <1>3, <1>4, <1>5, <1>6, <1>7, <1>8, <1>9, <1>10 DEF PathC!Next

LEMMA ElsewhereRefine == Elsewhere /\ Refine!Next => Elsewhere'
<1>1. SUFFICES ASSUME Elsewhere, Refine!Next PROVE Elsewhere'
  OBVIOUS
<1>2. CASE Refine!Load
  BY <1>1, <1>2 DEF Refine!Load, Elsewhere
<1>3. CASE Refine!Label
  BY <1>1, <1>3 DEF Refine!Label, Elsewhere
<1>4. CASE Refine!ExtractFeatures
  BY <1>1, <1>4 DEF Refine!ExtractFeatures, Refine!WithFeatures, Elsewhere
<1>5. CASE Refine!RunArms
  BY <1>1, <1>5 DEF Refine!RunArms, Elsewhere
<1>6. CASE Refine!Ablate
  BY <1>1, <1>6, Zenon DEF Refine!Ablate, Elsewhere
<1>7. CASE Refine!Check
  BY <1>1, <1>7 DEF Refine!Check, Elsewhere
<1>8. CASE Refine!Report
  BY <1>1, <1>8 DEF Refine!Report, Elsewhere
<1>9. QED
  BY <1>1, <1>2, <1>3, <1>4, <1>5, <1>6, <1>7, <1>8 DEF Refine!Next

\* Of dynamic_entry_timing among the studies, whatever its events, bars and
\* lists of thresholds: no look reads a bar after the entry, a protected trade
\* never loses, and each search ends with the best of all it tried.
THEOREM TheDynamicStudyKeepsItsPromises ==
  TimingSpec => [](TimingIsCausal /\ ProtectedTradesPay /\ SearchKeepsBest)
<1> DEFINE Inv == (study = "dynamic" /\ DynamicInv) \/ (study # "dynamic" /\ Elsewhere)
<1>1. TimingInit => Inv
  <2>1. Pre!Init => Elsewhere
    BY PreStart DEF Elsewhere, PreFields
  <2>2. PathC!Init => Elsewhere
    BY DEF PathC!Init, Elsewhere
  <2>3. Refine!Init => Elsewhere
    BY RefineStart DEF Elsewhere, RefineFields
  <2>4. QED
    BY <2>1, <2>2, <2>3, InitInv DEF TimingInit
<1>2. Inv /\ [TimingNext]_<<study, s>> => Inv'
  <2>1. SUFFICES ASSUME Inv, [TimingNext]_<<study, s>> PROVE Inv'
    OBVIOUS
  <2>2. study' = study /\ (s' = s \/ TimingNext)
    BY <2>1 DEF TimingNext
  <2>3. CASE study = "dynamic"
    <3>1. DynamicInv /\ [Next]_s
      BY <2>1, <2>2, <2>3 DEF TimingNext
    <3>2. DynamicInv'
      BY <3>1, NextInv
    <3>3. QED
      BY <2>2, <2>3, <3>2
  <2>4. CASE study # "dynamic"
    <3>1. Elsewhere /\ (s' = s \/ Pre!Next \/ PathC!Next \/ Refine!Next)
      BY <2>1, <2>2, <2>4 DEF TimingNext
    <3>2. CASE s' = s
      BY <2>2, <2>4, <3>1, <3>2 DEF Elsewhere
    <3>3. CASE Pre!Next \/ PathC!Next \/ Refine!Next
      BY <2>2, <2>4, <3>1, <3>3, ElsewherePre, ElsewherePath, ElsewhereRefine
    <3>4. QED
      BY <3>1, <3>2, <3>3
  <2>5. QED
    BY <2>3, <2>4
<1>3. Inv => TimingIsCausal /\ ProtectedTradesPay /\ SearchKeepsBest
  <2>1. DynamicInv => TimingIsCausal /\ ProtectedTradesPay /\ SearchKeepsBest
    BY InvIsCausal, InvPays, InvKeepsBest
  <2>2. Elsewhere => TimingIsCausal /\ ProtectedTradesPay /\ SearchKeepsBest
    BY Zenon DEF Elsewhere, TimingIsCausal, ProtectedTradesPay, SearchKeepsBest
  <2>3. QED
    BY <2>1, <2>2
<1>4. QED
  BY <1>1, <1>2, <1>3, PTL DEF TimingSpec

---------------------------------------------------------------------------
(* The learner of pre_breakout_timing                                      *)

\* What a family scores at a depth: par holds the rules, the family and the rows.
Scored(par, depth) == Pre!loocv_calendar_sum_inline(par.rules[<<par.family, depth>>], par.X, par.y, par.results)
DepthOp(par, best, depth) == Pre!Deeper(best, [depth |-> depth, loocv |-> Scored(par, depth)])
DepthFold == INSTANCE FoldFacts WITH Op <- DepthOp
Deepest(par, depths) == DepthFold!Fold(par, Pre!None, depths)

LEMMA TrainIsFold ==
  \A rules, family, X, y, results :
    Pre!train(rules, family, X, y, results).loocv
      = Deepest([rules |-> rules, family |-> family, X |-> X, y |-> y, results |-> results], Pre!Depths(family))[1].loocv
<1>1. SUFFICES ASSUME NEW rules, NEW family, NEW X, NEW y, NEW results
               PROVE  Pre!train(rules, family, X, y, results).loocv
                        = Deepest([rules |-> rules, family |-> family, X |-> X, y |-> y, results |-> results],
                                  Pre!Depths(family))[1].loocv
  BY Zenon
<1> DEFINE par == [rules |-> rules, family |-> family, X |-> X, y |-> y, results |-> results]
           chosen == Pre!FoldLeft(LAMBDA best, d : Pre!Deeper(best, Pre!Tried(rules, family, d, X, y, results)),
                                  Pre!None, Pre!Depths(family))
<1>2. par.rules = rules /\ par.family = family /\ par.X = X /\ par.y = y /\ par.results = results
  OBVIOUS
<1> HIDE DEF par
<1>3. Pre!train(rules, family, X, y, results).loocv = chosen[1].loocv
  BY DEF Pre!train, Pre!Fitted, Pre!ClassifierResult
<1>4. chosen = Deepest(par, Pre!Depths(family))
  BY <1>2 DEF Pre!FoldLeft, Pre!MapThenFoldSet, Pre!Max, Pre!Tried, Scored, DepthOp, Deepest, DepthFold!Fold,
              DepthFold!Largest
<1>5. QED
  BY <1>3, <1>4, Zenon DEF par

\* The depth that is kept scored most.
LEMMA DeepestScoresMost ==
  \A par : \A q \in Seq(Int) :
    q # << >> /\ (\A i \in 1..Len(q) : Scored(par, q[i]) \in Int) =>
      /\ Deepest(par, q) = <<Deepest(par, q)[1]>> /\ Deepest(par, q)[1].loocv \in Int
      /\ \A i \in 1..Len(q) : Scored(par, q[i]) <= Deepest(par, q)[1].loocv
<1>1. SUFFICES ASSUME NEW par
               PROVE  \A q \in Seq(Int) :
                        q # << >> /\ (\A i \in 1..Len(q) : Scored(par, q[i]) \in Int) =>
                          /\ Deepest(par, q) = <<Deepest(par, q)[1]>> /\ Deepest(par, q)[1].loocv \in Int
                          /\ \A i \in 1..Len(q) : Scored(par, q[i]) <= Deepest(par, q)[1].loocv
  OBVIOUS
<1> DEFINE F(q) == Deepest(par, q)
           V(d) == Scored(par, d)
           T == {q \in Seq(Int) :
                   q # << >> /\ (\A i \in 1..Len(q) : V(q[i]) \in Int) =>
                     /\ F(q) = <<F(q)[1]>> /\ F(q)[1].loocv \in Int
                     /\ \A i \in 1..Len(q) : V(q[i]) <= F(q)[1].loocv}
<1>2. << >> \in T
  BY EmptySeq
<1>3. ASSUME NEW q \in Seq(Int), NEW x \in Int, q \in T PROVE Append(q, x) \in T
  <2> DEFINE a == Append(q, x)
             tried == [depth |-> x, loocv |-> V(x)]
  <2>1. F(a) = IF F(q) = << >> \/ tried.loocv > F(q)[1].loocv THEN <<tried>> ELSE F(q)
    BY DepthFold!FoldAppend DEF Deepest, DepthOp, Pre!Deeper, Pre!None
  <2>2. /\ a \in Seq(Int) /\ Len(a) = Len(q) + 1 /\ a[Len(q) + 1] = x /\ Len(q) \in Nat
        /\ \A i \in 1..Len(q) : a[i] = q[i]
    OBVIOUS
  <2>3. q = << >> => F(q) = << >>
    BY DepthFold!FoldEmpty DEF Deepest, Pre!None
  <2>4. tried.loocv = V(x)
    OBVIOUS
  <2> HIDE DEF F, V, a, tried
  <2>5. SUFFICES ASSUME \A i \in 1..Len(a) : V(a[i]) \in Int
                 PROVE  /\ F(a) = <<F(a)[1]>> /\ F(a)[1].loocv \in Int
                        /\ \A i \in 1..Len(a) : V(a[i]) <= F(a)[1].loocv
    <3>1. (\A i \in 1..Len(a) : V(a[i]) \in Int) =>
            /\ F(a) = <<F(a)[1]>> /\ F(a)[1].loocv \in Int
            /\ \A i \in 1..Len(a) : V(a[i]) <= F(a)[1].loocv
      BY <2>5
    <3>2. QED
      BY <2>2, <3>1, Zenon DEF a
  <2>6. V(x) \in Int /\ \A i \in 1..Len(q) : V(q[i]) \in Int
    BY <2>2, <2>5
  <2>7. CASE q = << >>
    <3>1. F(a) = <<tried>> /\ Len(q) = 0
      BY <2>1, <2>3, <2>7
    <3>2. QED
      BY <2>2, <2>4, <2>6, <3>1
  <2>8. CASE q # << >>
    <3>1. /\ F(q) = <<F(q)[1]>> /\ F(q)[1].loocv \in Int
          /\ \A i \in 1..Len(q) : V(q[i]) <= F(q)[1].loocv
      BY <1>3, <2>6, <2>8
    <3> DEFINE top == F(q)[1].loocv
    <3>2. F(q) # << >>
      <4> DEFINE kept == F(q)[1]
      <4>1. <<kept>> # << >>
        <5> HIDE DEF kept
        <5>1. QED
          OBVIOUS
      <4>2. QED
        BY <3>1, <4>1, Zenon
    <3>3. CASE tried.loocv > F(q)[1].loocv
      <4>1. F(a) = <<tried>> /\ F(a)[1] = tried
        BY <2>1, <3>3
      <4>2. \A i \in 1..Len(a) : V(a[i]) <= V(x)
        <5>1. SUFFICES ASSUME NEW i \in 1..Len(a) PROVE V(a[i]) <= V(x)
          OBVIOUS
        <5>2. CASE i = Len(q) + 1
          BY <2>2, <2>6, <5>2
        <5>3. CASE i \in 1..Len(q)
          <6>1. V(q[i]) <= top /\ V(q[i]) \in Int /\ top \in Int /\ V(x) > top
            BY <2>4, <2>6, <3>1, <3>3, <5>3
          <6> HIDE DEF top
          <6>2. QED
            BY <2>2, <2>6, <5>3, <6>1
        <5>4. QED
          BY <2>2, <5>2, <5>3
      <4>3. QED
        BY <2>4, <2>6, <4>1, <4>2
    <3>4. CASE ~(tried.loocv > F(q)[1].loocv)
      <4>1. F(a) = F(q)
        BY <2>1, <3>2, <3>4
      <4>2. \A i \in 1..Len(a) : V(a[i]) <= F(q)[1].loocv
        BY <2>2, <2>4, <2>6, <3>1, <3>4, SMTT(30)
      <4>3. QED
        BY <3>1, <4>1, <4>2
    <3>5. QED
      BY <3>3, <3>4
  <2>9. QED
    BY <2>7, <2>8
<1> HIDE DEF T
<1>4. \A q \in Seq(Int) : q \in T
  BY <1>2, <1>3, Select!SeqInduction
<1>5. QED
  BY <1>4 DEF T

\* The rows the learners are trained on, of the fields they are made from.
KeptAt(labels, split) == UnskippedOf(SubSeq(labels, 1, split))
XOf(rows, labels, split) == Pre!At(rows.train, KeptAt(labels, split))
YOf(labels, split) == Pre!At(labels, KeptAt(labels, split))
ResultsOf(results, labels, split) == Pre!At(results, KeptAt(labels, split))

ParOf(env, rows, labels, split, results, family) ==
  [rules |-> env.rules, family |-> family, X |-> XOf(rows, labels, split), y |-> YOf(labels, split),
   results |-> ResultsOf(results, labels, split)]

TrainedOf(env, rows, labels, split, results, family) ==
  Pre!train(env.rules, family, XOf(rows, labels, split), YOf(labels, split), ResultsOf(results, labels, split))

FourOf(env, rows, labels, split, results) ==
  <<TrainedOf(env, rows, labels, split, results, "RuleBased_DT3"),
    TrainedOf(env, rows, labels, split, results, "DecisionTree"),
    TrainedOf(env, rows, labels, split, results, "RandomForest"),
    TrainedOf(env, rows, labels, split, results, "LogisticRegression")>>

LEMMA KeptRows ==
  /\ Pre!KeptX = XOf(s.rows, s.labels, s.split) /\ Pre!KeptY = YOf(s.labels, s.split)
  /\ Pre!KeptResults = ResultsOf(s.results, s.labels, s.split)
BY DEF Pre!KeptX, Pre!KeptY, Pre!KeptResults, Pre!Kept, Pre!TrainOf, XOf, YOf, ResultsOf, KeptAt, UnskippedOf

\* The events that were read, the results they gave, and the rows with a label.
IsTouched(events, cache, split) ==
  GoodCache(cache) /\ split \in 0..Len(events) /\ \E S : events \in Seq(S) /\ \A e \in S : IsTouch(e)
IsSimulated(results, split) == AreDelays(results) /\ split \in 0..Len(results)
IsLabelled(results, labels, split) == AreDelays(results) /\ KeptAt(labels, split) \in Seq(1..Len(results))

\* What is inductive: the results are those of the bars, the learners were
\* trained on the rows that are still there, and the best of them was taken.
LearnInv ==
  /\ PreFields \subseteq DOMAIN s /\ s.env \in PreEnvironments
  /\ s.at = "simulate" => IsTouched(s.events, s.cache, s.split)
  /\ s.at = "label" => IsSimulated(s.results, s.split)
  /\ s.at \in {"features", "train", "pullback", "predict", "check"} => IsLabelled(s.results, s.labels, s.split)
  /\ s.at \in {"pullback", "predict", "check"} =>
       s.classifiers = FourOf(s.env, s.rows, s.labels, s.split, s.results)
  /\ s.at = "check" => s.best = <<Pre!Best(s.classifiers)>>

LEMMA PreByTouch == \A events : Pre!ByTouch(events) = ByTouch(events)
BY DEF Pre!ByTouch, ByTouch, Pre!FoldLeft, FoldLeft, Pre!MapThenFoldSet, MapThenFoldSet, Pre!Max, Max, Pre!Insert, Insert,
       Pre!InsertAt, InsertAt, Pre!Cardinality, Cardinality, Pre!IsFiniteSet, IsFiniteSet

\* The events and the bars are read.
LEMMA LearnInvLoad == ASSUME LearnInv, Pre!Load PROVE LearnInv'
<1>1. PreFields \subseteq DOMAIN s /\ s.env \in PreEnvironments
  BY DEF LearnInv
<1> DEFINE found == load_v6_gate_events(s.env.ledger, s.env.events)
           events == ByTouch(found)
           split == (6 * Len(events)) \div 10
           cache == Pre!load_bars_cache(events, s.env.files)
<1>2. s' = [s EXCEPT !.at = "simulate", !.events = events, !.split = split, !.cache = cache]
  BY PreLoad, PreByTouch, Zenon DEF Pre!Load, Pre!Sorted, Pre!Split
<1>3. AreInputs(s.env)
  BY <1>1, PreAssumption
<1>4. GoodCache(cache)
  BY <1>3 DEF GoodCache, Pre!load_bars_cache, AreInputs
<1> DEFINE R == Range(s.env.ledger)
           S == Range(s.env.events)
<1>5. /\ s.env.ledger \in Seq(R) /\ s.env.events \in Seq(S)
      /\ (\A r \in R : r.time \in Int) /\ (\A e \in S : IsTouch(e)) /\ (\A e \in S : e.touch \in Int)
  BY <1>3 DEF AreInputs, IsSequence, IsTouch
<1> HIDE DEF R, S
<1>6. found \in Seq(S)
  BY <1>5, LoadType
<1> HIDE DEF found
<1>7. events \in Seq(S)
  BY <1>6, ByTouchType
<1> HIDE DEF events, cache
<1>8. split \in 0..Len(events)
  BY <1>7
<1> HIDE DEF split
<1>9. /\ DOMAIN s' = DOMAIN s /\ s'.at = "simulate" /\ s'.env = s.env /\ s'.events = events
      /\ s'.split = split /\ s'.cache = cache
  BY <1>1, <1>2 DEF PreFields
<1>10. IsTouched(s'.events, s'.cache, s'.split)
  BY <1>4, <1>5, <1>7, <1>8, <1>9 DEF IsTouched
<1>11. QED
  BY <1>1, <1>9, <1>10 DEF LearnInv

\* The delays are simulated.
LEMMA LearnInvSimulate == ASSUME LearnInv, Pre!Simulate PROVE LearnInv'
<1>1. PreFields \subseteq DOMAIN s /\ s.env \in PreEnvironments /\ IsTouched(s.events, s.cache, s.split)
  BY SMTT(30) DEF LearnInv, Pre!Simulate
<1> DEFINE results == Pre!simulate(s.events, s.cache)
<1>2. \E a, b : s' = [s EXCEPT !.at = "label", !.results = results, !.files = a, !.baselines = b]
  BY Zenon DEF Pre!Simulate
<1>3. AreDelays(results) /\ Len(results) = Len(s.events)
  BY <1>1, PreSimulated DEF IsTouched
<1> HIDE DEF results
<1>4. DOMAIN s' = DOMAIN s /\ s'.at = "label" /\ s'.env = s.env /\ s'.results = results /\ s'.split = s.split
  BY <1>1, <1>2 DEF PreFields
<1>5. IsSimulated(s'.results, s'.split)
  BY <1>1, <1>3, <1>4 DEF IsSimulated, IsTouched
<1>6. QED
  BY <1>1, <1>4, <1>5 DEF LearnInv

\* The labels are taken from the results.
LEMMA LearnInvLabel == ASSUME LearnInv, Pre!Label PROVE LearnInv'
<1>1. PreFields \subseteq DOMAIN s /\ s.env \in PreEnvironments /\ IsSimulated(s.results, s.split)
  BY SMTT(30) DEF LearnInv, Pre!Label
<1> DEFINE labels == Pre!compute_optimal_labels(s.results)
           n == Len(s.results)
<1>2. \E a, b : s' = [s EXCEPT !.at = "features", !.labels = labels, !.oracle = a, !.files = b]
  BY Zenon DEF Pre!Label
<1>3. n \in Nat /\ s.split \in 0..n /\ AreDelays(s.results)
  BY <1>1 DEF IsSimulated, AreDelays
<1>4. \E S : labels \in Seq(S) /\ Len(labels) = n
  <2> DEFINE L(i) == IF Pre!Traded(s.results[i]) = << >> THEN "skip" ELSE Pre!OptimalLabel(Pre!Traded(s.results[i]))
             S == {L(i) : i \in 1..n}
  <2>1. labels = [i \in 1..n |-> L(i)]
    BY DEF Pre!compute_optimal_labels
  <2> HIDE DEF labels, L, n
  <2>2. labels \in Seq(S) /\ Len(labels) = n
    BY <1>3, <2>1
  <2>3. QED
    BY <2>2
<1> HIDE DEF labels, n
<1>5. KeptAt(labels, s.split) \in Seq(1..n)
  <2> DEFINE part == SubSeq(labels, 1, s.split)
  <2>1. Len(part) = s.split /\ s.split \in Nat
    BY <1>3, <1>4
  <2> HIDE DEF part
  <2>2. UnskippedOf(part) \in Seq(1..s.split)
    BY <2>1, PreSkipped
  <2> DEFINE a == UnskippedOf(part)
             A == 1..s.split
             B == 1..n
  <2>3. a \in Seq(A) /\ A \subseteq B
    BY <1>3, <2>2
  <2> HIDE DEF a, A, B
  <2>4. Len(a) \in Nat /\ a \in [1..Len(a) -> B]
    BY <2>3
  <2>5. a \in Seq(B)
    BY <2>4
  <2>6. QED
    BY <2>5 DEF KeptAt, part, a, B
<1>6. DOMAIN s' = DOMAIN s /\ s'.at = "features" /\ s'.env = s.env /\ s'.results = s.results /\ s'.split = s.split
      /\ s'.labels = labels
  BY <1>1, <1>2 DEF PreFields
<1>7. IsLabelled(s'.results, s'.labels, s'.split)
  BY <1>3, <1>5, <1>6 DEF IsLabelled, n
<1>8. QED
  BY <1>1, <1>6, <1>7 DEF LearnInv

LEMMA LearnInvFeatures == ASSUME LearnInv, Pre!ExtractFeatures PROVE LearnInv'
<1>1. PreFields \subseteq DOMAIN s /\ s.env \in PreEnvironments /\ IsLabelled(s.results, s.labels, s.split)
  BY DEF LearnInv, Pre!ExtractFeatures
<1>2. \E a, b, c : s' = [s EXCEPT !.at = "train", !.used = a, !.excluded = b, !.rows = c]
  BY Zenon DEF Pre!ExtractFeatures
<1>3. DOMAIN s' = DOMAIN s /\ s'.at = "train" /\ s'.env = s.env /\ s'.results = s.results /\ s'.split = s.split
      /\ s'.labels = s.labels
  BY <1>1, <1>2 DEF PreFields
<1>4. QED
  BY <1>1, <1>3 DEF LearnInv

LEMMA LearnInvTrain == ASSUME LearnInv, Pre!Train PROVE LearnInv'
<1>1. PreFields \subseteq DOMAIN s /\ s.env \in PreEnvironments /\ IsLabelled(s.results, s.labels, s.split)
  BY DEF LearnInv, Pre!Train
<1> DEFINE four == FourOf(s.env, s.rows, s.labels, s.split, s.results)
<1>2. s' = [s EXCEPT !.at = "failed"] \/ s' = [s EXCEPT !.at = "pullback", !.classifiers = four]
  BY KeptRows DEF Pre!Train, Pre!TrainedOn, FourOf, TrainedOf, Pre!train_rule_based_classifier, Pre!train_decision_tree,
                  Pre!train_random_forest, Pre!train_logistic_regression
<1> HIDE DEF four
<1>3. DOMAIN s' = DOMAIN s /\ s'.env = s.env /\ s'.rows = s.rows /\ s'.labels = s.labels /\ s'.split = s.split
      /\ s'.results = s.results
  BY <1>1, <1>2, Zenon DEF PreFields
<1>4. s'.at = "failed" \/ (s'.at = "pullback" /\ s'.classifiers = four)
  BY <1>1, <1>2, Zenon DEF PreFields
<1>5. QED
  BY <1>1, <1>3, <1>4 DEF LearnInv, four

LEMMA LearnInvPredict == ASSUME LearnInv, Pre!OptimisePullback \/ Pre!Predict PROVE LearnInv'
<1>1. PreFields \subseteq DOMAIN s /\ s.env \in PreEnvironments /\ IsLabelled(s.results, s.labels, s.split)
  BY DEF LearnInv, Pre!OptimisePullback, Pre!Predict
<1>2. CASE Pre!OptimisePullback
  <2>1. s.at = "pullback" /\ \E p : s' = [s EXCEPT !.at = "predict", !.pullback = p]
    BY <1>2, Zenon DEF Pre!OptimisePullback
  <2>2. /\ DOMAIN s' = DOMAIN s /\ s'.env = s.env /\ s'.rows = s.rows /\ s'.labels = s.labels /\ s'.split = s.split
        /\ s'.results = s.results /\ s'.classifiers = s.classifiers /\ s'.at = "predict"
    BY <1>1, <2>1 DEF PreFields
  <2>3. QED
    BY <1>1, <2>1, <2>2 DEF LearnInv
<1>3. CASE Pre!Predict
  <2> DEFINE b == Pre!Best(s.classifiers)
  <2>1. s.at = "predict" /\ \E p : s' = [s EXCEPT !.at = "check", !.best = <<b>>, !.applied = p]
    BY <1>3, Zenon DEF Pre!Predict
  <2> HIDE DEF b
  <2>2. /\ DOMAIN s' = DOMAIN s /\ s'.env = s.env /\ s'.rows = s.rows /\ s'.labels = s.labels /\ s'.split = s.split
        /\ s'.results = s.results /\ s'.classifiers = s.classifiers /\ s'.at = "check" /\ s'.best = <<b>>
    BY <1>1, <2>1 DEF PreFields
  <2>3. s'.best = <<Pre!Best(s'.classifiers)>>
    BY <2>2 DEF b
  <2>4. QED
    BY <1>1, <2>1, <2>2, <2>3 DEF LearnInv
<1>4. QED
  BY <1>2, <1>3

\* The other steps come to other places.
LEMMA LearnInvOther ==
  ASSUME LearnInv, \/ Pre!run_delay_simulation \/ Pre!Check \/ Pre!generate_report \/ Pre!Verify
                   \/ Pre!backup_outputs \/ Pre!compare_all
  PROVE  LearnInv'
<1>1. PreFields \subseteq DOMAIN s /\ s.env \in PreEnvironments
  BY DEF LearnInv
<1>2. DOMAIN s' = DOMAIN s /\ s'.env = s.env /\ s'.at \in {"load", "report", "verify", "determinism", "end"}
  <2>1. CASE Pre!run_delay_simulation
    BY <1>1, <2>1 DEF Pre!run_delay_simulation, PreFields
  <2>2. CASE Pre!Check
    BY <1>1, <2>2 DEF Pre!Check, PreFields
  <2>3. CASE Pre!generate_report
    BY <1>1, <2>3 DEF Pre!generate_report, PreFields
  <2>4. CASE Pre!Verify
    BY <1>1, <2>4 DEF Pre!Verify, PreFields
  <2>5. CASE Pre!backup_outputs
    BY <1>1, <2>5 DEF Pre!backup_outputs, PreFields
  <2>6. CASE Pre!compare_all
    BY <1>1, <2>6 DEF Pre!compare_all, PreFields
  <2>7. QED
    BY <2>1, <2>2, <2>3, <2>4, <2>5, <2>6
<1>3. QED
  BY <1>1, <1>2 DEF LearnInv

\* The learner that is taken scored at least as much as any of the four.
LEMMA BestOfFour ==
  ASSUME NEW c, Len(c) = 4, \A j \in 1..4 : c[j].loocv \in Int
  PROVE  /\ \A j \in 1..4 : c[j].loocv <= Pre!Best(c).loocv
         /\ Pre!Best(c).loocv \in Int
<1> DEFINE v == [i \in 1..4 |-> c[i].loocv]
           S == {i \in 1..4 : \A j \in 1..4 : c[j].loocv <= c[i].loocv}
<1>1. \A i \in 1..4 : v[i] \in Int
  OBVIOUS
<1>2. \E i \in 1..4 : \A j \in 1..4 : v[j] <= v[i]
  <2> HIDE DEF v
  <2>1. 4 \in 1..6
    OBVIOUS
  <2>2. QED
    BY <1>1, <2>1, LargestOfSix
<1>3. S # {} /\ S \subseteq Nat
  BY <1>2
<1>4. Pre!Best(c) = c[Pre!Min(S)]
  BY DEF Pre!Best
<1>5. Pre!Min(S) \in S
  <2> HIDE DEF S
  <2>1. \E x \in S : \A y \in S : x <= y
    BY <1>3, LeastExists, Zenon
  <2>2. QED
    BY <2>1, Zenon DEF Pre!Min
<1>6. QED
  BY <1>4, <1>5, Zenon

\* The scores by which the learners are chosen are numbers.
LEMMA ScoresAreNumbers ==
  ASSUME IsLabelled(s.results, s.labels, s.split)
  PROVE  \A rule : Pre!loocv_calendar_sum_inline(rule, Pre!KeptX, Pre!KeptY, Pre!KeptResults) \in Int
<1> DEFINE kept == KeptAt(s.labels, s.split)
           y == YOf(s.labels, s.split)
           results == ResultsOf(s.results, s.labels, s.split)
<1>1. kept \in Seq(1..Len(s.results)) /\ AreDelays(s.results)
  BY DEF IsLabelled
<1>2. y = Pre!At(s.labels, kept) /\ results = Pre!At(s.results, kept)
  BY DEF YOf, ResultsOf
<1> HIDE DEF kept, y, results
<1>3. AreDelays(results) /\ Len(results) = Len(kept)
  BY <1>1, <1>2, DelaysAt, SMTT(30) DEF Pre!At
<1>4. Len(y) = Len(kept) /\ Len(kept) \in Nat
  BY <1>1, <1>2 DEF Pre!At
<1>5. \A rule, X : Pre!loocv_calendar_sum_inline(rule, X, y, results) \in Int
  BY <1>3, <1>4, PreLeftOutIsInt
<1>6. QED
  BY <1>5, KeptRows DEF y, results

LEMMA DepthsAre ==
  /\ Pre!Depths("RuleBased_DT3") = <<3>> /\ Pre!Depths("DecisionTree") = <<2, 3, 4, 5>>
  /\ Pre!Depths("RandomForest") = <<3, 4, 5>> /\ Pre!Depths("LogisticRegression") = <<3>>
  /\ \A family : Pre!Depths(family) \in Seq(Int) /\ Pre!Depths(family) # << >>
BY DEF Pre!Depths

LEMMA TrainedScores ==
  ASSUME NEW env, NEW rows, NEW labels, NEW split, NEW results, NEW family,
         NEW par, par = ParOf(env, rows, labels, split, results, family),
         \A i \in 1..Len(Pre!Depths(family)) : Scored(par, Pre!Depths(family)[i]) \in Int
  PROVE  /\ TrainedOf(env, rows, labels, split, results, family).loocv \in Int
         /\ \A i \in 1..Len(Pre!Depths(family)) :
              Scored(par, Pre!Depths(family)[i]) <= TrainedOf(env, rows, labels, split, results, family).loocv
<1> DEFINE q == Pre!Depths(family)
<1>1. TrainedOf(env, rows, labels, split, results, family).loocv = Deepest(par, q)[1].loocv
  BY TrainIsFold DEF TrainedOf, ParOf
<1>2. q \in Seq(Int) /\ q # << >>
  BY DepthsAre
<1> HIDE DEF q
<1>3. Deepest(par, q)[1].loocv \in Int /\ \A i \in 1..Len(q) : Scored(par, q[i]) <= Deepest(par, q)[1].loocv
  BY <1>2, DeepestScoresMost DEF q
<1>4. QED
  BY <1>1, <1>3 DEF q

LEMMA LearnedIsBest == LearnInv /\ study = "pre" => ChosenLearnerIsBest
<1> DEFINE V(k) == Pre!loocv_calendar_sum_inline(s.env.rules[k], Pre!KeptX, Pre!KeptY, Pre!KeptResults)
           c == s.classifiers
           P(family) == ParOf(s.env, s.rows, s.labels, s.split, s.results, family)
           L(family) == TrainedOf(s.env, s.rows, s.labels, s.split, s.results, family)
<1>1. SUFFICES ASSUME LearnInv, study = "pre", s.at = "check",
                      NEW family \in {"DecisionTree", "RandomForest"}, NEW depth \in 3..5
               PROVE  V(<<family, depth>>) <= s.best[1].loocv
  BY DEF ChosenLearnerIsBest
<1>2. \A f, d : Scored(P(f), d) = V(<<f, d>>)
  BY KeptRows DEF Scored, ParOf
<1>3. \A f \in Pre!Families : \A i \in 1..Len(Pre!Depths(f)) : V(<<f, Pre!Depths(f)[i]>>) \in Int
  BY <1>1, ScoresAreNumbers DEF LearnInv
<1>4. c = <<L("RuleBased_DT3"), L("DecisionTree"), L("RandomForest"), L("LogisticRegression")>>
      /\ s.best[1] = Pre!Best(c)
  BY <1>1 DEF LearnInv, FourOf
<1> HIDE DEF V
<1>5. \A f \in Pre!Families : /\ L(f).loocv \in Int
                              /\ \A i \in 1..Len(Pre!Depths(f)) : V(<<f, Pre!Depths(f)[i]>>) <= L(f).loocv
  <2>1. SUFFICES ASSUME NEW f \in Pre!Families
                 PROVE  /\ L(f).loocv \in Int
                        /\ \A i \in 1..Len(Pre!Depths(f)) : V(<<f, Pre!Depths(f)[i]>>) <= L(f).loocv
    OBVIOUS
  <2>2. \A i \in 1..Len(Pre!Depths(f)) : Scored(P(f), Pre!Depths(f)[i]) \in Int
    BY <1>2, <1>3, Zenon
  <2>3. /\ L(f).loocv \in Int
        /\ \A i \in 1..Len(Pre!Depths(f)) : Scored(P(f), Pre!Depths(f)[i]) <= L(f).loocv
    BY <2>2, TrainedScores
  <2>4. QED
    BY <1>2, <2>3
<1> HIDE DEF P, L, c
<1>6. Len(c) = 4 /\ c[1] = L("RuleBased_DT3") /\ c[2] = L("DecisionTree") /\ c[3] = L("RandomForest")
      /\ c[4] = L("LogisticRegression")
  BY <1>4
<1>7. \A j \in 1..4 : c[j].loocv \in Int
  <2>1. \A j \in 1..4 : j = 1 \/ j = 2 \/ j = 3 \/ j = 4
    OBVIOUS
  <2>2. QED
    BY <1>5, <1>6, <2>1 DEF Pre!Families
<1>8. (\A j \in 1..4 : c[j].loocv <= Pre!Best(c).loocv) /\ Pre!Best(c).loocv \in Int
  BY <1>6, <1>7, BestOfFour
<1>9. L(family).loocv <= Pre!Best(c).loocv /\ L(family).loocv \in Int
  <2>1. 2 \in 1..4 /\ 3 \in 1..4
    OBVIOUS
  <2>2. QED
    BY <1>6, <1>7, <1>8, <2>1
<1>10. \E i \in 1..Len(Pre!Depths(family)) : Pre!Depths(family)[i] = depth
  <2>1. CASE family = "DecisionTree"
    <3>1. Len(Pre!Depths(family)) = 4 /\ Pre!Depths(family)[2] = 3 /\ Pre!Depths(family)[3] = 4 /\ Pre!Depths(family)[4] = 5
      BY <2>1, DepthsAre, SMTT(30)
    <3>2. QED
      BY <3>1
  <2>2. CASE family = "RandomForest"
    <3>1. Len(Pre!Depths(family)) = 3 /\ Pre!Depths(family)[1] = 3 /\ Pre!Depths(family)[2] = 4 /\ Pre!Depths(family)[3] = 5
      BY <2>2, DepthsAre
    <3>2. QED
      BY <3>1
  <2>3. QED
    BY <2>1, <2>2
<1>11. V(<<family, depth>>) <= L(family).loocv /\ V(<<family, depth>>) \in Int
  BY <1>3, <1>5, <1>10 DEF Pre!Families
<1>12. QED
  BY <1>4, <1>8, <1>9, <1>11

\* Of the study of pre_breakout_timing, whatever its events, bars and learners:
\* no depth of the tree or of the forest scored more than the learner that is
\* taken, though each family keeps its own best depth first and the families
\* are compared after that.
THEOREM TheLearnerTakenIsTheBest == TimingSpec => []ChosenLearnerIsBest
<1> DEFINE Inv == study = "pre" => LearnInv
<1>1. TimingInit => Inv
  BY PreStart DEF TimingInit, LearnInv
<1>2. Inv /\ [TimingNext]_<<study, s>> => Inv'
  <2>1. SUFFICES ASSUME Inv, [TimingNext]_<<study, s>>, study' = "pre" PROVE LearnInv'
    OBVIOUS
  <2>2. study = "pre" /\ LearnInv /\ (Pre!Next \/ s' = s)
    BY <2>1 DEF TimingNext
  <2>3. CASE s' = s
    BY <2>2, <2>3 DEF LearnInv
  <2>4. CASE Pre!Next
    BY <2>2, <2>4, LearnInvLoad, LearnInvSimulate, LearnInvLabel, LearnInvFeatures, LearnInvTrain, LearnInvPredict,
       LearnInvOther DEF Pre!Next
  <2>5. QED
    BY <2>2, <2>3, <2>4
<1>3. Inv => ChosenLearnerIsBest
  <2>1. CASE study = "pre"
    BY <2>1, LearnedIsBest
  <2>2. CASE study # "pre"
    BY <2>2 DEF ChosenLearnerIsBest
  <2>3. QED
    BY <2>1, <2>2
<1>4. QED
  BY <1>1, <1>2, <1>3, PTL DEF TimingSpec
============================================================================
