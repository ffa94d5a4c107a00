---------------------------- MODULE BacktestProofs ----------------------------
(***************************************************************************)
(* Proofs about the engines of research/backTest.py, for every data set,   *)
(* every parameter set and every number of bars and quotes.  The argument  *)
(* is about what one quote does to the state of the loop (the lemmas on    *)
(* FlatSide, HoldStep, MinuteFlat and MinuteHold); what the actions of the *)
(* three engines add is the frame around it.  The last part is about the   *)
(* readers of a trade log: they report exactly the pairs of the log, once  *)
(* each, for every log of every length.  What a reader remembers is the    *)
(* last entry no exit has used: that fact about the rows read so far is    *)
(* the inductive invariant (ReaderInv).                                    *)
(***************************************************************************)
EXTENDS MCBacktest, FiniteSetTheorems, TLAPS

Reasons == {"Initial", "Zero", "SL", "PT"}
ExitReasons == {"none", "SL", "PT", "PT-T2", "PT-T3"}

------------------------------------------------------------------------------
(* Arithmetic and the helpers of the strategy                               *)

\* The smaller of two integers is one of them and exceeds neither.
LEMMA MinOfTwo ==
  ASSUME NEW a \in Int, NEW b \in Int
  PROVE  Min({a, b}) \in {a, b} /\ Min({a, b}) <= a /\ Min({a, b}) <= b
<1>1. \E x \in {a, b} : \A y \in {a, b} : x =< y
  OBVIOUS
<1>2. QED
  BY <1>1 DEF Min

\* The larger of two integers is one of them and is below neither.
LEMMA MaxOfTwo ==
  ASSUME NEW a \in Int, NEW b \in Int
  PROVE  Max({a, b}) \in {a, b} /\ Max({a, b}) >= a /\ Max({a, b}) >= b
<1>1. \E x \in {a, b} : \A y \in {a, b} : x >= y
  OBVIOUS
<1>2. QED
  BY <1>1 DEF Max

\* A parameter set has the types the code relies on.
LEMMA SettingTypes ==
  ASSUME NEW p \in Settings
  PROVE  /\ p.stop \in Int /\ p.slip \in Int /\ p.maxTrades \in Nat /\ p.trail \in Int
         /\ p.activation \in Int /\ p.protect \in Int /\ p.cooldown \in Nat
         /\ p.reentry.long \in Int /\ p.reentry.short \in Int
         /\ p.stopMode \in {"structural", "atr", "hybrid_tighter", "hybrid_wider"}
         /\ p.schedule \in Seq(Nat \ {0}) /\ p.schedule # <<>>
         /\ p.zeroInitial \in BOOLEAN
BY SettingsAssumption

\* A signal bar holds integers.
LEMMA SignalTypes ==
  ASSUME NEW s \in Signals
  PROVE  /\ s.high2 \in Int /\ s.high1 \in Int /\ s.low1 \in Int /\ s.low2 \in Int
         /\ s.half \in Int /\ s.body.long \in Int /\ s.body.short \in Int
BY DataAssumption

\* So does a quote.
LEMMA QuoteTypes ==
  ASSUME NEW q \in Quotes
  PROVE  q.o \in Int /\ q.h \in Int /\ q.l \in Int /\ q.c \in Int
BY DataAssumption

\* Every size of a schedule is positive.
LEMMA ScheduleIsPositive ==
  ASSUME NEW p \in Settings, NEW i \in 1..Len(p.schedule)
  PROVE  p.schedule[i] \in Nat \ {0}
BY SettingTypes

\* A schedule has a first size.
LEMMA ScheduleHasFirst ==
  ASSUME NEW p \in Settings
  PROVE  Len(p.schedule) \in Nat /\ Len(p.schedule) >= 1
BY SettingTypes

\* _get_reentry_size is a size or zero, _get_reentry_window_real_order_size a
\* positive size, however many trades the bar has seen.
LEMMA SizesOfReentries ==
  ASSUME NEW p \in Settings, NEW n \in Nat
  PROVE  /\ get_reentry_size(n, p.schedule) \in Nat
         /\ get_reentry_window_real_order_size(n, p.schedule) \in Nat \ {0}
<1> DEFINE m == Len(p.schedule)
<1>1. m \in Int /\ m >= 1 /\ n + 1 \in Int /\ n \in Int
  BY ScheduleHasFirst
<1> HIDE DEF m
<1>a. Min({n + 1, m}) \in {n + 1, m} /\ Min({n + 1, m}) <= n + 1 /\ Min({n + 1, m}) <= m
  BY <1>1, MinOfTwo, Zenon
<1>b. Min({n, m}) \in {n, m} /\ Min({n, m}) <= n /\ Min({n, m}) <= m
  BY <1>1, MinOfTwo, Zenon
<1>2. Min({n + 1, m}) \in 1..m
  BY <1>1, <1>a
<1>3. n > 0 => Min({n, m}) \in 1..m
  BY <1>1, <1>b
<1>4. p.schedule[Min({n + 1, Len(p.schedule)})] \in Nat \ {0}
  BY <1>2, ScheduleIsPositive DEF m
<1>5. n > 0 => p.schedule[Min({n, Len(p.schedule)})] \in Nat \ {0}
  BY <1>3, ScheduleIsPositive DEF m
<1>6. QED
  BY <1>4, <1>5 DEF get_reentry_size, get_reentry_window_real_order_size

\* The levels of a bar are integers.
LEMMA LevelTypes ==
  ASSUME NEW side \in Sides, NEW s \in Signals
  PROVE  BackLevel(side, s) \in Int /\ BreakLevel(side, s) \in Int /\ Dir(side) \in {1, -1}
BY SignalTypes DEF BackLevel, BreakLevel, Dir, Sides

\* So is a number of half ATRs.
LEMMA DistType ==
  ASSUME NEW n \in Int, NEW s \in Signals
  PROVE  Dist(n, s) \in Int
BY SignalTypes DEF Dist

\* Better is one of its two prices, and at or beyond the second.
LEMMA BetterOf ==
  ASSUME NEW side \in Sides, NEW a \in Int, NEW b \in Int
  PROVE  /\ Better(side, a, b) \in {a, b} /\ Better(side, a, b) \in Int
         /\ Beyond(side, Better(side, a, b), a) /\ Beyond(side, Better(side, a, b), b)
BY DEF Better, Beyond, Dir, Sides

\* Beyond is a pre-order.
LEMMA BeyondOrder ==
  ASSUME NEW side \in Sides, NEW a \in Int, NEW b \in Int, NEW c \in Int
  PROVE  Beyond(side, a, a) /\ (Beyond(side, a, b) /\ Beyond(side, b, c) => Beyond(side, a, c))
BY DEF Beyond, Dir, Sides

\* _resolve_stop_price returns a price.
LEMMA StopPriceType ==
  ASSUME NEW side \in Sides, NEW entry \in Int, NEW s \in Signals, NEW p \in Settings
  PROVE  resolve_stop_price(side, entry, s, p) \in Int
<1> DEFINE d == Dist(p.stop, s)
           atr == entry - Dir(side) * d
           back == BackLevel(side, s)
<1>1. d \in Int /\ back \in Int /\ Dir(side) \in {1, -1}
  BY DistType, LevelTypes, SettingTypes
<1>2. atr \in Int
  BY <1>1
<1>3. Better(side, back, atr) \in Int
  BY <1>1, <1>2, BetterOf
<1>4. p.stopMode \in {"structural", "atr", "hybrid_tighter", "hybrid_wider"}
  BY SettingTypes
<1> HIDE DEF d
<1>5. QED
  BY <1>1, <1>2, <1>3, <1>4 DEF resolve_stop_price, d

\* A re-entry price is a price, and so is the price of a triggered re-entry.
LEMMA ReentryPriceType ==
  ASSUME NEW side \in Sides, NEW s \in Signals, NEW p \in Settings
  PROVE  resolve_reentry_price(side, s, p) \in Int
<1> DEFINE d == Dist(p.reentry[side], s)
<1>1. p.reentry[side] \in Int
  BY SettingTypes DEF Sides
<1>2. d \in Int
  BY <1>1, DistType, Zenon
<1> HIDE DEF d
<1>3. QED
  BY <1>2, SignalTypes DEF resolve_reentry_price, BackLevel, Dir, Sides, d

LEMMA TriggerType ==
  ASSUME NEW side \in Sides, NEW q \in Quotes, NEW before, NEW re \in Int, NEW p \in Settings
  PROVE  reentry_triggered(side, q, before, re, p).price \in Int
BY QuoteTypes DEF reentry_triggered

------------------------------------------------------------------------------
(* What one quote does to the state of the loop                             *)

\* The trade limit of a bar, with the breakout entry that is always allowed.
Limit(p) == Max({1, p.maxTrades})

LEMMA LimitType ==
  ASSUME NEW p \in Settings
  PROVE  Limit(p) \in Nat /\ Limit(p) >= 1 /\ Limit(p) >= p.maxTrades
<1>1. p.maxTrades \in Nat /\ p.maxTrades \in Int /\ 1 \in Int
  BY SettingTypes
<1>2. Max({1, p.maxTrades}) \in {1, p.maxTrades} /\ Max({1, p.maxTrades}) >= 1
        /\ Max({1, p.maxTrades}) >= p.maxTrades
  BY <1>1, MaxOfTwo, Zenon
<1>3. QED
  BY <1>1, <1>2 DEF Limit

\* A position has a side, no position has none.
LEMMA NoPositionIsNone ==
  /\ NoPosition \notin Positions
  /\ \A x \in Positions : x # NoPosition /\ x.side \in Sides
BY DEF NoPosition, Positions, Sides

\* The size of the n-th real order of a bar, and the first of them.
OrderSize(n, p) == p.schedule[Min({n, Len(p.schedule)})]

LEMMA FirstSize ==
  ASSUME NEW p \in Settings
  PROVE  OrderSize(1, p) = p.schedule[1]
<1>1. Len(p.schedule) \in Int /\ Len(p.schedule) >= 1 /\ 1 \in Int
  BY ScheduleHasFirst
<1>2. Min({1, Len(p.schedule)}) \in {1, Len(p.schedule)} /\ Min({1, Len(p.schedule)}) <= 1
  BY <1>1, MinOfTwo, Zenon
<1>3. Min({1, Len(p.schedule)}) = 1
  BY <1>1, <1>2
<1>4. QED
  BY <1>3 DEF OrderSize

\* The pending breakout is of a window still open, and once the bar has seen a
\* real order the side it trades has none pending.
Unused(side, w) ==
  /\ w.pendSide # "none" => bar - w.pendBar <= REENTRY_TIMEOUT
  /\ w.trades > 0 => w.pendSide # side

\* v is w after an entry: one row of the log, one trade of the bar, a position.
Opens(v, w, size) ==
  /\ v \in States /\ v.pos \in Positions /\ v.pos.size = size
  /\ v.trades = w.trades + 1 /\ v.unpaired = w.unpaired + 1
  /\ v.pendSide = w.pendSide /\ v.pendBar = w.pendBar

LEMMA OpenEffect ==
  ASSUME NEW side \in Sides, NEW entry \in Int, NEW size \in Nat, NEW reason \in Reasons,
         NEW s \in Signals, NEW p \in Settings, NEW w \in States
  PROVE  Opens(OpenPosition(side, entry, size, reason, s, p, w), w, size)
<1> DEFINE sl == resolve_stop_price(side, entry, s, p)
           x == [side |-> side, entry |-> entry, sl |-> sl, protected |-> reason = "PT",
                 size |-> size, mark |-> entry, reason |-> reason]
<1>1. sl \in Int
  BY StopPriceType
<1> HIDE DEF sl
<1>2. x \in Positions
  BY <1>1 DEF Positions, Reasons
<1>3. OpenPosition(side, entry, size, reason, s, p, w)
        = [w EXCEPT !.pos = x, !.trades = @ + 1, !.unpaired = @ + 1]
  BY DEF OpenPosition, sl
<1>4. x.size = size
  OBVIOUS
<1> HIDE DEF x
<1> DEFINE v == [w EXCEPT !.pos = x, !.trades = @ + 1, !.unpaired = @ + 1]
<1>5. w.trades + 1 \in Nat /\ w.unpaired + 1 \in Int
  BY DEF States
<1>6. v \in States
  BY <1>2, <1>5 DEF States
<1>7. /\ v.pos = x /\ v.trades = w.trades + 1 /\ v.unpaired = w.unpaired + 1
      /\ v.pendSide = w.pendSide /\ v.pendBar = w.pendBar
  BY DEF States
<1>8. OpenPosition(side, entry, size, reason, s, p, w) = v
  BY <1>3
<1> HIDE DEF v
<1>9. QED
  BY <1>2, <1>4, <1>6, <1>7, <1>8 DEF Opens

\* The breakout branch: nothing, a pending side, or a position; in window mode
\* never a position, and a pending side only before the first order of the bar.
LEMMA InitialEffect ==
  ASSUME NEW side \in Sides, NEW q \in Quotes, NEW s \in Signals, NEW p \in Settings,
         NEW w \in States, bar \in Int
  PROVE  LET v == InitialEntry(side, q, s, p, w)
         IN /\ v \in States
            /\ WindowMode(p) /\ Unused(side, w) => Unused(side, v)
            /\ \/ v.pos = w.pos /\ v.trades = w.trades /\ v.unpaired = w.unpaired
               \/ /\ ~WindowMode(p) /\ w.trades = 0
                  /\ v.pos \in Positions /\ v.trades = 1 /\ v.unpaired = w.unpaired + 1
<1> DEFINE entry == Better(side, q.o, BreakLevel(side, s)) + Dir(side) * p.slip
           size == IF p.zeroInitial THEN 0 ELSE 10
           opened == OpenPosition(side, entry, size, "Initial", s, p, w)
           pending == [w EXCEPT !.pendSide = side, !.pendBar = bar]
<1>1. BreakLevel(side, s) \in Int /\ Dir(side) \in {1, -1} /\ q.o \in Int /\ p.slip \in Int
  BY LevelTypes, QuoteTypes, SettingTypes
<1>2. Better(side, q.o, BreakLevel(side, s)) \in Int
  BY <1>1, BetterOf
<1>3. entry \in Int
  BY <1>1, <1>2
<1>4. size \in Nat /\ "Initial" \in Reasons
  BY DEF Reasons
<1>5. \/ InitialEntry(side, q, s, p, w) = w
      \/ w.trades = 0 /\ InitialEntry(side, q, s, p, w) = pending
      \/ w.trades = 0 /\ ~WindowMode(p) /\ InitialEntry(side, q, s, p, w) = opened
  BY DEF InitialEntry
<1> HIDE DEF entry, size
<1>6. /\ opened \in States /\ opened.pos \in Positions
      /\ opened.trades = w.trades + 1 /\ opened.unpaired = w.unpaired + 1
  <2>1. Opens(opened, w, size)
    BY <1>3, <1>4, OpenEffect, Zenon
  <2>2. QED
    BY <2>1, Zenon DEF Opens
<1>7. /\ pending \in States /\ pending.pos = w.pos /\ pending.trades = w.trades
      /\ pending.unpaired = w.unpaired /\ pending.pendBar = bar
  BY DEF States
<1>8. w.trades = 0 => Unused(side, pending)
  BY <1>7 DEF Unused, REENTRY_TIMEOUT
<1> HIDE DEF opened, pending
<1>9. CASE InitialEntry(side, q, s, p, w) = w
  BY <1>9
<1>10. CASE w.trades = 0 /\ InitialEntry(side, q, s, p, w) = pending
  BY <1>10, <1>7, <1>8
<1>11. CASE w.trades = 0 /\ ~WindowMode(p) /\ InitialEntry(side, q, s, p, w) = opened
  BY <1>11, <1>6
<1>12. QED
  BY <1>5, <1>9, <1>10, <1>11

\* The re-entry branch: it keeps the position, or opens one within the limit of
\* the bar.  In window mode the size of that one is positive and, when the
\* pending side is unused, the size of the order's place in the bar.
LEMMA ReEntryEffect ==
  ASSUME NEW side \in Sides, NEW q \in Quotes, NEW s \in Signals, NEW p \in Settings,
         NEW w \in States, bar \in Int, w.trades <= Limit(p)
  PROVE  LET v == ReEntry(side, q, s, p, w)
         IN /\ v \in States /\ v.trades <= Limit(p)
            /\ Unused(side, w) => Unused(side, v)
            /\ \/ v.pos = w.pos /\ v.unpaired = w.unpaired
               \/ /\ v.pos \in Positions /\ v.unpaired = w.unpaired + 1
                  /\ WindowMode(p) => v.pos.size > 0
                  /\ WindowMode(p) /\ Unused(side, w) => v.pos.size = OrderSize(v.trades, p)
<1> DEFINE exitWindow == w.exitSide = side /\ bar - w.exitBar <= REENTRY_TIMEOUT
           zeroWindow == w.pendSide = side /\ bar - w.pendBar <= REENTRY_TIMEOUT
           t == reentry_triggered(side, q, prev, resolve_reentry_price(side, s, p), p)
           reason == IF ~exitWindow THEN "Zero" ELSE IF w.exitReason = "SL" THEN "SL" ELSE "PT"
           size == IF ~exitWindow THEN p.schedule[1]
                   ELSE IF WindowMode(p)
                     THEN get_reentry_window_real_order_size(w.trades, p.schedule)
                     ELSE get_reentry_size(w.trades, p.schedule)
           entry == t.price + Dir(side) * p.slip
           opened == OpenPosition(side, entry, size, reason, s, p, w)
           taken == IF w.trades < p.maxTrades THEN opened ELSE w
           used == [taken EXCEPT !.exitSide = IF exitWindow THEN "none" ELSE @,
                                 !.pendSide = IF zeroWindow THEN "none" ELSE @]
<1>1. ReEntry(side, q, s, p, w) = IF (exitWindow \/ zeroWindow) /\ t.hit THEN used ELSE w
  BY DEF ReEntry
<1>2. t.price \in Int
  BY ReentryPriceType, TriggerType
<1> HIDE DEF t
<1>3. entry \in Int
  BY <1>2, LevelTypes, SettingTypes
<1>4. w.trades \in Nat /\ w.pendBar \in Int
  BY DEF States
<1>5. size \in Nat /\ (WindowMode(p) => size > 0)
  <2>1. p.schedule[1] \in Nat \ {0}
    BY ScheduleHasFirst, ScheduleIsPositive
  <2>2. QED
    BY <2>1, <1>4, SizesOfReentries
<1>6. reason \in Reasons
  BY DEF Reasons
<1>7. ASSUME exitWindow \/ zeroWindow, WindowMode(p), Unused(side, w)
      PROVE  size = OrderSize(w.trades + 1, p)
  <2>1. CASE exitWindow
    BY <2>1, <1>7 DEF OrderSize, get_reentry_window_real_order_size
  <2>2. CASE ~exitWindow
    <3>1. w.trades + 1 = 1
      BY <2>2, <1>7, <1>4 DEF Unused
    <3>2. QED
      BY <3>1, <2>2, FirstSize
  <2>3. QED
    BY <2>1, <2>2
<1> HIDE DEF size, reason, entry
<1>8. /\ opened \in States /\ opened.pos \in Positions /\ opened.pos.size = size
      /\ opened.trades = w.trades + 1 /\ opened.unpaired = w.unpaired + 1
      /\ opened.pendSide = w.pendSide /\ opened.pendBar = w.pendBar
  <2>1. Opens(opened, w, size)
    BY <1>3, <1>5, <1>6, OpenEffect, Zenon
  <2>2. QED
    BY <2>1, Zenon DEF Opens
<1> HIDE DEF opened
<1>9. taken \in States /\ taken.pendSide = w.pendSide /\ taken.pendBar = w.pendBar
      /\ taken.trades <= Limit(p)
  BY <1>4, <1>8, LimitType, SettingTypes
<1>10. \/ taken.pos = w.pos /\ taken.unpaired = w.unpaired
       \/ /\ taken.pos = opened.pos /\ taken.unpaired = w.unpaired + 1
          /\ taken.trades = w.trades + 1
  BY <1>8
<1> HIDE DEF taken
<1>11. /\ used \in States /\ used.pos = taken.pos /\ used.trades = taken.trades
       /\ used.unpaired = taken.unpaired /\ used.pendBar = w.pendBar
       /\ used.pendSide = IF zeroWindow THEN "none" ELSE w.pendSide
  BY <1>9 DEF States
<1>12. Unused(side, w) => Unused(side, used)
  BY <1>11 DEF Unused, Sides
<1> HIDE DEF used
<1>13. CASE (exitWindow \/ zeroWindow) /\ t.hit
  <2>1. WindowMode(p) /\ Unused(side, w) => size = OrderSize(w.trades + 1, p)
    BY <1>13, <1>7
  <2> HIDE DEF exitWindow, zeroWindow
  <2>2. ReEntry(side, q, s, p, w) = used
    BY <1>1, <1>13
  <2>3. CASE taken.pos = w.pos /\ taken.unpaired = w.unpaired
    BY <2>2, <2>3, <1>9, <1>11, <1>12
  <2>4. CASE /\ taken.pos = opened.pos /\ taken.unpaired = w.unpaired + 1
             /\ taken.trades = w.trades + 1
    BY <2>1, <2>2, <2>4, <1>5, <1>8, <1>9, <1>11, <1>12
  <2>5. QED
    BY <2>3, <2>4, <1>10
<1>14. CASE ~((exitWindow \/ zeroWindow) /\ t.hit)
  BY <1>14, <1>1
<1>15. QED
  BY <1>13, <1>14

\* One quote seen flat by a side: still flat, or a position of this quote.
LEMMA FlatSideEffect ==
  ASSUME NEW side \in Sides, NEW q \in Quotes, NEW s \in Signals, NEW p \in Settings,
         NEW w \in States, bar \in Int, w.trades <= Limit(p), w.pos = NoPosition
  PROVE  LET v == FlatSide(side, q, s, p, w)
         IN /\ v \in States /\ v.trades <= Limit(p)
            /\ WindowMode(p) =>
                 \/ v.pos = NoPosition /\ v.unpaired = w.unpaired
                 \/ v.pos \in Positions /\ v.pos.size > 0 /\ v.unpaired = w.unpaired + 1
            /\ WindowMode(p) /\ Unused(side, w) =>
                 Unused(side, v) /\ (v.pos = NoPosition \/ v.pos.size = OrderSize(v.trades, p))
<1> DEFINE u == InitialEntry(side, q, s, p, w)
           v == ReEntry(side, q, s, p, u)
<1>1. /\ u \in States
      /\ WindowMode(p) /\ Unused(side, w) => Unused(side, u)
      /\ \/ u.pos = w.pos /\ u.trades = w.trades /\ u.unpaired = w.unpaired
         \/ /\ ~WindowMode(p) /\ w.trades = 0
            /\ u.pos \in Positions /\ u.trades = 1 /\ u.unpaired = w.unpaired + 1
  BY InitialEffect
<1>2. FlatSide(side, q, s, p, w) = v
  BY DEF FlatSide
<1> HIDE DEF u
<1>3. u.trades <= Limit(p)
  BY <1>1, LimitType
<1>4. /\ v \in States /\ v.trades <= Limit(p)
      /\ Unused(side, u) => Unused(side, v)
      /\ \/ v.pos = u.pos /\ v.unpaired = u.unpaired
         \/ /\ v.pos \in Positions /\ v.unpaired = u.unpaired + 1
            /\ WindowMode(p) => v.pos.size > 0
            /\ WindowMode(p) /\ Unused(side, u) => v.pos.size = OrderSize(v.trades, p)
  BY <1>1, <1>3, ReEntryEffect
<1> HIDE DEF v
<1>5. QED
  BY <1>1, <1>2, <1>4

\* The trailing stop changes the stop only, and only towards the market.
LEMMA TrailedEffect ==
  ASSUME NEW x \in Positions, NEW s \in Signals, NEW p \in Settings
  PROVE  LET y == Trailed(x, s, p)
         IN /\ y \in Positions /\ y.side = x.side /\ y.entry = x.entry /\ y.mark = x.mark
            /\ y.size = x.size /\ y.protected = x.protected
            /\ Beyond(x.side, y.sl, x.sl)
<1> DEFINE target == x.mark - Dir(x.side) * Dist(p.trail, s)
           sl == Better(x.side, x.sl, target)
<1>1. x.side \in Sides /\ x.sl \in Int /\ x.mark \in Int
  BY DEF Positions
<1>2. target \in Int
  <2>1. Dist(p.trail, s) \in Int /\ Dir(x.side) \in {1, -1}
    BY <1>1, DistType, LevelTypes, SettingTypes
  <2>2. QED
    BY <1>1, <2>1
<1> HIDE DEF target
<1>3. sl \in Int /\ Beyond(x.side, sl, x.sl)
  BY <1>1, <1>2, BetterOf
<1>4. Trailed(x, s, p) \in {x, [x EXCEPT !.sl = sl]}
  BY DEF Trailed, target
<1> HIDE DEF sl
<1>5. Beyond(x.side, x.sl, x.sl)
  BY <1>1, BeyondOrder
<1>6. [x EXCEPT !.sl = sl] \in Positions
  BY <1>3 DEF Positions
<1>7. QED
  BY <1>3, <1>4, <1>5, <1>6 DEF Positions

\* A position the quote leaves open keeps what it was opened with.
LEMMA ManagedEffect ==
  ASSUME NEW x \in Positions, NEW q \in Quotes, NEW s \in Signals, NEW p \in Settings
  PROVE  LET y == Managed(x, q, s, p)
         IN /\ y \in Positions /\ y.side = x.side /\ y.entry = x.entry
            /\ y.size = x.size
            /\ Beyond(x.side, y.sl, x.sl)
<1> DEFINE mark == Better(x.side, x.mark, Best(x.side, q))
           gain(price) == Dir(x.side) * (price - x.entry)
           guard == x.protected \/ IF p.tiered THEN Gains(gain(mark), p.protect, s)
                                   ELSE gain(Best(x.side, q)) >= Dist(p.protect, s)
           held == [x EXCEPT !.mark = mark, !.protected = guard]
<1>1. x.side \in Sides /\ x.mark \in Int /\ Best(x.side, q) \in Int
  BY QuoteTypes DEF Positions, Best
<1>2. mark \in Int
  BY <1>1, BetterOf
<1>3. guard \in BOOLEAN
  BY DEF Gains, Positions
<1>4. Managed(x, q, s, p) = Trailed(held, s, p)
  BY DEF Managed
<1> HIDE DEF mark, guard
<1>5. /\ held \in Positions /\ held.side = x.side /\ held.entry = x.entry /\ held.sl = x.sl
      /\ held.size = x.size
  BY <1>2, <1>3 DEF Positions
<1> HIDE DEF held
<1>6. QED
  BY <1>4, <1>5, TrailedEffect

\* The reasons of an exit.
LEMMA ExitReasonType ==
  ASSUME NEW x \in Positions, NEW q \in Quotes, NEW s \in Signals, NEW p \in Settings
  PROVE  ExitReason(x, q, s, p) \in ExitReasons
BY DEF ExitReason, ExitReasons

\* A closed position: one EXIT row, and the window of the bar.
LEMMA ClosedEffect ==
  ASSUME NEW reason \in ExitReasons, NEW breach \in BOOLEAN, NEW p \in Settings,
         NEW w \in States, w.pos \in Positions, bar \in Int
  PROVE  LET v == Closed(reason, breach, p, w)
         IN /\ v \in States /\ v.pos = NoPosition /\ v.unpaired = w.unpaired - 1
            /\ v.pendSide = w.pendSide /\ v.pendBar = w.pendBar /\ v.trades = w.trades
<1> DEFINE side == w.pos.side
           pause == IF p.limit /\ breach THEN bar + p.cooldown ELSE w.breaker
           v == [w EXCEPT !.pos = NoPosition, !.unpaired = w.unpaired - 1, !.exitSide = side,
                          !.exitBar = bar, !.exitReason = reason, !.breaker = pause]
<1>1. Closed(reason, breach, p, w) = v
  BY DEF Closed
<1>2. side \in Sides /\ pause \in Int /\ w.unpaired - 1 \in Int
  BY SettingTypes DEF Positions, States
<1> HIDE DEF side, pause
<1>3. v \in States
  BY <1>2 DEF States, ExitReasons
<1>4. /\ v.pos = NoPosition /\ v.unpaired = w.unpaired - 1
      /\ v.pendSide = w.pendSide /\ v.pendBar = w.pendBar /\ v.trades = w.trades
  BY DEF States
<1> HIDE DEF v
<1>5. QED
  BY <1>1, <1>3, <1>4

\* One quote seen in a position: the position goes on with a stop that is no
\* looser, or it is closed.
LEMMA HoldEffect ==
  ASSUME NEW q \in Quotes, NEW s \in Signals, NEW p \in Settings, NEW breach \in BOOLEAN,
         NEW w \in States, w.pos \in Positions, bar \in Int
  PROVE  LET v == HoldStep(q, s, p, w, breach)
             x == Trailed(w.pos, s, p)
         IN /\ v \in States /\ v.trades = w.trades
            /\ v.pendSide = w.pendSide /\ v.pendBar = w.pendBar
            /\ \/ /\ ExitReason(x, q, s, p) = "none"
                  /\ v.pos \in Positions /\ v.unpaired = w.unpaired
                  /\ v.pos.side = w.pos.side /\ v.pos.size = w.pos.size
                  /\ Beyond(w.pos.side, v.pos.sl, w.pos.sl)
               \/ /\ ExitReason(x, q, s, p) # "none"
                  /\ v.pos = NoPosition /\ v.unpaired = w.unpaired - 1
<1> DEFINE x == Trailed(w.pos, s, p)
           y == Managed(x, q, s, p)
           reason == ExitReason(x, q, s, p)
           closed == Closed(reason, breach, p, w)
           kept == [w EXCEPT !.pos = y]
<1>1. /\ x \in Positions /\ x.side = w.pos.side /\ x.size = w.pos.size
      /\ Beyond(w.pos.side, x.sl, w.pos.sl)
  BY TrailedEffect
<1>2. HoldStep(q, s, p, w, breach) = IF reason = "none" THEN kept ELSE closed
  BY DEF HoldStep
<1> HIDE DEF x
<1>3. /\ y \in Positions /\ y.side = x.side /\ y.size = x.size
      /\ Beyond(x.side, y.sl, x.sl)
  BY <1>1, ManagedEffect
<1>4. reason \in ExitReasons
  BY <1>1, ExitReasonType
<1> HIDE DEF y, reason
<1>5. Beyond(w.pos.side, y.sl, w.pos.sl)
  <2>1. w.pos.side \in Sides /\ y.sl \in Int /\ x.sl \in Int /\ w.pos.sl \in Int
    BY <1>1, <1>3 DEF Positions
  <2>2. QED
    BY <2>1, <1>1, <1>3, BeyondOrder
<1>6. /\ kept \in States /\ kept.pos = y /\ kept.trades = w.trades /\ kept.unpaired = w.unpaired
      /\ kept.pendSide = w.pendSide /\ kept.pendBar = w.pendBar
  BY <1>3 DEF States
<1>7. /\ closed \in States /\ closed.pos = NoPosition /\ closed.unpaired = w.unpaired - 1
      /\ closed.pendSide = w.pendSide /\ closed.pendBar = w.pendBar /\ closed.trades = w.trades
  BY <1>4, ClosedEffect
<1> HIDE DEF kept, closed
<1>8. CASE reason = "none"
  BY <1>8, <1>1, <1>2, <1>3, <1>5, <1>6 DEF reason, x
<1>9. CASE reason # "none"
  BY <1>9, <1>2, <1>7 DEF reason, x
<1>10. QED
  BY <1>8, <1>9

\* What closes a position is read off the quote's adverse extreme alone.
LEMMA ExitReadsWorst ==
  ASSUME NEW x, NEW a, NEW b, NEW s, NEW p, Worst(x.side, a) = Worst(x.side, b)
  PROVE  ExitReason(x, a, s, p) = ExitReason(x, b, s, p)
BY DEF ExitReason

\* The first engine's re-entry, from a state without a position.
LEMMA MinuteReEntryEffect ==
  ASSUME NEW side \in Sides, NEW q \in Quotes, NEW s \in Signals, NEW p \in Settings,
         NEW w \in States, bar \in Int, w.trades <= Limit(p)
  PROVE  LET v == MinuteReEntry(side, q, s, p, w)
         IN /\ v \in States /\ v.trades <= Limit(p)
            /\ \/ v.pos = w.pos /\ v.unpaired = w.unpaired
               \/ v.pos \in Positions /\ v.unpaired = w.unpaired + 1
<1> DEFINE t == reentry_triggered(side, q, prev, resolve_reentry_price(side, s, p), p)
           reason == IF w.exitReason = "SL" THEN "SL" ELSE "PT"
           entry == t.price + Dir(side) * p.slip
           size == get_reentry_size(w.trades, p.schedule)
           opened == OpenPosition(side, entry, size, reason, s, p, w)
           uncounted == [opened EXCEPT !.trades = w.trades]
           taken == CASE reason = "PT" -> uncounted
                      [] reason = "SL" /\ w.trades < p.maxTrades -> opened
                      [] OTHER -> w
           hit == w.exitSide = side /\ bar - w.exitBar <= REENTRY_TIMEOUT /\ t.hit
           used == [taken EXCEPT !.exitSide = "none"]
<1>1. MinuteReEntry(side, q, s, p, w) = IF hit THEN used ELSE w
  BY DEF MinuteReEntry
<1>2. t.price \in Int
  BY ReentryPriceType, TriggerType
<1>3. w.trades \in Nat
  BY DEF States
<1> HIDE DEF t
<1>5. entry \in Int
  BY <1>2, LevelTypes, SettingTypes
<1>6. size \in Nat /\ reason \in Reasons
  BY <1>3, SizesOfReentries DEF Reasons
<1>7. taken \in {w, opened, uncounted} /\ (taken = opened => w.trades < p.maxTrades \/ opened \in {w, uncounted})
  OBVIOUS
<1> HIDE DEF entry, size, reason, taken, hit
<1>8. /\ opened \in States /\ opened.pos \in Positions
      /\ opened.trades = w.trades + 1 /\ opened.unpaired = w.unpaired + 1
  <2>1. Opens(opened, w, size)
    BY <1>5, <1>6, OpenEffect, Zenon
  <2>2. QED
    BY <2>1, Zenon DEF Opens
<1> HIDE DEF opened
<1>9. /\ uncounted \in States /\ uncounted.pos = opened.pos /\ uncounted.trades = w.trades
      /\ uncounted.unpaired = w.unpaired + 1
  BY <1>3, <1>8 DEF States
<1> HIDE DEF uncounted
<1>10. /\ taken \in States /\ taken.trades <= Limit(p)
       /\ \/ taken.pos = w.pos /\ taken.unpaired = w.unpaired
          \/ taken.pos = opened.pos /\ taken.unpaired = w.unpaired + 1
  BY <1>3, <1>7, <1>8, <1>9, LimitType, SettingTypes
<1>11. /\ used \in States /\ used.pos = taken.pos /\ used.trades = taken.trades
       /\ used.unpaired = taken.unpaired
  BY <1>10 DEF States
<1> HIDE DEF used
<1>12. CASE hit
  BY <1>12, <1>1, <1>8, <1>10, <1>11
<1>13. CASE ~hit
  BY <1>13, <1>1
<1>14. QED
  BY <1>12, <1>13

\* Its breakout branch does not depend on the mode of the zero initial; the
\* parameter set with the mode replaced need not be one of Settings.
LEMMA MinuteInitialEffect ==
  ASSUME NEW side \in Sides, NEW q \in Quotes, NEW s \in Signals, NEW p \in Settings,
         NEW w \in States, bar \in Int
  PROVE  LET v == InitialEntry(side, q, s, [p EXCEPT !.zeroMode = "position"], w)
         IN /\ v \in States
            /\ \/ v.pos = w.pos /\ v.trades = w.trades /\ v.unpaired = w.unpaired
               \/ v.pos \in Positions /\ v.trades = 1 /\ v.unpaired = w.unpaired + 1
<1> DEFINE r == [p EXCEPT !.zeroMode = "position"]
           entry == Better(side, q.o, BreakLevel(side, s)) + Dir(side) * p.slip
           size == IF p.zeroInitial THEN 0 ELSE 10
           opened == OpenPosition(side, entry, size, "Initial", s, p, w)
<1>1. BreakLevel(side, s) \in Int /\ Dir(side) \in {1, -1} /\ q.o \in Int /\ p.slip \in Int
  BY LevelTypes, QuoteTypes, SettingTypes
<1>2. Better(side, q.o, BreakLevel(side, s)) \in Int
  BY <1>1, BetterOf
<1>3. entry \in Int
  BY <1>1, <1>2
<1>4. size \in Nat /\ "Initial" \in Reasons
  BY DEF Reasons
<1>5. r.zeroMode = "position" /\ r.slip = p.slip /\ r.zeroInitial = p.zeroInitial
        /\ r.stop = p.stop /\ r.stopMode = p.stopMode
  BY SettingsAssumption
<1> HIDE DEF r
<1>6. resolve_stop_price(side, entry, s, r) = resolve_stop_price(side, entry, s, p)
  BY <1>5 DEF resolve_stop_price
<1>7. OpenPosition(side, entry, size, "Initial", s, r, w) = opened
  BY <1>6 DEF OpenPosition
<1>8. ~WindowMode(r)
  BY <1>5 DEF WindowMode
<1>9. \/ InitialEntry(side, q, s, r, w) = w
      \/ InitialEntry(side, q, s, r, w) = opened /\ w.trades = 0
  BY <1>5, <1>7, <1>8 DEF InitialEntry
<1> HIDE DEF entry, size
<1>10. /\ opened \in States /\ opened.pos \in Positions
       /\ opened.trades = w.trades + 1 /\ opened.unpaired = w.unpaired + 1
  <2>1. Opens(opened, w, size)
    BY <1>3, <1>4, OpenEffect, Zenon
  <2>2. QED
    BY <2>1, Zenon DEF Opens
<1> HIDE DEF opened
<1>11. QED
  BY <1>9, <1>10 DEF r

\* One quote seen flat by the first engine opens at most one position.
LEMMA MinuteFlatEffect ==
  ASSUME NEW side \in Sides, NEW q \in Quotes, NEW s \in Signals, NEW p \in Settings,
         NEW w \in States, bar \in Int, w.trades <= Limit(p)
  PROVE  LET v == MinuteFlat(side, q, s, p, w)
         IN /\ v \in States /\ v.trades <= Limit(p)
            /\ \/ v.pos = w.pos /\ v.unpaired = w.unpaired
               \/ v.pos \in Positions /\ v.unpaired = w.unpaired + 1
<1> DEFINE a == InitialEntry(side, q, s, [p EXCEPT !.zeroMode = "position"], w)
           b == MinuteReEntry(side, q, s, p, w)
<1>1. MinuteFlat(side, q, s, p, w) \in {a, b}
  BY DEF MinuteFlat
<1>2. /\ a \in States /\ a.trades <= Limit(p)
      /\ \/ a.pos = w.pos /\ a.unpaired = w.unpaired
         \/ a.pos \in Positions /\ a.unpaired = w.unpaired + 1
  BY MinuteInitialEffect, LimitType
<1>3. /\ b \in States /\ b.trades <= Limit(p)
      /\ \/ b.pos = w.pos /\ b.unpaired = w.unpaired
         \/ b.pos \in Positions /\ b.unpaired = w.unpaired + 1
  BY MinuteReEntryEffect
<1> HIDE DEF a, b
<1>4. QED
  BY <1>1, <1>2, <1>3

\* One quote seen in a position by the first engine keeps it or closes it.
LEMMA MinuteHoldEffect ==
  ASSUME NEW q \in Quotes, NEW s \in Signals, NEW p \in Settings,
         NEW w \in States, w.pos \in Positions, bar \in Int
  PROVE  LET v == MinuteHold(q, s, p, w)
         IN /\ v \in States /\ v.trades = w.trades
            /\ v.pendSide = w.pendSide /\ v.pendBar = w.pendBar
            /\ \/ v.pos \in Positions /\ v.unpaired = w.unpaired
               \/ v.pos = NoPosition /\ v.unpaired = w.unpaired - 1
<1> DEFINE guard == w.pos.protected \/ Dir(w.pos.side) * (Best(w.pos.side, q) - w.pos.entry) >= Dist(p.protect, s)
           x == [w.pos EXCEPT !.protected = guard]
           kept == [w EXCEPT !.pos = x]
           sl == Closed("SL", FALSE, p, w)
           pt == Closed("PT", FALSE, p, w)
<1>1. MinuteHold(q, s, p, w) \in {kept, sl, pt}
  BY DEF MinuteHold
<1>2. guard \in BOOLEAN
  OBVIOUS
<1> HIDE DEF guard
<1>3. x \in Positions
  BY <1>2 DEF Positions
<1> HIDE DEF x
<1>4. /\ kept \in States /\ kept.pos = x /\ kept.trades = w.trades /\ kept.unpaired = w.unpaired
      /\ kept.pendSide = w.pendSide /\ kept.pendBar = w.pendBar
  BY <1>3 DEF States
<1>5. "SL" \in ExitReasons /\ "PT" \in ExitReasons /\ FALSE \in BOOLEAN
  BY DEF ExitReasons
<1>6. /\ sl \in States /\ sl.pos = NoPosition /\ sl.unpaired = w.unpaired - 1
      /\ sl.pendSide = w.pendSide /\ sl.pendBar = w.pendBar /\ sl.trades = w.trades
  BY <1>5, ClosedEffect
<1>7. /\ pt \in States /\ pt.pos = NoPosition /\ pt.unpaired = w.unpaired - 1
      /\ pt.pendSide = w.pendSide /\ pt.pendBar = w.pendBar /\ pt.trades = w.trades
  BY <1>5, ClosedEffect
<1> HIDE DEF kept, sl, pt
<1>8. QED
  BY <1>1, <1>3, <1>4, <1>6, <1>7

------------------------------------------------------------------------------
(* The inductive invariant of the engines                                   *)

\* The side the flat branches of the open bar trade.
BarSide ==
  IF "long" \in resolve_regime_ready(sig, set) THEN "long"
  ELSE IF resolve_regime_ready(sig, set) = {"short"} THEN "short" ELSE "none of them"

\* Beside the types: in an open bar of window mode that has seen a real order no
\* breakout of its side is pending, so a pending breakout is the first order.
PendingUnused == WindowMode(set) /\ phase = "scan" => Unused(BarSide, st)

\* What every step of an engine keeps.
StepKeeps == TypeOK' /\ UNCHANGED set

\* What a step of the engines with a trailing stop keeps or may not do beside it.
TrailingKeeps ==
  /\ StopTightens
  /\ WindowModeTradesAreReal => WindowModeTradesAreReal'
  /\ PendingUnused => PendingUnused' /\ SizesFollowTheBar

\* The parts of the type invariant.
LEMMA TypeParts ==
  ASSUME TypeOK
  PROVE  /\ set \in Settings /\ bar \in Nat /\ bar <= MaxBars /\ sig \in Signals
         /\ bar \in Int /\ MaxBars \in Nat
         /\ st \in States /\ st.trades <= Limit(set) /\ st.trades \in Nat
         /\ (~Flat => st.pos \in Positions) /\ (Flat <=> st.pos = NoPosition)
         /\ (st.pos.side \in Sides => ~Flat)
<1>1. /\ set \in Settings /\ bar \in 0..MaxBars /\ sig \in Signals
      /\ st \in States /\ st.trades <= Limit(set)
  BY DEF TypeOK, Limit
<1>2. MaxBars \in Nat
  BY BoundAssumption
<1>3. st.pos \in Positions \cup {NoPosition} /\ st.trades \in Nat
  BY <1>1 DEF States
<1>4. NoPosition.side \notin Sides
  BY DEF NoPosition, Sides
<1>5. QED
  BY <1>1, <1>2, <1>3, <1>4 DEF Flat

\* Stop and sizes where the position stands still.
LEMMA SamePosition ==
  ASSUME TypeOK, st'.pos = st.pos
  PROVE  StopTightens /\ SizesFollowTheBar
<1>1. ~Flat => st.pos.side \in Sides /\ st.pos.sl \in Int
  BY TypeParts DEF Positions
<1>2. QED
  BY <1>1, BeyondOrder DEF StopTightens, SizesFollowTheBar, Flat

\* Inside a bar its side stands still.
LEMMA PendingKept ==
  ASSUME PendingUnused, UNCHANGED <<set, bar, phase, sig>>,
         WindowMode(set) /\ phase = "scan" /\ Unused(BarSide, st) => Unused(BarSide, st')
  PROVE  PendingUnused'
<1>1. BarSide' = BarSide
  BY DEF BarSide, resolve_regime_ready
<1>2. QED
  BY <1>1 DEF PendingUnused, Unused, WindowMode

\* A step that stands still.
LEMMA StandStill ==
  ASSUME TypeOK, UNCHANGED vars
  PROVE  StepKeeps /\ TrailingKeeps
<1>1. UNCHANGED <<set, bar, phase, sig, idx, prev, edge, st>>
  BY DEF vars
<1>2. TypeOK'
  BY <1>1 DEF TypeOK
<1>3. StopTightens /\ SizesFollowTheBar
  BY <1>1, SamePosition
<1>4. PendingUnused => PendingUnused'
  BY <1>1, PendingKept
<1>5. QED
  BY <1>1, <1>2, <1>3, <1>4 DEF StepKeeps, TrailingKeeps, WindowModeTradesAreReal, Flat

\* The initial states of all three engines.
LEMMA InitEngine ==
  ASSUME Init
  PROVE  TypeOK /\ WindowModeTradesAreReal /\ PendingUnused /\ LogIsPaired
<1>1. StartState \in States /\ StartState.trades = 0 /\ StartState.pos = NoPosition
        /\ StartState.unpaired = 0
  BY DEF StartState, States, Sides
<1>2. set \in Settings /\ bar = 0 /\ phase = "bar" /\ idx = 0 /\ sig \in Signals
        /\ prev = NoQuote /\ edge = NoQuote /\ st = StartState
  BY DEF Init
<1>3. MaxBars \in Nat /\ MaxQuotes \in Nat /\ Max({1, set.maxTrades}) \in Nat
  BY <1>2, BoundAssumption, LimitType DEF Limit
<1>4. QED
  BY <1>1, <1>2, <1>3 DEF TypeOK, WindowModeTradesAreReal, PendingUnused, LogIsPaired, Flat

\* A bar without quotes.
LEMMA BarSkipKeeps ==
  ASSUME TypeOK, BarSkip
  PROVE  StepKeeps /\ TrailingKeeps /\ (LogIsPaired => LogIsPaired')
<1>1. phase = "bar" /\ bar < MaxBars /\ bar' = bar + 1 /\ edge' = NoQuote
        /\ UNCHANGED <<set, phase, sig, idx, prev, st>>
  BY DEF BarSkip
<1>2. bar' \in 0..MaxBars
  BY <1>1, TypeParts
<1>3. TypeOK'
  BY <1>1, <1>2 DEF TypeOK
<1>4. StopTightens /\ SizesFollowTheBar /\ PendingUnused'
  BY <1>1, SamePosition DEF PendingUnused
<1>5. QED
  BY <1>1, <1>3, <1>4 DEF StepKeeps, TrailingKeeps, WindowModeTradesAreReal, LogIsPaired, Flat

\* The bar is opened: the count of its trades starts, windows may lapse.
LEMMA BarOpenKeeps ==
  ASSUME TypeOK, NEW s \in Signals, BarOpen(s)
  PROVE  StepKeeps /\ TrailingKeeps /\ (LogIsPaired => LogIsPaired') /\ st'.pos = st.pos
<1> DEFINE a == IF bar - st.exitBar > REENTRY_TIMEOUT THEN "none" ELSE st.exitSide
           b == IF bar - st.pendBar > REENTRY_TIMEOUT THEN "none" ELSE st.pendSide
           v == [st EXCEPT !.trades = 0, !.exitSide = a, !.pendSide = b]
<1>1. phase = "bar" /\ bar < MaxBars /\ phase' = "scan" /\ sig' = s /\ idx' = 0
        /\ prev' = NoQuote /\ st' = v /\ UNCHANGED <<set, bar, edge>>
  BY DEF BarOpen
<1>2. st \in States /\ a \in Sides \cup {"none"} /\ b \in Sides \cup {"none"}
        /\ st.pendBar \in Int /\ bar \in Int
  BY TypeParts DEF States
<1>a. b # "none" => bar - st.pendBar <= REENTRY_TIMEOUT
  BY <1>2 DEF REENTRY_TIMEOUT
<1> HIDE DEF a, b
<1>3. /\ v \in States /\ v.pos = st.pos /\ v.trades = 0 /\ v.unpaired = st.unpaired
      /\ v.pendSide = b /\ v.pendBar = st.pendBar
  BY <1>2 DEF States
<1> HIDE DEF v
<1>4. MaxQuotes \in Nat /\ Max({1, set.maxTrades}) \in Nat
  BY TypeParts, BoundAssumption, LimitType DEF Limit
<1>5. TypeOK'
  BY <1>1, <1>3, <1>4 DEF TypeOK
<1>6. StopTightens /\ SizesFollowTheBar
  BY <1>1, <1>3, SamePosition
<1>7. PendingUnused'
  BY <1>1, <1>a, <1>3 DEF PendingUnused, Unused
<1>8. QED
  BY <1>1, <1>3, <1>5, <1>6, <1>7 DEF StepKeeps, TrailingKeeps, WindowModeTradesAreReal, LogIsPaired, Flat

\* The window is exhausted.
LEMMA BarEndKeeps ==
  ASSUME TypeOK, BarEnd
  PROVE  StepKeeps /\ TrailingKeeps /\ (LogIsPaired => LogIsPaired')
<1>1. phase = "scan" /\ phase' = "bar" /\ bar' = bar + 1 /\ edge' \in {NoQuote, prev}
        /\ UNCHANGED <<set, sig, idx, prev, st>>
  BY DEF BarEnd
<1>2. bar < MaxBars
  BY <1>1 DEF TypeOK
<1>3. bar' \in 0..MaxBars
  BY <1>1, <1>2, TypeParts
<1>4. TypeOK'
  BY <1>1, <1>3 DEF TypeOK
<1>5. StopTightens /\ SizesFollowTheBar /\ PendingUnused'
  BY <1>1, SamePosition DEF PendingUnused
<1>6. QED
  BY <1>1, <1>4, <1>5 DEF StepKeeps, TrailingKeeps, WindowModeTradesAreReal, LogIsPaired, Flat

\* An open position is marked to market after the last bar.
LEMMA FinishKeeps ==
  ASSUME TypeOK, Finish
  PROVE  StepKeeps /\ TrailingKeeps
<1> DEFINE v == [st EXCEPT !.pos = NoPosition, !.unpaired = @ - 1]
<1>1. phase = "bar" /\ phase' = "done" /\ st' = (IF Flat THEN st ELSE v)
        /\ UNCHANGED <<set, bar, sig, idx, prev, edge>>
  BY DEF Finish
<1>2. st \in States /\ st.unpaired - 1 \in Int
  BY TypeParts DEF States
<1>3. /\ v \in States /\ v.pos = NoPosition /\ v.trades = st.trades
      /\ v.unpaired = st.unpaired - 1
  BY <1>2 DEF States
<1> HIDE DEF v
<1>4. CASE Flat
  <2>1. st' = st
    BY <1>1, <1>4
  <2>2. TypeOK'
    BY <1>1, <2>1 DEF TypeOK
  <2>3. QED
    BY <1>1, <2>1, <2>2, SamePosition DEF StepKeeps, TrailingKeeps, WindowModeTradesAreReal, PendingUnused, Flat
<1>5. CASE ~Flat
  <2>1. st' = v
    BY <1>1, <1>5
  <2>2. TypeOK'
    BY <1>1, <2>1, <1>3 DEF TypeOK
  <2>4. StopTightens /\ SizesFollowTheBar /\ PendingUnused'
    BY <1>1, <2>1, <1>3, <1>5 DEF StopTightens, SizesFollowTheBar, PendingUnused
  <2>5. WindowModeTradesAreReal => WindowModeTradesAreReal'
    BY <1>1, <1>2, <1>3, <1>5, <2>1 DEF WindowModeTradesAreReal, Flat
  <2>6. QED
    BY <1>1, <2>2, <2>4, <2>5 DEF StepKeeps, TrailingKeeps
<1>6. QED
  BY <1>4, <1>5

\* Walking a quote: the cursor moves, the state of the loop is what the
\* lemmas above say of it.
LEMMA WalkFrame ==
  ASSUME TypeOK, NEW q \in Quotes, Scans(q), Advance(q),
         st' \in States, st'.trades <= Limit(set)
  PROVE  TypeOK' /\ UNCHANGED <<set, bar, phase, sig>> /\ phase = "scan"
<1>1. /\ phase = "scan" /\ idx < MaxQuotes /\ idx' = idx + 1 /\ prev' = q
      /\ UNCHANGED <<set, bar, phase, sig, edge>>
  BY DEF Scans, Advance
<1>2. idx \in 0..MaxQuotes /\ MaxQuotes \in Nat
  BY BoundAssumption DEF TypeOK
<1>3. idx' \in 0..MaxQuotes
  BY <1>1, <1>2
<1>4. {prev', edge'} \subseteq Quotes \cup {NoQuote}
  BY <1>1 DEF TypeOK
<1>5. QED
  BY <1>1, <1>3, <1>4 DEF TypeOK, Limit

\* A quote that changes nothing: the pause, and a bar of no side.
LEMMA IdleKeeps ==
  ASSUME TypeOK, NEW q \in Quotes, Scans(q), Advance(q), st' = st
  PROVE  StepKeeps /\ TrailingKeeps /\ (LogIsPaired => LogIsPaired')
<1>1. TypeOK' /\ UNCHANGED <<set, bar, phase, sig>>
  BY TypeParts, WalkFrame
<1>2. StopTightens /\ SizesFollowTheBar
  BY SamePosition
<1>3. PendingUnused => PendingUnused'
  BY <1>1, PendingKept
<1>4. QED
  BY <1>1, <1>2, <1>3 DEF StepKeeps, TrailingKeeps, WindowModeTradesAreReal, LogIsPaired, Flat

\* A quote seen flat by a side of the engines with a trailing stop.
LEMMA FlatKeeps ==
  ASSUME TypeOK, NEW side \in Sides, NEW q \in Quotes, Scans(q), Advance(q), Flat,
         side = BarSide, st' = FlatSide(side, q, sig, set, st)
  PROVE  StepKeeps /\ TrailingKeeps
<1> DEFINE v == FlatSide(side, q, sig, set, st)
<1>1. /\ v \in States /\ v.trades <= Limit(set)
      /\ WindowMode(set) =>
           \/ v.pos = NoPosition /\ v.unpaired = st.unpaired
           \/ v.pos \in Positions /\ v.pos.size > 0 /\ v.unpaired = st.unpaired + 1
      /\ WindowMode(set) /\ Unused(side, st) =>
           Unused(side, v) /\ (v.pos = NoPosition \/ v.pos.size = OrderSize(v.trades, set))
  BY TypeParts, FlatSideEffect
<1> HIDE DEF v
<1>2. TypeOK' /\ UNCHANGED <<set, bar, phase, sig>>
  BY <1>1, WalkFrame DEF v
<1>3. StopTightens
  BY DEF StopTightens
<1>4. WindowModeTradesAreReal => WindowModeTradesAreReal'
  <2>1. SUFFICES ASSUME WindowModeTradesAreReal, WindowMode(set)
                 PROVE  \/ ~Flat' /\ st'.pos.size > 0 /\ st'.unpaired = 1
                        \/ Flat' /\ st'.unpaired = 0
    BY <1>2 DEF WindowModeTradesAreReal, WindowMode
  <2>2. st.unpaired = 0
    BY <2>1 DEF WindowModeTradesAreReal
  <2>3. QED
    BY <2>1, <2>2, <1>1, NoPositionIsNone DEF Flat, v
<1>5. PendingUnused => PendingUnused'
  BY <1>1, <1>2, PendingKept DEF v
<1>6. PendingUnused => SizesFollowTheBar
  <2>1. phase = "scan"
    BY DEF Scans
  <2>2. QED
    BY <1>1, <2>1 DEF PendingUnused, SizesFollowTheBar, OrderSize, v
<1>7. QED
  BY <1>2, <1>3, <1>4, <1>5, <1>6 DEF StepKeeps, TrailingKeeps

\* A quote seen in a position by the same engines.
LEMMA HoldKeeps ==
  ASSUME TypeOK, NEW q \in Quotes, NEW breach \in BOOLEAN, Scans(q), Advance(q), ~Flat,
         st' = HoldStep(q, sig, set, st, breach)
  PROVE  StepKeeps /\ TrailingKeeps
<1> DEFINE v == HoldStep(q, sig, set, st, breach)
<1>1. /\ v \in States /\ v.trades = st.trades
      /\ v.pendSide = st.pendSide /\ v.pendBar = st.pendBar
      /\ \/ /\ v.pos \in Positions /\ v.unpaired = st.unpaired
            /\ v.pos.size = st.pos.size
            /\ Beyond(st.pos.side, v.pos.sl, st.pos.sl)
         \/ v.pos = NoPosition /\ v.unpaired = st.unpaired - 1
  BY TypeParts, HoldEffect
<1> HIDE DEF v
<1>2. v.trades <= Limit(set)
  BY <1>1, TypeParts
<1>3. TypeOK' /\ UNCHANGED <<set, bar, phase, sig>>
  BY <1>1, <1>2, WalkFrame DEF v
<1>4. StopTightens /\ SizesFollowTheBar
  BY <1>1 DEF StopTightens, SizesFollowTheBar, v
<1>5. PendingUnused => PendingUnused'
  BY <1>1, <1>3, PendingKept DEF Unused, v
<1>6. WindowModeTradesAreReal => WindowModeTradesAreReal'
  <2>1. SUFFICES ASSUME WindowModeTradesAreReal, WindowMode(set)
                 PROVE  \/ ~Flat' /\ st'.pos.size > 0 /\ st'.unpaired = 1
                        \/ Flat' /\ st'.unpaired = 0
    BY <1>3 DEF WindowModeTradesAreReal, WindowMode
  <2>2. st.unpaired = 1 /\ st.pos.size > 0
    BY <2>1 DEF WindowModeTradesAreReal
  <2>3. QED
    BY <2>2, <1>1, NoPositionIsNone DEF Flat, v
<1>7. QED
  BY <1>3, <1>4, <1>5, <1>6 DEF StepKeeps, TrailingKeeps

\* A quote seen flat by the first engine.
LEMMA MinuteFlatKeeps ==
  ASSUME TypeOK, NEW side \in Sides, NEW q \in Quotes, Scans(q), Advance(q), Flat,
         st' = MinuteFlat(side, q, sig, set, st)
  PROVE  StepKeeps /\ (LogIsPaired => LogIsPaired')
<1> DEFINE v == MinuteFlat(side, q, sig, set, st)
<1>1. /\ v \in States /\ v.trades <= Limit(set)
      /\ \/ v.pos = st.pos /\ v.unpaired = st.unpaired
         \/ v.pos \in Positions /\ v.unpaired = st.unpaired + 1
  BY TypeParts, MinuteFlatEffect
<1> HIDE DEF v
<1>2. TypeOK' /\ UNCHANGED <<set, bar, phase, sig>>
  BY <1>1, WalkFrame DEF v
<1>3. LogIsPaired => LogIsPaired'
  BY <1>1, NoPositionIsNone DEF LogIsPaired, Flat, v
<1>4. QED
  BY <1>2, <1>3 DEF StepKeeps

\* A quote seen in a position by the first engine.
LEMMA MinuteHoldKeeps ==
  ASSUME TypeOK, NEW q \in Quotes, Scans(q), Advance(q), ~Flat,
         st' = MinuteHold(q, sig, set, st)
  PROVE  StepKeeps /\ (LogIsPaired => LogIsPaired')
<1> DEFINE v == MinuteHold(q, sig, set, st)
<1>1. /\ v \in States /\ v.trades = st.trades
      /\ \/ v.pos \in Positions /\ v.unpaired = st.unpaired
         \/ v.pos = NoPosition /\ v.unpaired = st.unpaired - 1
  BY TypeParts, MinuteHoldEffect
<1> HIDE DEF v
<1>2. v.trades <= Limit(set)
  BY <1>1, TypeParts
<1>3. TypeOK' /\ UNCHANGED <<set, bar, phase, sig>>
  BY <1>1, <1>2, WalkFrame DEF v
<1>4. LogIsPaired => LogIsPaired'
  BY <1>1, NoPositionIsNone DEF LogIsPaired, Flat, v
<1>5. QED
  BY <1>3, <1>4 DEF StepKeeps

\* The mark to market of the first engine, which books an open position twice.
LEMMA MinuteFinishKeeps ==
  ASSUME TypeOK, MinuteFinish
  PROVE  StepKeeps /\ phase' = "done"
<1> DEFINE v == [st EXCEPT !.unpaired = @ - 2]
<1>1. phase' = "done" /\ st' \in {st, v} /\ UNCHANGED <<set, bar, sig, idx, prev, edge>>
  BY DEF MinuteFinish
<1>2. st \in States /\ st.unpaired - 2 \in Int
  BY TypeParts DEF States
<1>3. /\ v \in States /\ v.pos = st.pos /\ v.trades = st.trades
  BY <1>2 DEF States
<1> HIDE DEF v
<1>4. /\ st' \in States /\ st'.pos = st.pos /\ st'.trades = st.trades
  BY <1>1, <1>2, <1>3
<1>5. TypeOK'
  BY <1>1, <1>4 DEF TypeOK
<1>6. QED
  BY <1>1, <1>4, <1>5 DEF StepKeeps

------------------------------------------------------------------------------
(* The steps of the three engines                                           *)

\* A step of run_backtest_enhanced.
LEMMA EnhancedStep ==
  ASSUME TypeOK, Next
  PROVE  StepKeeps /\ TrailingKeeps
<1>1. CASE BarSkip
  BY <1>1, BarSkipKeeps
<1>2. CASE \E s \in Signals : BarOpen(s)
  BY <1>2, BarOpenKeeps
<1>3. ASSUME NEW q \in Quotes, PausedQuote(q) \/ FlatIdle(q)
      PROVE  StepKeeps /\ TrailingKeeps
  BY <1>3, IdleKeeps DEF PausedQuote, FlatIdle
<1>4. ASSUME NEW q \in Quotes, FlatLong(q)
      PROVE  StepKeeps /\ TrailingKeeps
  <2>1. Scans(q) /\ Advance(q) /\ Flat /\ st' = FlatSide("long", q, sig, set, st)
    BY <1>4 DEF FlatLong
  <2>2. "long" \in Sides /\ "long" = BarSide
    BY <1>4 DEF Sides, BarSide, FlatLong
  <2>3. QED
    BY <2>1, <2>2, FlatKeeps
<1>5. ASSUME NEW q \in Quotes, FlatShort(q)
      PROVE  StepKeeps /\ TrailingKeeps
  <2>1. Scans(q) /\ Advance(q) /\ Flat /\ st' = FlatSide("short", q, sig, set, st)
    BY <1>5 DEF FlatShort
  <2>2. "short" \in Sides /\ "short" = BarSide
    BY <1>5 DEF Sides, BarSide, FlatShort
  <2>3. QED
    BY <2>1, <2>2, FlatKeeps
<1>6. ASSUME NEW q \in Quotes, HoldLong(q) \/ HoldShort(q)
      PROVE  StepKeeps /\ TrailingKeeps
  <2>1. Scans(q) /\ Advance(q) /\ st.pos.side \in Sides
    BY <1>6 DEF HoldLong, HoldShort, Sides
  <2>2. PICK breach \in BOOLEAN : st' = HoldStep(q, sig, set, st, breach)
    BY <1>6 DEF HoldLong, HoldShort
  <2>3. ~Flat
    BY <2>1, TypeParts
  <2>4. QED
    BY <2>1, <2>2, <2>3, HoldKeeps
<1>7. CASE BarEnd
  BY <1>7, BarEndKeeps
<1>8. CASE Finish
  BY <1>8, FinishKeeps
<1>9. CASE UNCHANGED vars
  BY <1>9, StandStill
<1>10. QED
  BY <1>1, <1>2, <1>3, <1>4, <1>5, <1>6, <1>7, <1>8, <1>9 DEF Next, Done

\* A step of run_tick_full_scan_dual.
LEMMA TickStep ==
  ASSUME TypeOK, TickNext
  PROVE  StepKeeps /\ TrailingKeeps
<1>1. CASE TickBarSkip
  BY <1>1, BarSkipKeeps DEF TickBarSkip
<1>2. CASE \E s \in Signals : TickBarOpen(s)
  BY <1>2, BarOpenKeeps DEF TickBarOpen
<1>3. CASE \E q \in Quotes : TickJumped(q)
  BY <1>3, IdleKeeps DEF TickJumped
<1>4. ASSUME NEW q \in Quotes, TickPaused(q) \/ TickFlatIdle(q)
      PROVE  StepKeeps /\ TrailingKeeps
  BY <1>4, IdleKeeps DEF TickPaused, TickFlatIdle, Looks
<1>5. ASSUME NEW q \in Quotes, TickFlatLong(q)
      PROVE  StepKeeps /\ TrailingKeeps
  <2>1. Scans(q) /\ Advance(q) /\ Flat /\ st' = FlatSide("long", q, sig, set, st)
    BY <1>5 DEF TickFlatLong, Looks
  <2>2. "long" \in Sides /\ "long" = BarSide
    BY <1>5 DEF Sides, BarSide, TickFlatLong
  <2>3. QED
    BY <2>1, <2>2, FlatKeeps
<1>6. ASSUME NEW q \in Quotes, TickFlatShort(q)
      PROVE  StepKeeps /\ TrailingKeeps
  <2>1. Scans(q) /\ Advance(q) /\ Flat /\ st' = FlatSide("short", q, sig, set, st)
    BY <1>6 DEF TickFlatShort, Looks
  <2>2. "short" \in Sides /\ "short" = BarSide
    BY <1>6 DEF Sides, BarSide, TickFlatShort
  <2>3. QED
    BY <2>1, <2>2, FlatKeeps
<1>7. ASSUME NEW q \in Quotes, TickHoldLong(q) \/ TickHoldShort(q)
      PROVE  StepKeeps /\ TrailingKeeps
  <2>1. Scans(q) /\ Advance(q) /\ st.pos.side \in Sides
    BY <1>7 DEF TickHoldLong, TickHoldShort, Looks, Sides
  <2>2. PICK breach \in BOOLEAN : st' = HoldStep(q, sig, set, st, breach)
    BY <1>7 DEF TickHoldLong, TickHoldShort
  <2>3. ~Flat
    BY <2>1, TypeParts
  <2>4. QED
    BY <2>1, <2>2, <2>3, HoldKeeps
<1>8. CASE TickBarEnd
  BY <1>8, BarEndKeeps DEF TickBarEnd
<1>9. CASE TickFinish
  BY <1>9, FinishKeeps DEF TickFinish
<1>10. CASE UNCHANGED vars
  BY <1>10, StandStill
<1>11. QED
  BY <1>1, <1>2, <1>3, <1>4, <1>5, <1>6, <1>7, <1>8, <1>9, <1>10 DEF TickNext, Done

\* A step of run_backtest_1min_granularity.
LEMMA MinuteStep ==
  ASSUME TypeOK, MinuteNext
  PROVE  StepKeeps /\ (LoopIsPaired => LoopIsPaired')
<1> DEFINE Goal == StepKeeps /\ (LoopIsPaired => LoopIsPaired')
<1>0. phase # "done" /\ StepKeeps /\ (LogIsPaired => LogIsPaired') => Goal
  BY DEF LoopIsPaired
<1>1. CASE BarSkip
  BY <1>0, <1>1, BarSkipKeeps DEF BarSkip
<1>2. CASE \E s \in Signals : BarOpen(s)
  BY <1>0, <1>2, BarOpenKeeps DEF BarOpen
<1>3. ASSUME NEW q \in Quotes, MinuteFlatIdle(q)
      PROVE  Goal
  BY <1>0, <1>3, IdleKeeps DEF MinuteFlatIdle, Scans
<1>4. ASSUME NEW q \in Quotes, MinuteFlatLong(q)
      PROVE  Goal
  <2>1. Scans(q) /\ Advance(q) /\ Flat /\ st' = MinuteFlat("long", q, sig, set, st)
    BY <1>4 DEF MinuteFlatLong
  <2>2. "long" \in Sides /\ phase # "done"
    BY <2>1 DEF Sides, Scans
  <2>3. QED
    BY <1>0, <2>1, <2>2, MinuteFlatKeeps
<1>5. ASSUME NEW q \in Quotes, MinuteFlatShort(q)
      PROVE  Goal
  <2>1. Scans(q) /\ Advance(q) /\ Flat /\ st' = MinuteFlat("short", q, sig, set, st)
    BY <1>5 DEF MinuteFlatShort
  <2>2. "short" \in Sides /\ phase # "done"
    BY <2>1 DEF Sides, Scans
  <2>3. QED
    BY <1>0, <2>1, <2>2, MinuteFlatKeeps
<1>6. ASSUME NEW q \in Quotes, MinuteHolds(q)
      PROVE  Goal
  <2>1. Scans(q) /\ Advance(q) /\ ~Flat /\ st' = MinuteHold(q, sig, set, st)
    BY <1>6 DEF MinuteHolds
  <2>2. phase # "done"
    BY <2>1 DEF Scans
  <2>3. QED
    BY <1>0, <2>1, <2>2, MinuteHoldKeeps
<1>7. CASE BarEnd
  BY <1>0, <1>7, BarEndKeeps DEF BarEnd
<1>8. CASE MinuteFinish
  BY <1>8, MinuteFinishKeeps DEF LoopIsPaired
<1>9. CASE UNCHANGED vars
  BY <1>9, StandStill DEF vars, LoopIsPaired, LogIsPaired, Flat
<1>10. QED
  BY <1>1, <1>2, <1>3, <1>4, <1>5, <1>6, <1>7, <1>8, <1>9 DEF MinuteNext, Done

\* Two quotes of one adverse extreme close a position both or neither.
LEMMA SameExit ==
  ASSUME TypeOK
  PROVE  NoPathInsideAQuote
<1>1. SUFFICES ASSUME ~Flat, NEW a \in Quotes, NEW b \in Quotes,
                      Worst(st.pos.side, a) = Worst(st.pos.side, b)
               PROVE  (HoldStep(a, sig, set, st, FALSE).pos = NoPosition)
                        <=> (HoldStep(b, sig, set, st, FALSE).pos = NoPosition)
  BY Zenon DEF NoPathInsideAQuote
<1> DEFINE x == Trailed(st.pos, sig, set)
<1>2. st.pos \in Positions /\ sig \in Signals /\ set \in Settings /\ st \in States /\ bar \in Int
  BY <1>1, TypeParts
<1>3. x.side = st.pos.side
  BY <1>2, TrailedEffect
<1>4. ExitReason(x, a, sig, set) = ExitReason(x, b, sig, set)
  BY <1>1, <1>3, ExitReadsWorst
<1>5. \A q \in Quotes : (HoldStep(q, sig, set, st, FALSE).pos = NoPosition)
                          <=> ExitReason(x, q, sig, set) # "none"
  <2>1. TAKE q \in Quotes
  <2>2. FALSE \in BOOLEAN
    OBVIOUS
  <2>3. \/ /\ ExitReason(x, q, sig, set) = "none"
           /\ HoldStep(q, sig, set, st, FALSE).pos \in Positions
        \/ /\ ExitReason(x, q, sig, set) # "none"
           /\ HoldStep(q, sig, set, st, FALSE).pos = NoPosition
    BY <1>2, <2>2, HoldEffect
  <2>4. QED
    BY <2>3, NoPositionIsNone
<1>6. QED
  BY <1>4, <1>5

------------------------------------------------------------------------------
(* The theorems                                                             *)

\* Everything that is inductive about the three engines.
AllInv ==
  /\ Scanning => TypeOK
  /\ study \in {"enhanced", "tick"} => WindowModeTradesAreReal /\ PendingUnused
  /\ study = "minute" => LoopIsPaired

LEMMA AllInvInit == AllInit => AllInv
<1>1. SUFFICES ASSUME AllInit PROVE AllInv
  OBVIOUS
<1>2. CASE study \in {"enhanced", "tick", "minute"} /\ TickInit
  <2>1. TypeOK /\ WindowModeTradesAreReal /\ PendingUnused /\ LogIsPaired
    BY <1>2, InitEngine DEF TickInit
  <2>2. QED
    BY <2>1 DEF AllInv, LoopIsPaired
<1>3. CASE study = "log" \/ study = "stream"
  BY <1>3 DEF AllInv, Scanning
<1>4. QED
  BY <1>1, <1>2, <1>3 DEF AllInit

\* What a step of the run keeps and may not do.
LEMMA AllInvStep ==
  ASSUME AllInv, [AllNext]_allVars
  PROVE  /\ AllInv'
         /\ study \in {"enhanced", "tick"} => StopTightens /\ SizesFollowTheBar
<1> DEFINE Goal == /\ AllInv'
                   /\ study \in {"enhanced", "tick"} => StopTightens /\ SizesFollowTheBar
<1>1. CASE study = "enhanced" /\ Next /\ UNCHANGED study
  <2>1. TypeOK /\ WindowModeTradesAreReal /\ PendingUnused
    BY <1>1 DEF AllInv, Scanning
  <2>2. StepKeeps /\ TrailingKeeps
    BY <1>1, <2>1, EnhancedStep
  <2>3. QED
    BY <1>1, <2>1, <2>2 DEF AllInv, Scanning, StepKeeps, TrailingKeeps
<1>2. CASE study = "tick" /\ TickNext /\ UNCHANGED study
  <2>1. TypeOK /\ WindowModeTradesAreReal /\ PendingUnused
    BY <1>2 DEF AllInv, Scanning
  <2>2. StepKeeps /\ TrailingKeeps
    BY <1>2, <2>1, TickStep
  <2>3. QED
    BY <1>2, <2>1, <2>2 DEF AllInv, Scanning, StepKeeps, TrailingKeeps
<1>3. CASE study = "minute" /\ MinuteNext /\ UNCHANGED study
  <2>1. TypeOK /\ LoopIsPaired
    BY <1>3 DEF AllInv, Scanning
  <2>2. StepKeeps /\ LoopIsPaired'
    BY <1>3, <2>1, MinuteStep
  <2>3. QED
    BY <1>3, <2>2 DEF AllInv, Scanning, StepKeeps
<1>4. CASE study \in {"log", "stream"} /\ UNCHANGED study
  BY <1>4 DEF AllInv, Scanning
<1>5. CASE UNCHANGED allVars
  <2>1. UNCHANGED vars /\ UNCHANGED study
    BY <1>5 DEF allVars, engineVars, tickVars
  <2>2. Scanning => StepKeeps /\ TrailingKeeps
    BY <2>1, StandStill DEF AllInv
  <2>3. LoopIsPaired' <=> LoopIsPaired
    BY <2>1 DEF LoopIsPaired, LogIsPaired, Flat, vars
  <2>4. QED
    BY <2>1, <2>2, <2>3 DEF AllInv, Scanning, StepKeeps, TrailingKeeps
<1>6. QED
  BY <1>1, <1>2, <1>3, <1>4, <1>5 DEF AllNext

LEMMA AllInvAlways == AllSpec => []AllInv
<1>1. AllInv /\ [AllNext]_allVars => AllInv'
  BY AllInvStep
<1>2. QED
  BY <1>1, AllInvInit, PTL DEF AllSpec

\* The state of every engine of backTest.py has its types whatever the data,
\* and a bar never sees more trades than its limit allows (MAX_TRADES_PER_BAR,
\* the breakout entry aside).
THEOREM TypeCorrect == AllSpec => []EngineTypeOK
<1>1. AllInv => EngineTypeOK
  BY DEF AllInv, EngineTypeOK
<1>2. QED
  BY <1>1, AllInvAlways, PTL

\* run_backtest_enhanced decides on an exit from the adverse extreme of the
\* quote alone: the favourable one of the same quote is not yet known.
THEOREM NoPathKnown == AllSpec => []EngineNoPathInsideAQuote
<1>1. AllInv => EngineNoPathInsideAQuote
  BY SameExit DEF AllInv, EngineNoPathInsideAQuote, Scanning
<1>2. QED
  BY <1>1, AllInvAlways, PTL

\* With the zero initial entry in window mode every position is a real order
\* and the trade log of run_backtest_enhanced and run_tick_full_scan_dual is
\* paired, for every schedule of positive sizes.
THEOREM WindowTradesReal == AllSpec => []EngineWindowModeTradesAreReal
<1>1. AllInv => EngineWindowModeTradesAreReal
  BY DEF AllInv, EngineWindowModeTradesAreReal
<1>2. QED
  BY <1>1, AllInvAlways, PTL

\* Until its last bar run_backtest_1min_granularity writes a log of pairs.
THEOREM MinutePaired == AllSpec => []MinuteLoopIsPaired
<1>1. AllInv => MinuteLoopIsPaired
  BY DEF AllInv, MinuteLoopIsPaired
<1>2. QED
  BY <1>1, AllInvAlways, PTL

\* The stop of an open position never moves away from the market, in no mode
\* of the stop and for no ATR of the bars it lives through.
THEOREM StopTightensOnly == AllSpec => EngineStopOnlyTightens
<1>1. AllInv /\ [AllNext]_allVars => [(study \in {"enhanced", "tick"}) => StopTightens]_allVars
  BY AllInvStep
<1>2. QED
  BY <1>1, AllInvAlways, PTL DEF AllSpec, EngineStopOnlyTightens

\* In window mode the n-th real order of a signal bar has the n-th size of the
\* schedule, whichever of the two re-entry windows it uses: a pending breakout,
\* sized by the first element, is always the first order of its bar.
THEOREM OrderSizesFollow == AllSpec => EngineOrderSizesFollowTheBar
<1>1. AllInv /\ [AllNext]_allVars
        => [(study \in {"enhanced", "tick"}) => SizesFollowTheBar]_allVars
  BY AllInvStep
<1>2. QED
  BY <1>1, AllInvAlways, PTL DEF AllSpec, EngineOrderSizesFollowTheBar

------------------------------------------------------------------------------
(* The readers of a trade log                                              *)

\* The pairs of a log for the entries in E, the log as a parameter.
PairsIn(lg, E) ==
  {ij \in E \X (1..Len(lg)) :
     /\ ij[1] < ij[2] /\ lg[ij[2]].type = "EXIT"
     /\ \A m \in (ij[1] + 1)..(ij[2] - 1) : lg[m].type # "EXIT" /\ m \notin E}

\* No row from i + 1 to n is an exit or one of the entries E.
Open(lg, E, i, n) == \A m \in (i + 1)..n : lg[m].type # "EXIT" /\ m \notin E

\* E is a set of entry rows of the log.
EntrySet(lg, E) == E \subseteq 1..Len(lg) /\ \A i \in E : lg[i].type # "EXIT"

\* After n rows a reader of the entries E holds in mem the entry still open, 0
\* when there is none, and in out the pairs whose exit was read, in order.
ReaderInv(lg, E, n, mem, out) ==
  /\ out \in Seq(Int \X Int)
  /\ \A k \in 1..Len(out) : out[k] \in PairsIn(lg, E) /\ out[k][2] <= n
  /\ \A ij \in PairsIn(lg, E) : ij[2] <= n => \E k \in 1..Len(out) : out[k] = ij
  /\ \A k, l \in 1..Len(out) : k < l => out[k][2] < out[l][2]
  /\ mem # 0 => mem \in E /\ mem <= n /\ Open(lg, E, mem, n)
  /\ mem = 0 => \A i \in E : i <= n => ~Open(lg, E, i, n)

\* What a pair is.
LEMMA PairFacts ==
  ASSUME NEW lg \in Seq(Readers!Rows), NEW E, EntrySet(lg, E)
  PROVE  /\ E \subseteq Int
         /\ \A ij \in PairsIn(lg, E) :
              /\ ij \in Int \X Int /\ ij = <<ij[1], ij[2]>>
              /\ ij[1] \in E /\ ij[2] \in 1..Len(lg) /\ ij[1] < ij[2]
              /\ lg[ij[2]].type = "EXIT" /\ Open(lg, E, ij[1], ij[2] - 1)
         /\ \A i \in E, j \in 1..Len(lg) :
              i < j /\ lg[j].type = "EXIT" /\ Open(lg, E, i, j - 1) => <<i, j>> \in PairsIn(lg, E)
<1>1. E \subseteq Int /\ Len(lg) \in Nat
  BY DEF EntrySet
<1>2. \A ij \in PairsIn(lg, E) :
              /\ ij \in Int \X Int /\ ij = <<ij[1], ij[2]>>
              /\ ij[1] \in E /\ ij[2] \in 1..Len(lg) /\ ij[1] < ij[2]
              /\ lg[ij[2]].type = "EXIT" /\ Open(lg, E, ij[1], ij[2] - 1)
  <2>1. TAKE ij \in PairsIn(lg, E)
  <2>2. ij \in E \X (1..Len(lg)) /\ ij[1] < ij[2] /\ lg[ij[2]].type = "EXIT"
          /\ Open(lg, E, ij[1], ij[2] - 1)
    BY DEF PairsIn, Open
  <2>3. ij[1] \in E /\ ij[2] \in 1..Len(lg) /\ ij = <<ij[1], ij[2]>>
    BY <2>2
  <2>4. ij \in Int \X Int
    BY <1>1, <2>3
  <2>5. QED
    BY <2>2, <2>3, <2>4
<1>3. \A i \in E, j \in 1..Len(lg) :
              i < j /\ lg[j].type = "EXIT" /\ Open(lg, E, i, j - 1) => <<i, j>> \in PairsIn(lg, E)
  BY <1>1 DEF PairsIn, Open
<1>4. QED
  BY <1>1, <1>2, <1>3

\* The next row is one of the entries: it is remembered, an older one is lost.
LEMMA EntryRow ==
  ASSUME NEW lg \in Seq(Readers!Rows), NEW E, EntrySet(lg, E), NEW n \in Nat, n < Len(lg),
         NEW mem, NEW out, ReaderInv(lg, E, n, mem, out), n + 1 \in E
  PROVE  ReaderInv(lg, E, n + 1, n + 1, out)
<1>1. lg[n + 1].type # "EXIT" /\ Len(lg) \in Nat
  BY DEF EntrySet
<1>2. \A ij \in PairsIn(lg, E) : ij[2] <= n + 1 => ij[2] <= n
  BY <1>1, PairFacts
<1>3. Open(lg, E, n + 1, n + 1)
  BY DEF Open
<1>4. out \in Seq(Int \X Int) /\ \A k, l \in 1..Len(out) : k < l => out[k][2] < out[l][2]
  BY DEF ReaderInv
<1>5. \A k \in 1..Len(out) : out[k] \in PairsIn(lg, E) /\ out[k][2] <= n + 1
  <2>1. TAKE k \in 1..Len(out)
  <2>2. out[k] \in PairsIn(lg, E) /\ out[k][2] <= n
    BY DEF ReaderInv
  <2>3. out[k][2] \in Int
    BY <2>2, PairFacts
  <2>4. QED
    BY <2>2, <2>3
<1>6. \A ij \in PairsIn(lg, E) : ij[2] <= n + 1 => \E k \in 1..Len(out) : out[k] = ij
  BY <1>2 DEF ReaderInv
<1>7. n + 1 # 0 /\ n + 1 <= n + 1
  OBVIOUS
<1>8. QED
  BY <1>3, <1>4, <1>5, <1>6, <1>7 DEF ReaderInv

\* The next row is neither an entry nor an exit that finds one.
LEMMA OtherRow ==
  ASSUME NEW lg \in Seq(Readers!Rows), NEW E, EntrySet(lg, E), NEW n \in Nat, n < Len(lg),
         NEW mem, NEW out, ReaderInv(lg, E, n, mem, out), n + 1 \notin E,
         lg[n + 1].type # "EXIT" \/ mem = 0
  PROVE  ReaderInv(lg, E, n + 1, mem, out)
<1>1. Len(lg) \in Nat /\ E \subseteq Int
  BY PairFacts
<1>2. ASSUME NEW ij \in PairsIn(lg, E), ij[2] <= n + 1, ~(ij[2] <= n)
      PROVE  FALSE
  <2>1. ij[2] = n + 1 /\ ij[1] \in E /\ ij[1] <= n /\ lg[n + 1].type = "EXIT" /\ Open(lg, E, ij[1], n)
    <3>1. ij[2] \in Int /\ ij[1] \in Int
      BY PairFacts
    <3>2. ij[2] = n + 1
      BY <1>2, <3>1
    <3>3. ij[2] - 1 = n
      BY <3>2
    <3>4. QED
      BY <3>1, <3>2, <3>3, PairFacts
  <2>2. QED
    BY <2>1 DEF ReaderInv
<1>3. \A k \in 1..Len(out) : out[k] \in PairsIn(lg, E) /\ out[k][2] <= n + 1
  <2>1. TAKE k \in 1..Len(out)
  <2>2. out[k] \in PairsIn(lg, E) /\ out[k][2] <= n
    BY DEF ReaderInv
  <2>3. out[k][2] \in Int
    BY <2>2, PairFacts
  <2>4. QED
    BY <2>2, <2>3
<1>4. \A ij \in PairsIn(lg, E) : ij[2] <= n + 1 => \E k \in 1..Len(out) : out[k] = ij
  BY <1>2 DEF ReaderInv
<1>5. mem # 0 => mem \in E /\ mem <= n + 1 /\ Open(lg, E, mem, n + 1)
  <2>1. SUFFICES ASSUME mem # 0 PROVE mem \in E /\ mem <= n + 1 /\ Open(lg, E, mem, n + 1)
    OBVIOUS
  <2>2. mem \in E /\ mem <= n /\ Open(lg, E, mem, n) /\ mem \in Int
    BY <1>1, <2>1 DEF ReaderInv
  <2>3. ASSUME NEW m \in (mem + 1)..(n + 1) PROVE lg[m].type # "EXIT" /\ m \notin E
    <3>1. CASE m = n + 1
      BY <2>1, <3>1
    <3>2. CASE m # n + 1
      <4>1. m \in (mem + 1)..n
        BY <2>2, <3>2
      <4>2. QED
        BY <2>2, <4>1 DEF Open
    <3>3. QED
      BY <3>1, <3>2
  <2>4. mem <= n + 1
    BY <2>2
  <2>5. QED
    BY <2>2, <2>3, <2>4 DEF Open
<1>6. mem = 0 => \A i \in E : i <= n + 1 => ~Open(lg, E, i, n + 1)
  <2>1. SUFFICES ASSUME mem = 0, NEW i \in E, i <= n + 1 PROVE ~Open(lg, E, i, n + 1)
    OBVIOUS
  <2>2. i <= n
    BY <1>1, <2>1
  <2>3. PICK m \in (i + 1)..n : ~(lg[m].type # "EXIT" /\ m \notin E)
    BY <2>1, <2>2 DEF ReaderInv, Open
  <2>4. m \in (i + 1)..(n + 1)
    BY <1>1, <2>3
  <2>5. QED
    BY <2>3, <2>4 DEF Open
<1>7. out \in Seq(Int \X Int) /\ \A k, l \in 1..Len(out) : k < l => out[k][2] < out[l][2]
  BY DEF ReaderInv
<1>8. QED
  BY <1>3, <1>4, <1>5, <1>6, <1>7 DEF ReaderInv

\* Two places of a sequence one longer: the first is old, the second may be new.
LEMMA Ordered ==
  ASSUME NEW d \in Nat, NEW k \in Int, NEW l \in Int, 1 <= k, k < l, l <= d + 1
  PROVE  k \in 1..d /\ (l = d + 1 \/ l \in 1..d)
OBVIOUS

\* The next row is an exit and an entry is open: the two are a pair, and the
\* only one with this exit.
LEMMA ExitRow ==
  ASSUME NEW lg \in Seq(Readers!Rows), NEW E, EntrySet(lg, E), NEW n \in Nat, n < Len(lg),
         NEW mem, NEW out, ReaderInv(lg, E, n, mem, out),
         lg[n + 1].type = "EXIT", mem # 0
  PROVE  ReaderInv(lg, E, n + 1, 0, Append(out, <<mem, n + 1>>))
<1> DEFINE pair == <<mem, n + 1>>
           longer == Append(out, pair)
<1>1. Len(lg) \in Nat /\ E \subseteq Int /\ n + 1 \notin E /\ n + 1 \in 1..Len(lg)
  BY PairFacts DEF EntrySet
<1>2. mem \in E /\ mem \in Int /\ mem <= n /\ Open(lg, E, mem, n)
  BY <1>1 DEF ReaderInv
<1>3. pair \in PairsIn(lg, E) /\ pair[2] = n + 1 /\ pair \in Int \X Int
  <2>1. n + 1 - 1 = n /\ mem < n + 1
    BY <1>2
  <2>2. Open(lg, E, mem, n + 1 - 1)
    BY <1>2, <2>1
  <2>3. pair \in PairsIn(lg, E)
    BY <1>1, <1>2, <2>1, <2>2, PairFacts
  <2>4. QED
    BY <1>2, <2>3
<1>4. out \in Seq(Int \X Int) /\ Len(out) \in Nat
  BY DEF ReaderInv
<1>5. /\ longer \in Seq(Int \X Int) /\ Len(longer) = Len(out) + 1
      /\ longer[Len(out) + 1] = pair
      /\ \A k \in 1..Len(out) : longer[k] = out[k]
  BY <1>3, <1>4
<1>6. ASSUME NEW ij \in PairsIn(lg, E), ij[2] <= n + 1, ~(ij[2] <= n)
      PROVE  ij = pair
  <2>1. ij[2] \in Int /\ ij[1] \in Int /\ ij[1] \in E /\ ij[1] < ij[2] /\ ij = <<ij[1], ij[2]>>
        /\ Open(lg, E, ij[1], ij[2] - 1)
    BY PairFacts
  <2>2. ij[2] = n + 1 /\ ij[2] - 1 = n /\ ij[1] <= n
    BY <1>6, <2>1
  <2>3. ~(ij[1] < mem)
    <3>1. ij[1] < mem => mem \in (ij[1] + 1)..n
      BY <1>2, <2>1
    <3>2. QED
      BY <1>2, <2>1, <2>2, <3>1 DEF Open
  <2>4. ~(mem < ij[1])
    <3>1. mem < ij[1] => ij[1] \in (mem + 1)..n
      BY <1>2, <2>1, <2>2
    <3>2. QED
      BY <1>2, <2>1, <3>1 DEF Open
  <2>5. ij[1] = mem
    BY <1>2, <2>1, <2>3, <2>4
  <2>6. QED
    BY <2>1, <2>2, <2>5
<1>7. \A k \in 1..Len(out) : out[k] \in PairsIn(lg, E) /\ out[k][2] <= n /\ out[k][2] \in Int
  BY PairFacts DEF ReaderInv
<1> HIDE DEF pair, longer
<1>8. \A k \in 1..Len(longer) : longer[k] \in PairsIn(lg, E) /\ longer[k][2] <= n + 1
  <2>1. TAKE k \in 1..Len(longer)
  <2>2. CASE k = Len(out) + 1
    BY <1>3, <1>5, <2>2
  <2>3. CASE k # Len(out) + 1
    <3>1. k \in 1..Len(out)
      BY <1>4, <1>5, <2>3
    <3>2. longer[k] = out[k] /\ out[k] \in PairsIn(lg, E) /\ out[k][2] <= n /\ out[k][2] \in Int
      BY <1>5, <1>7, <3>1
    <3>3. out[k][2] <= n + 1
      BY <3>2
    <3>4. QED
      BY <3>2, <3>3
  <2>4. QED
    BY <2>2, <2>3
<1>9. \A ij \in PairsIn(lg, E) : ij[2] <= n + 1 => \E k \in 1..Len(longer) : longer[k] = ij
  <2>1. SUFFICES ASSUME NEW ij \in PairsIn(lg, E), ij[2] <= n + 1
                 PROVE  \E k \in 1..Len(longer) : longer[k] = ij
    OBVIOUS
  <2>2. Len(out) + 1 \in 1..Len(longer) /\ 1..Len(out) \subseteq 1..Len(longer)
    BY <1>4, <1>5
  <2>3. CASE ij[2] <= n
    <3>1. PICK k \in 1..Len(out) : out[k] = ij
      BY <2>3 DEF ReaderInv
    <3>2. QED
      BY <1>5, <2>2, <3>1
  <2>4. CASE ~(ij[2] <= n)
    BY <1>5, <1>6, <2>1, <2>2, <2>4
  <2>5. QED
    BY <2>3, <2>4
<1>10. \A k, l \in 1..Len(longer) : k < l => longer[k][2] < longer[l][2]
  <2>1. SUFFICES ASSUME NEW k \in 1..Len(longer), NEW l \in 1..Len(longer), k < l
                 PROVE  longer[k][2] < longer[l][2]
    OBVIOUS
  <2>2. k \in 1..Len(out) /\ (l = Len(out) + 1 \/ l \in 1..Len(out))
    <3>1. 1..Len(longer) = 1..(Len(out) + 1)
      BY <1>5
    <3>2. k \in Int /\ l \in Int /\ 1 <= k /\ k < l /\ l <= Len(out) + 1
      BY <1>4, <2>1, <3>1
    <3>3. QED
      BY <1>4, <3>2, Ordered
  <2>3. longer[k] = out[k] /\ out[k][2] <= n /\ out[k][2] \in Int
    BY <1>5, <1>7, <2>2
  <2>4. CASE l = Len(out) + 1
    <3>1. longer[l][2] = n + 1
      BY <1>3, <1>5, <2>4
    <3>2. out[k][2] < n + 1
      BY <2>3
    <3>3. QED
      BY <2>3, <3>1, <3>2
  <2>5. CASE l \in 1..Len(out)
    <3>1. longer[l] = out[l] /\ out[k][2] < out[l][2]
      BY <1>5, <2>1, <2>2, <2>5 DEF ReaderInv
    <3>2. QED
      BY <2>3, <3>1
  <2>6. QED
    BY <2>2, <2>4, <2>5
<1>11. \A i \in E : i <= n + 1 => ~Open(lg, E, i, n + 1)
  <2>1. SUFFICES ASSUME NEW i \in E, i <= n + 1 PROVE ~Open(lg, E, i, n + 1)
    OBVIOUS
  <2>2. n + 1 \in (i + 1)..(n + 1)
    BY <1>1, <2>1
  <2>3. QED
    BY <2>2 DEF Open
<1>12. QED
  BY <1>5, <1>8, <1>9, <1>10, <1>11 DEF ReaderInv, longer, pair

\* The pairs of a reader are in the order of their exits, so none comes twice.
LEMMA PairsCounted ==
  ASSUME NEW lg \in Seq(Readers!Rows), NEW E, EntrySet(lg, E), NEW mem, NEW out,
         ReaderInv(lg, E, Len(lg), mem, out)
  PROVE  /\ {out[k] : k \in 1..Len(out)} = PairsIn(lg, E)
         /\ Cardinality(PairsIn(lg, E)) = Len(out)
<1>1. out \in Seq(Int \X Int) /\ Len(out) \in Nat /\ Len(lg) \in Nat
  BY DEF ReaderInv
<1>2. \A ij \in PairsIn(lg, E) : ij[2] <= Len(lg) /\ ij[2] \in Int
  BY <1>1, PairFacts
<1>3. {out[k] : k \in 1..Len(out)} = PairsIn(lg, E)
  BY <1>2 DEF ReaderInv
<1>4. \A k, l \in 1..Len(out) : out[k] = out[l] => k = l
  <2>1. SUFFICES ASSUME NEW k \in 1..Len(out), NEW l \in 1..Len(out), out[k] = out[l], k # l
                 PROVE  FALSE
    OBVIOUS
  <2>2. out[k][2] \in Int /\ out[k][2] = out[l][2]
    BY <1>2, <2>1 DEF ReaderInv
  <2>3. out[k][2] < out[l][2] \/ out[l][2] < out[k][2]
    <3>1. k < l \/ l < k
      BY <2>1
    <3>2. \A x, y \in 1..Len(out) : x < y => out[x][2] < out[y][2]
      BY DEF ReaderInv
    <3>3. QED
      BY <3>1, <3>2
  <2>4. QED
    BY <2>2, <2>3
<1>5. out \in Bijection(1..Len(out), PairsIn(lg, E))
  <2>1. out \in [1..Len(out) -> PairsIn(lg, E)]
    BY <1>1, <1>3
  <2>2. QED
    BY <1>3, <1>4, <2>1 DEF Bijection, Injection, Surjection, IsInjective
<1>6. ExistsBijection(1..Len(out), PairsIn(lg, E))
  BY <1>5 DEF ExistsBijection
<1>7. QED
  BY <1>1, <1>3, <1>6, FS_CountingElements

------------------------------------------------------------------------------
(* The readers                                                              *)

AllEntries == Readers!Entries
RealEntries == {i \in Readers!Entries : log[i].notional > 0}

\* Rows 1, 3, ... are entries and rows 2, 4, ... exits, up to row n.
Alternates(n) == \A i \in 1..n : IF i % 2 = 1 THEN Readers!IsEntry(log[i]) ELSE log[i].type = "EXIT"

\* What is inductive about the readers: the log and the cursor, the pairs of
\* both pairing readers, and on an alternating log the count of the exits.
LogInv ==
  /\ log \in Seq(Readers!Rows) /\ read \in 0..Len(log)
  /\ ReaderInv(log, AllEntries, read, memo.temp_pos, memo.trades)
  /\ ReaderInv(log, RealEntries, read, memo.temp, memo.stats)
  /\ Alternates(read) => /\ memo.temp_pos = IF read % 2 = 1 THEN read ELSE 0
                         /\ memo.pairs = Len(memo.trades)

\* Both sets of entries are sets of entry rows.
LEMMA EntrySets == EntrySet(log, AllEntries) /\ EntrySet(log, RealEntries)
BY DEF EntrySet, AllEntries, RealEntries, Readers!Entries, Readers!IsEntry

\* A reader that has read nothing.
LEMMA NothingRead ==
  ASSUME NEW lg \in Seq(Readers!Rows), NEW E, EntrySet(lg, E)
  PROVE  ReaderInv(lg, E, 0, 0, <<>>)
<1>1. \A ij \in PairsIn(lg, E) : ~(ij[2] <= 0)
  BY PairFacts
<1>2. \A i \in E : ~(i <= 0)
  BY DEF EntrySet
<1>3. QED
  BY <1>1, <1>2 DEF ReaderInv

LEMMA LogInvInit == Readers!Init => LogInv
<1>1. SUFFICES ASSUME Readers!Init PROVE LogInv
  OBVIOUS
<1>2. log \in Seq(Readers!Rows) /\ read = 0 /\ memo = Readers!Unread
  <2>1. PICK n \in 0..MaxRows : log \in [1..n -> Readers!Rows]
    BY <1>1 DEF Readers!Init
  <2>2. n \in Nat
    BY RowsAssumption
  <2>3. log \in Seq(Readers!Rows)
    BY <2>1, <2>2
  <2>4. QED
    BY <1>1, <2>3 DEF Readers!Init
<1>3. memo.temp_pos = 0 /\ memo.trades = <<>> /\ memo.temp = 0 /\ memo.stats = <<>> /\ memo.pairs = 0
  BY <1>2 DEF Readers!Unread
<1>4. ReaderInv(log, AllEntries, 0, 0, <<>>) /\ ReaderInv(log, RealEntries, 0, 0, <<>>)
  BY <1>2, EntrySets, NothingRead
<1>5. Len(log) \in Nat /\ Len(<<>>) = 0 /\ 0 % 2 = 0
  BY <1>2
<1>6. QED
  BY <1>2, <1>3, <1>4, <1>5 DEF LogInv

\* One row of analyze_long_short_performance for the entries E, of which this
\* row is one exactly when it is an entry.
LEMMA AnalyzeRow ==
  ASSUME NEW lg \in Seq(Readers!Rows), NEW E, EntrySet(lg, E), NEW n \in Nat, n < Len(lg),
         NEW mem, NEW out, ReaderInv(lg, E, n, mem, out),
         n + 1 \in E <=> Readers!IsEntry(lg[n + 1])
  PROVE  LET a == Readers!analyze_long_short_performance(lg[n + 1], n + 1, mem, out)
         IN ReaderInv(lg, E, n + 1, a.mem, a.out)
<1> DEFINE a == Readers!analyze_long_short_performance(lg[n + 1], n + 1, mem, out)
<1>1. CASE Readers!IsEntry(lg[n + 1])
  <2>1. a.mem = n + 1 /\ a.out = out
    BY <1>1 DEF Readers!analyze_long_short_performance
  <2>2. ReaderInv(lg, E, n + 1, n + 1, out)
    BY <1>1, EntryRow
  <2>3. QED
    BY <2>1, <2>2
<1>2. CASE ~Readers!IsEntry(lg[n + 1]) /\ lg[n + 1].type = "EXIT" /\ mem # 0
  <2>1. a.mem = 0 /\ a.out = Append(out, <<mem, n + 1>>)
    BY <1>2 DEF Readers!analyze_long_short_performance
  <2>2. ReaderInv(lg, E, n + 1, 0, Append(out, <<mem, n + 1>>))
    BY <1>2, ExitRow
  <2>3. QED
    BY <2>1, <2>2
<1>3. CASE ~Readers!IsEntry(lg[n + 1]) /\ ~(lg[n + 1].type = "EXIT" /\ mem # 0)
  <2>1. a.mem = mem /\ a.out = out
    BY <1>3 DEF Readers!analyze_long_short_performance
  <2>2. ReaderInv(lg, E, n + 1, mem, out)
    BY <1>3, OtherRow
  <2>3. QED
    BY <2>1, <2>2
<1>4. QED
  BY <1>1, <1>2, <1>3

LEMMA LogInvStep ==
  ASSUME LogInv, Readers!Next \/ UNCHANGED <<log, read, memo>>
  PROVE  LogInv'
<1>1. CASE Readers!Read
  <2> DEFINE row == log[read + 1]
             a == Readers!analyze_long_short_performance(row, read + 1, memo.temp_pos, memo.trades)
             b == Readers!compute_backtest_stats(row, read + 1, memo.temp, memo.stats)
  <2>1. /\ memo' = [temp_pos |-> a.mem, trades |-> a.out, temp |-> b.mem, stats |-> b.out,
                    pairs |-> Readers!TradePairs(row, memo.pairs)]
        /\ read' = read + 1 /\ log' = log /\ read < Len(log)
    BY <1>1 DEF Readers!Read
  <2>2. log \in Seq(Readers!Rows) /\ read \in Nat /\ Len(log) \in Nat /\ read + 1 \in 1..Len(log)
    BY <2>1 DEF LogInv
  <2>3. read + 1 \in 0..Len(log) /\ row \in Readers!Rows
    BY <2>2
  <2>4. EntrySet(log, AllEntries) /\ EntrySet(log, RealEntries)
    BY EntrySets
  <2>5. read + 1 \in AllEntries <=> Readers!IsEntry(row)
    BY <2>2 DEF AllEntries, Readers!Entries
  <2>6. read + 1 \in RealEntries <=> Readers!IsEntry(row) /\ row.notional > 0
    BY <2>5 DEF RealEntries, AllEntries
  <2>7. row.notional \in {0, 1}
    BY <2>3 DEF Readers!Rows
  <2>8. ReaderInv(log, AllEntries, read + 1, a.mem, a.out)
    BY <2>1, <2>2, <2>4, <2>5, AnalyzeRow DEF LogInv
  <2>9. ReaderInv(log, RealEntries, read + 1, b.mem, b.out)
    <3>1. CASE Readers!IsEntry(row) /\ row.notional <= 0
      <4>1. b.mem = memo.temp /\ b.out = memo.stats
        BY <3>1 DEF Readers!compute_backtest_stats
      <4>2. row.type # "EXIT" /\ read + 1 \notin RealEntries
        BY <3>1, <2>6, <2>7 DEF Readers!IsEntry
      <4>3. ReaderInv(log, RealEntries, read + 1, memo.temp, memo.stats)
        BY <2>1, <2>2, <2>4, <4>2, OtherRow DEF LogInv
      <4>4. QED
        BY <4>1, <4>3
    <3>2. CASE ~(Readers!IsEntry(row) /\ row.notional <= 0)
      <4> DEFINE c == Readers!analyze_long_short_performance(row, read + 1, memo.temp, memo.stats)
      <4>1. b = c
        BY <3>2 DEF Readers!compute_backtest_stats
      <4>2. read + 1 \in RealEntries <=> Readers!IsEntry(row)
        BY <3>2, <2>6, <2>7
      <4>3. ReaderInv(log, RealEntries, read + 1, c.mem, c.out)
        BY <2>1, <2>2, <2>4, <4>2, AnalyzeRow DEF LogInv
      <4>4. QED
        BY <4>1, <4>3
    <3>3. QED
      BY <3>1, <3>2
  <2>10. ASSUME Alternates(read + 1)
         PROVE  /\ a.mem = IF (read + 1) % 2 = 1 THEN read + 1 ELSE 0
                /\ Readers!TradePairs(row, memo.pairs) = Len(a.out)
    <3>1. Alternates(read) /\ (IF (read + 1) % 2 = 1 THEN Readers!IsEntry(row) ELSE row.type = "EXIT")
      BY <2>2, <2>10 DEF Alternates
    <3>2. /\ memo.temp_pos = IF read % 2 = 1 THEN read ELSE 0
          /\ memo.pairs = Len(memo.trades)
      BY <3>1 DEF LogInv
    <3>3. memo.trades \in Seq(Int \X Int) /\ Len(memo.trades) \in Nat
      BY DEF LogInv, ReaderInv
    <3>4. CASE (read + 1) % 2 = 1
      <4>1. Readers!IsEntry(row) /\ row.type # "EXIT"
        BY <3>1, <3>4 DEF Readers!IsEntry
      <4>2. a.mem = read + 1 /\ a.out = memo.trades
        BY <4>1 DEF Readers!analyze_long_short_performance
      <4>3. QED
        BY <3>2, <3>3, <3>4, <4>1, <4>2 DEF Readers!TradePairs
    <3>5. CASE (read + 1) % 2 # 1
      <4>1. row.type = "EXIT" /\ ~Readers!IsEntry(row)
        BY <3>1, <3>5 DEF Readers!IsEntry
      <4>2. read % 2 = 1 /\ read # 0
        BY <2>2, <3>5
      <4>3. memo.temp_pos = read /\ memo.temp_pos # 0
        BY <3>2, <4>2
      <4>4. a.mem = 0 /\ a.out = Append(memo.trades, <<memo.temp_pos, read + 1>>)
        BY <4>1, <4>3 DEF Readers!analyze_long_short_performance
      <4>5. Len(Append(memo.trades, <<memo.temp_pos, read + 1>>)) = Len(memo.trades) + 1
        BY <2>2, <3>3, <4>3
      <4>6. QED
        BY <3>2, <3>5, <4>1, <4>4, <4>5 DEF Readers!TradePairs
    <3>6. QED
      BY <3>4, <3>5
  <2>11. AllEntries' = AllEntries /\ RealEntries' = RealEntries
    BY <2>1 DEF AllEntries, RealEntries, Readers!Entries
  <2>12. Alternates(read)' <=> Alternates(read + 1)
    BY <2>1 DEF Alternates
  <2>13. /\ memo'.temp_pos = a.mem /\ memo'.trades = a.out /\ memo'.temp = b.mem
         /\ memo'.stats = b.out /\ memo'.pairs = Readers!TradePairs(row, memo.pairs)
    BY <2>1
  <2> HIDE DEF a, b, row
  <2>14. ReaderInv(log, AllEntries, read, memo.temp_pos, memo.trades)'
    BY <2>1, <2>8, <2>11, <2>13 DEF ReaderInv, PairsIn, Open
  <2>15. ReaderInv(log, RealEntries, read, memo.temp, memo.stats)'
    BY <2>1, <2>9, <2>11, <2>13 DEF ReaderInv, PairsIn, Open
  <2>16. QED
    BY <2>1, <2>2, <2>3, <2>10, <2>12, <2>13, <2>14, <2>15 DEF LogInv
<1>2. CASE UNCHANGED <<log, read, memo>>
  <2>1. log' = log /\ read' = read /\ memo' = memo
    BY <1>2
  <2>2. AllEntries' = AllEntries /\ RealEntries' = RealEntries
    BY <2>1 DEF AllEntries, RealEntries, Readers!Entries
  <2>3. /\ ReaderInv(log, AllEntries, read, memo.temp_pos, memo.trades)
        /\ ReaderInv(log, RealEntries, read, memo.temp, memo.stats)
    BY DEF LogInv
  <2>4. ReaderInv(log, AllEntries, read, memo.temp_pos, memo.trades)'
    BY <2>1, <2>2, <2>3 DEF ReaderInv, PairsIn, Open
  <2>5. ReaderInv(log, RealEntries, read, memo.temp, memo.stats)'
    BY <2>1, <2>2, <2>3 DEF ReaderInv, PairsIn, Open
  <2>6. Alternates(read)' <=> Alternates(read)
    BY <2>1 DEF Alternates
  <2>7. QED
    BY <2>1, <2>4, <2>5, <2>6 DEF LogInv
<1>3. QED
  BY <1>1, <1>2 DEF Readers!Next, Readers!Done, Readers!vars

\* When the log is read to its end the readers have its pairs.
LEMMA LogInvPairs == LogInv => Readers!ReadersPairUp
<1>1. SUFFICES ASSUME LogInv, read = Len(log) PROVE Readers!ReadersPairUp
  BY DEF Readers!ReadersPairUp
<1>2. EntrySet(log, AllEntries) /\ EntrySet(log, RealEntries) /\ log \in Seq(Readers!Rows)
  BY <1>1, EntrySets DEF LogInv
<1>3. /\ {memo.trades[k] : k \in 1..Len(memo.trades)} = PairsIn(log, AllEntries)
      /\ Cardinality(PairsIn(log, AllEntries)) = Len(memo.trades)
  BY <1>1, <1>2, PairsCounted DEF LogInv
<1>4. {memo.stats[k] : k \in 1..Len(memo.stats)} = PairsIn(log, RealEntries)
  BY <1>1, <1>2, PairsCounted DEF LogInv
<1>5. \A E : Readers!PairsOf(E) = PairsIn(log, E)
  BY DEF Readers!PairsOf, PairsIn
<1>6. Alternates(read) => memo.pairs = Len(memo.trades)
  BY <1>1 DEF LogInv
<1>7. \A S : Readers!Cardinality(S) = Cardinality(S)
  BY Zenon DEF Readers!Cardinality, Cardinality
<1>8. QED
  BY <1>3, <1>4, <1>5, <1>6, <1>7 DEF Readers!ReadersPairUp, Readers!RangeOf, AllEntries, RealEntries, Alternates

\* Whatever log the engines of backTest.py wrote, of whatever length, and for
\* both rules on entries of zero notional: a reader pairs each exit with the
\* last entry before it unless an earlier exit used that one, reports the pair
\* once and nothing else; on an alternating log the scenario matrices' count of
\* exits is the number of pairs.
THEOREM ReadersReportThePairs == AllSpec => []LogReadersPairUp
<1> DEFINE Inv == study = "log" => LogInv
<1>1. AllInit => Inv
  BY LogInvInit DEF AllInit
<1>2. Inv /\ [AllNext]_allVars => Inv'
  <2>1. SUFFICES ASSUME Inv, [AllNext]_allVars, study' = "log" PROVE LogInv'
    OBVIOUS
  <2>2. study = "log"
    BY <2>1 DEF AllNext, allVars
  <2>3. Readers!Next \/ UNCHANGED <<log, read, memo>>
    BY <2>1, <2>2 DEF AllNext, allVars, logVars
  <2>4. QED
    BY <2>1, <2>2, <2>3, LogInvStep
<1>3. Inv => LogReadersPairUp
  BY LogInvPairs DEF LogReadersPairUp
<1>4. QED
  BY <1>1, <1>2, <1>3, PTL DEF AllSpec
===============================================================================
