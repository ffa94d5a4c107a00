------------------------------- MODULE Backtest -------------------------------
(***************************************************************************)
(* The replay engine of research/backTest.py, run_backtest_enhanced, and   *)
(* the strategy helpers all its engines share.  The engine walks the       *)
(* signal bars; in each it walks the one-minute quotes of the bar.  Flat,  *)
(* it looks for a breakout entry and for a re-entry inside an open window; *)
(* in a position it looks for an exit and then moves the watermark, the    *)
(* protection flag and the trailing stop.                                  *)
(*                                                                         *)
(* Prices are integer ticks and distances are counted in half ATRs, the    *)
(* finest fraction the code compares with (0.5, 1.5, 2.0 and 3.0 ATR).     *)
(* Slippage is an additive tick.  The balance is left out: sizes are kept  *)
(* because the code branches on them, and whether an exit breaches the     *)
(* drawdown limit is a choice.                                             *)
(***************************************************************************)
EXTENDS Integers, Sequences, FiniteSets, FiniteSetsExt

CONSTANTS
  Signals,   \* signal bars the data may hold: records of Levels, see RegimeReady
  Quotes,    \* one-minute quotes: records o, h, l, c
  Settings,  \* parameter sets of a run: records, see the fields used below
  MaxBars,   \* bound: signal bars walked (the last one only closes the window)
  MaxQuotes  \* bound: quotes in the window of one bar

ASSUME BoundAssumption == MaxBars \in Nat /\ MaxQuotes \in Nat \ {0}

\* The data are whole ticks; half is half the ATR of the bar.
ASSUME DataAssumption ==
  /\ Signals \subseteq [high2 : Int, high1 : Int, low1 : Int, low2 : Int, close : Int, ma : Int,
                        band : Int, half : Int, body : [long : Int, short : Int]]
  /\ Quotes \subseteq [o : Int, h : Int, l : Int, c : Int]

\* A schedule of re-entry sizes is not empty (_normalize_reentry_sizes raises)
\* and every one the script uses is positive; an unknown stop mode raises.
ASSUME SettingsAssumption ==
  \A p \in Settings :
    /\ p \in [timeframe : STRING, anchor : STRING, reentry : [long : Int, short : Int],
              trigger : STRING, confirm : BOOLEAN, zeroInitial : BOOLEAN, zeroMode : STRING,
              stopMode : {"structural", "atr", "hybrid_tighter", "hybrid_wider"},
              stop : Int, slip : Int, schedule : Seq(Nat \ {0}), maxTrades : Nat,
              trail : Int, activation : Int, tiered : BOOLEAN, protect : Int,
              limit : BOOLEAN, cooldown : Nat]
    /\ p.schedule # <<>>

VARIABLES
  set,    \* the parameter set of this run
  bar,    \* index i of the signal bar
  phase,  \* "bar": before bar i; "scan": inside its window; "done"
  sig,    \* row i of the signal frame
  idx,    \* quotes of the window already walked
  prev,   \* the quote before the current one in this window, or NoQuote
  edge,   \* the last quote of the window before, when it lies on the boundary
  st      \* what the loop carries over bars, see StartState

vars == <<set, bar, phase, sig, idx, prev, edge, st>>

Sides == {"long", "short"}
NoQuote == [o |-> -1, h |-> -1, l |-> -1, c |-> -1]
NoPosition == [side |-> "none", entry |-> 0, sl |-> 0, protected |-> FALSE,
               size |-> 0, mark |-> 0, reason |-> "none"]

REENTRY_TIMEOUT == 1

------------------------------------------------------------------------------
(* Helpers of the strategy                                                  *)

Dir(side) == IF side = "long" THEN 1 ELSE -1

\* a is at or beyond b in the direction of the side.
Beyond(side, a, b) == Dir(side) * a >= Dir(side) * b

Better(side, a, b) == IF Beyond(side, a, b) THEN a ELSE b

Dist(halves, s) == halves * s.half

\* The bar's level that a breakout of the side must reach, and the nearer one.
BreakLevel(side, s) == IF side = "long" THEN s.high2 ELSE s.low2
NearLevel(side, s) == IF side = "long" THEN s.high1 ELSE s.low1

\* The level behind the side: where a protected position is closed.
BackLevel(side, s) == IF side = "long" THEN s.low1 ELSE s.high1

resolve_reentry_price(side, s, p) ==
  LET anchor == IF p.anchor = "body" THEN s.body[side] ELSE BackLevel(side, s)
  IN anchor + Dir(side) * Dist(p.reentry[side], s)

\* The quote's extreme towards the side, and the one against it.
Best(side, q) == IF side = "long" THEN q.h ELSE q.l
Worst(side, q) == IF side = "long" THEN q.l ELSE q.h

reentry_triggered(side, q, before, re, p) ==
  CASE p.trigger = "pullback" -> [hit |-> Beyond(side, re, Worst(side, q)), price |-> re]
    [] p.trigger = "reclaim" /\ p.confirm ->
         [hit |-> /\ before # NoQuote
                  /\ Dir(side) * q.c > Dir(side) * re
                  /\ Dir(side) * before.c > Dir(side) * re,
          price |-> q.c]
    [] OTHER -> [hit |-> Beyond(side, Best(side, q), re), price |-> re]

resolve_regime_ready(s, p) ==
  IF p.timeframe = "1d"
    THEN IF s.ma <= 0 \/ s.half <= 0 THEN {}
         ELSE {side \in Sides :
                 \/ Dir(side) * s.close > Dir(side) * s.ma
                 \/ /\ Dir(side) * s.close >= Dir(side) * s.ma - s.band
                    /\ Dir(side) * BreakLevel(side, s) > Dir(side) * NearLevel(side, s)
                    /\ IF side = "long" THEN s.low1 >= s.low2 ELSE s.high1 <= s.high2}
    ELSE {side \in Sides : Dir(side) * s.close > Dir(side) * s.ma}

get_reentry_size(trades, schedule) ==
  IF trades <= 0 THEN 0 ELSE schedule[Min({trades, Len(schedule)})]

\* Fault: window mode sizes its re-entries like position mode.
PositionModeSize(trades, schedule) == get_reentry_size(trades, schedule)

\* Fault: the order to come is not counted, so the second repeats the first size.
SizeOfTheLastOrder(trades, schedule) == schedule[Max({1, Min({trades, Len(schedule)})})]

get_reentry_window_real_order_size(trades, schedule) ==
  schedule[Min({trades + 1, Len(schedule)})]

resolve_stop_price(side, entry, s, p) ==
  LET structural == BackLevel(side, s)
      atr == entry - Dir(side) * Dist(p.stop, s)
  IN CASE p.stopMode = "structural" -> structural
       [] p.stopMode = "atr" -> atr
       [] p.stopMode = "hybrid_tighter" -> Better(side, structural, atr)
       [] p.stopMode = "hybrid_wider" ->
            IF Beyond(side, structural, atr) THEN atr ELSE structural

------------------------------------------------------------------------------
(* What the loop carries from quote to quote and from bar to bar            *)

StartState ==
  [pos |-> NoPosition, trades |-> 0,
   exitSide |-> "none", exitBar |-> -999, exitReason |-> "none",
   pendSide |-> "none", pendBar |-> -999, breaker |-> -999,
   unpaired |-> 0]   \* entry rows of the trade log minus its EXIT rows

OpenPosition(side, entry, size, reason, s, p, w) ==
  [w EXCEPT !.pos = [side |-> side, entry |-> entry,
                     sl |-> resolve_stop_price(side, entry, s, p),
                     protected |-> reason = "PT", size |-> size,
                     mark |-> entry, reason |-> reason],
            !.trades = @ + 1, !.unpaired = @ + 1]

WindowMode(p) == p.zeroInitial /\ p.zeroMode = "reentry_window"

\* The breakout of an untouched bar: a position, or in window mode only a
\* pending side.
InitialEntry(side, q, s, p, w) ==
  IF /\ w.trades = 0
     /\ Dir(side) * BreakLevel(side, s) > Dir(side) * NearLevel(side, s)
     /\ Beyond(side, Best(side, q), BreakLevel(side, s))
  THEN IF WindowMode(p)
         THEN [w EXCEPT !.pendSide = side, !.pendBar = bar]
         ELSE OpenPosition(side, Better(side, q.o, BreakLevel(side, s)) + Dir(side) * p.slip,
                           IF p.zeroInitial THEN 0 ELSE 10, "Initial", s, p, w)
  ELSE w

\* Fault: the trade limit of the bar is not looked at.
ReEntryUnlimited(side, q, s, p, w) ==
  LET exitWindow == w.exitSide = side /\ bar - w.exitBar <= REENTRY_TIMEOUT
      t == reentry_triggered(side, q, prev, resolve_reentry_price(side, s, p), p)
  IN IF exitWindow /\ t.hit
       THEN [OpenPosition(side, t.price, 10, "SL", s, p, w) EXCEPT !.exitSide = "none"]
       ELSE w


\* A re-entry inside the window an exit or a pending breakout left open.  A
\* trigger uses the window up even when the bar's trade limit refuses the trade.
ReEntry(side, q, s, p, w) ==
  LET exitWindow == w.exitSide = side /\ bar - w.exitBar <= REENTRY_TIMEOUT
      zeroWindow == w.pendSide = side /\ bar - w.pendBar <= REENTRY_TIMEOUT
      t == reentry_triggered(side, q, prev, resolve_reentry_price(side, s, p), p)
      reason == IF ~exitWindow THEN "Zero"
                ELSE IF w.exitReason = "SL" THEN "SL" ELSE "PT"
      size == IF ~exitWindow THEN p.schedule[1]
              ELSE IF WindowMode(p)
                THEN get_reentry_window_real_order_size(w.trades, p.schedule)
                ELSE get_reentry_size(w.trades, p.schedule)
      taken == IF w.trades < p.maxTrades
                 THEN OpenPosition(side, t.price + Dir(side) * p.slip, size, reason, s, p, w)
                 ELSE w
  IN IF (exitWindow \/ zeroWindow) /\ t.hit
       THEN [taken EXCEPT !.exitSide = IF exitWindow THEN "none" ELSE @,
                          !.pendSide = IF zeroWindow THEN "none" ELSE @]
       ELSE w

\* One quote seen flat by the branch of one side: the breakout, and then the
\* re-entry check whatever the breakout did.
FlatSide(side, q, s, p, w) == ReEntry(side, q, s, p, InitialEntry(side, q, s, p, w))

\* A gain of so many half ATRs; a bar without an ATR counts as no gain.
Gains(gain, halves, s) == IF s.half > 0 THEN gain >= Dist(halves, s) ELSE halves <= 0

\* Fault: the stop follows the watermark without a maximum.
TrailedLoosely(x, s, p) ==
  IF p.trail >= 0 /\ (p.activation < 0 \/ Gains(Dir(x.side) * (x.mark - x.entry), p.activation, s))
    THEN [x EXCEPT !.sl = x.mark - Dir(x.side) * Dist(p.trail, s)]
    ELSE x


\* The trailing stop from the watermark of the position: it only tightens.
Trailed(x, s, p) ==
  IF p.trail >= 0 /\ (p.activation < 0 \/ Gains(Dir(x.side) * (x.mark - x.entry), p.activation, s))
    THEN [x EXCEPT !.sl = Better(x.side, x.sl, x.mark - Dir(x.side) * Dist(p.trail, s))]
    ELSE x

\* The exit the quote triggers on position x, stop first; "none" if it holds.
ExitReason(x, q, s, p) ==
  LET touch(level) == Beyond(x.side, level, Worst(x.side, q))
      profit == Dir(x.side) * (x.mark - x.entry)
      back == BackLevel(x.side, s)
      t3 == Better(x.side, back, x.mark - Dir(x.side) * Dist(3, s))
      t2 == Better(x.side, back, x.entry + Dir(x.side) * Dist(1, s))
  IN CASE touch(x.sl) -> "SL"
       [] ~touch(x.sl) /\ p.tiered /\ x.protected /\ Gains(profit, 6, s) ->
            IF touch(t3) THEN "PT-T3" ELSE "none"
       [] ~touch(x.sl) /\ p.tiered /\ x.protected /\ Gains(profit, 4, s) /\ ~Gains(profit, 6, s) ->
            IF touch(t2) THEN "PT-T2" ELSE "none"
       [] OTHER -> IF x.protected /\ touch(back) THEN "PT" ELSE "none"

\* A position the quote leaves open: watermark, protection, trailing stop.
Managed(x, q, s, p) ==
  LET mark == Better(x.side, x.mark, Best(x.side, q))
      gain(price) == Dir(x.side) * (price - x.entry)
      held == [x EXCEPT !.mark = mark,
                        !.protected = @ \/ IF p.tiered THEN Gains(gain(mark), p.protect, s)
                                           ELSE gain(Best(x.side, q)) >= Dist(p.protect, s)]
  IN Trailed(held, s, p)

\* Close the position: one EXIT row, and a re-entry window for its side.
Closed(reason, breach, p, w) ==
  [w EXCEPT !.pos = NoPosition, !.unpaired = @ - 1,
            !.exitSide = w.pos.side, !.exitBar = bar, !.exitReason = reason,
            !.breaker = IF p.limit /\ breach THEN bar + p.cooldown ELSE @]

\* Fault: watermark and protection are updated before the exit checks.
HoldStepOnKnownPath(q, s, p, w, breach) ==
  LET x == Managed(w.pos, q, s, p)
      reason == ExitReason(x, q, s, p)
  IN IF reason = "none" THEN [w EXCEPT !.pos = x] ELSE Closed(reason, breach, p, w)


\* One quote seen in a position.
HoldStep(q, s, p, w, breach) ==
  LET x == Trailed(w.pos, s, p)
      reason == ExitReason(x, q, s, p)
  IN IF reason = "none" THEN [w EXCEPT !.pos = Managed(x, q, s, p)]
                        ELSE Closed(reason, breach, p, w)

------------------------------------------------------------------------------
(* The walk                                                                 *)

Init ==
  /\ set \in Settings
  /\ bar = 0 /\ phase = "bar" /\ idx = 0
  /\ sig \in Signals
  /\ prev = NoQuote /\ edge = NoQuote
  /\ st = StartState

\* A bar without quotes, or whose ATR is not yet defined, is passed over
\* before the windows are looked at.
BarSkip ==
  /\ phase = "bar" /\ bar < MaxBars
  /\ bar' = bar + 1 /\ edge' = NoQuote
  /\ UNCHANGED <<set, phase, sig, idx, prev, st>>

BarOpen(s) ==
  /\ phase = "bar" /\ bar < MaxBars
  /\ phase' = "scan" /\ sig' = s /\ idx' = 0 /\ prev' = NoQuote
  /\ st' = [st EXCEPT !.trades = 0,
                      !.exitSide = IF bar - st.exitBar > REENTRY_TIMEOUT THEN "none" ELSE @,
                      !.pendSide = IF bar - st.pendBar > REENTRY_TIMEOUT THEN "none" ELSE @]
  /\ UNCHANGED <<set, bar, edge>>

\* The quote under the cursor: both ends of a window are inclusive, so the
\* boundary quote is walked once more as the first of the next window.
Scans(q) ==
  /\ phase = "scan" /\ idx < MaxQuotes
  /\ q \in Quotes /\ (idx = 0 /\ edge # NoQuote => q = edge)

Advance(q) == idx' = idx + 1 /\ prev' = q /\ UNCHANGED <<set, bar, phase, sig, edge>>

Flat == st.pos = NoPosition

Paused == set.limit /\ bar < st.breaker

\* Fault: the pause returns to the loop head without moving the cursor.
PausedInPlace(q) == Scans(q) /\ Flat /\ Paused /\ UNCHANGED vars


PausedQuote(q) ==
  /\ Scans(q) /\ Flat /\ Paused
  /\ Advance(q) /\ UNCHANGED st

FlatLong(q) ==
  /\ Scans(q) /\ Flat /\ ~Paused
  /\ "long" \in resolve_regime_ready(sig, set)
  /\ Advance(q) /\ st' = FlatSide("long", q, sig, set, st)

FlatShort(q) ==
  /\ Scans(q) /\ Flat /\ ~Paused
  /\ resolve_regime_ready(sig, set) = {"short"}
  /\ Advance(q) /\ st' = FlatSide("short", q, sig, set, st)

FlatIdle(q) ==
  /\ Scans(q) /\ Flat /\ ~Paused
  /\ resolve_regime_ready(sig, set) = {}
  /\ Advance(q) /\ UNCHANGED st

HoldLong(q) ==
  /\ Scans(q) /\ st.pos.side = "long"
  /\ Advance(q) /\ \E breach \in BOOLEAN : st' = HoldStep(q, sig, set, st, breach)

HoldShort(q) ==
  /\ Scans(q) /\ st.pos.side = "short"
  /\ Advance(q) /\ \E breach \in BOOLEAN : st' = HoldStep(q, sig, set, st, breach)

\* The window is exhausted; its last quote may lie on the next bar's start.
BarEnd ==
  /\ phase = "scan" /\ idx > 0
  /\ phase' = "bar" /\ bar' = bar + 1
  /\ edge' \in {NoQuote, prev}
  /\ UNCHANGED <<set, sig, idx, prev, st>>

\* After the last window a position still open is marked to market.
Finish ==
  /\ phase = "bar" /\ bar = MaxBars
  /\ phase' = "done"
  /\ st' = IF Flat THEN st ELSE [st EXCEPT !.pos = NoPosition, !.unpaired = @ - 1]
  /\ UNCHANGED <<set, bar, sig, idx, prev, edge>>

Done == phase = "done" /\ UNCHANGED vars

Next ==
  \/ BarSkip
  \/ \E s \in Signals : BarOpen(s)
  \/ \E q \in Quotes : PausedQuote(q) \/ FlatLong(q) \/ FlatShort(q) \/ FlatIdle(q)
                        \/ HoldLong(q) \/ HoldShort(q)
  \/ BarEnd
  \/ Finish
  \/ Done

Spec == Init /\ [][Next]_vars

\* One process walks the data to its end: some step is always taken.
LiveSpec == Spec /\ WF_vars(Next)

------------------------------------------------------------------------------
(* Properties                                                               *)

\* A position of either side, and what the loop carries.
Positions == [side : Sides, entry : Int, sl : Int, protected : BOOLEAN, size : Nat, mark : Int,
              reason : {"Initial", "Zero", "SL", "PT"}]

States ==
  [pos : Positions \cup {NoPosition}, trades : Nat,
   exitSide : Sides \cup {"none"}, exitBar : Int,
   exitReason : {"none", "SL", "PT", "PT-T2", "PT-T3"},
   pendSide : Sides \cup {"none"}, pendBar : Int, breaker : Int, unpaired : Int]

TypeOK ==
  /\ set \in Settings /\ bar \in 0..MaxBars /\ idx \in 0..MaxQuotes
  /\ phase \in {"bar", "scan", "done"} /\ (phase = "scan" => bar < MaxBars)
  /\ sig \in Signals /\ {prev, edge} \subseteq Quotes \cup {NoQuote}
  /\ st \in States /\ st.trades <= Max({1, set.maxTrades})

\* The stop of a position never moves away from the market, whatever the ATR
\* of the bars it lives through: run_backtest_enhanced trails from the
\* watermark before the stop check and again after it.
StopTightens ==
  ~Flat /\ st'.pos # NoPosition => Beyond(st.pos.side, st'.pos.sl, st.pos.sl)

\* Whether a quote closes the position does not depend on the quote's own
\* favourable extreme: watermark and protection are updated after the exit
\* checks, so a bar's high is never known before its low ("避免把同 bar 的
\* high/low 当作已知路径").
NoPathInsideAQuote ==
  phase = "scan" /\ ~Flat =>
    \A a, b \in Quotes :
       Worst(st.pos.side, a) = Worst(st.pos.side, b) =>
         (HoldStep(a, sig, set, st, FALSE).pos = NoPosition)
           = (HoldStep(b, sig, set, st, FALSE).pos = NoPosition)

\* In window mode a breakout creates no position: every position is a real
\* order, and the trade log is a sequence of entry and exit pairs.
WindowModeTradesAreReal ==
  WindowMode(set) => /\ ~Flat => st.pos.size > 0
                     /\ st.unpaired = IF Flat THEN 0 ELSE 1

\* In window mode the n-th real order of a signal bar has the n-th size of the
\* schedule and the later ones its last size ("同一根 signal bar 内，第 1 次真实
\* 下单为 20%，第 2 次真实下单为 10%"), whether it uses the window of an exit, the
\* one a breakout left pending, or both, of this bar or of the one before.
SizesFollowTheBar ==
  WindowMode(set) /\ Flat /\ st'.pos # NoPosition =>
    st'.pos.size = set.schedule[Min({st'.trades, Len(set.schedule)})]

\* The trade log is a sequence of complete entry and exit pairs, as every
\* reader of it assumes ("提取完整的交易对 (Entry -> Exit)").
LogIsPaired == st.unpaired = IF Flat THEN 0 ELSE 1

==============================================================================
