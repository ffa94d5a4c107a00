---------------------------- MODULE BacktestMinute ----------------------------
(***************************************************************************)
(* run_backtest_1min_granularity of research/backTest.py: the first engine *)
(* over one-minute quotes.  It has no trailing stop, no tiers and no       *)
(* circuit breaker; a re-entry is looked for only when the breakout branch *)
(* is not taken, a re-entry after a profit exit is neither limited nor     *)
(* counted, and protection is switched on before the exit checks.          *)
(***************************************************************************)
EXTENDS Backtest

\* The re-entry check of this engine.
MinuteReEntry(side, q, s, p, w) ==
  LET t == reentry_triggered(side, q, prev, resolve_reentry_price(side, s, p), p)
      reason == IF w.exitReason = "SL" THEN "SL" ELSE "PT"
      opened == OpenPosition(side, t.price + Dir(side) * p.slip,
                             get_reentry_size(w.trades, p.schedule), reason, s, p, w)
      taken == CASE reason = "PT" -> [opened EXCEPT !.trades = w.trades]
                 [] reason = "SL" /\ w.trades < p.maxTrades -> opened
                 [] OTHER -> w
  IN IF w.exitSide = side /\ bar - w.exitBar <= REENTRY_TIMEOUT /\ t.hit
       THEN [taken EXCEPT !.exitSide = "none"]
       ELSE w

\* Fault: the re-entry is looked for after a breakout too.
MinuteFlatBoth(side, q, s, p, w) ==
  MinuteReEntry(side, q, s, p, InitialEntry(side, q, s, [p EXCEPT !.zeroMode = "position"], w))

\* One quote seen flat: an untouched bar in breakout shape only waits for its
\* breakout, any other only for a re-entry.
MinuteFlat(side, q, s, p, w) ==
  IF w.trades = 0 /\ Dir(side) * BreakLevel(side, s) > Dir(side) * NearLevel(side, s)
    THEN InitialEntry(side, q, s, [p EXCEPT !.zeroMode = "position"], w)
    ELSE MinuteReEntry(side, q, s, p, w)

\* One quote seen in a position: protection first, then stop, then level.
MinuteHold(q, s, p, w) ==
  LET x == [w.pos EXCEPT !.protected =
              @ \/ Dir(w.pos.side) * (Best(w.pos.side, q) - w.pos.entry) >= Dist(p.protect, s)]
      touch(level) == Beyond(x.side, level, Worst(x.side, q))
      close(reason) == Closed(reason, FALSE, p, w)
  IN CASE touch(x.sl) -> close("SL")
       [] ~touch(x.sl) /\ x.protected /\ touch(BackLevel(x.side, s)) -> close("PT")
       [] OTHER -> [w EXCEPT !.pos = x]

MinuteFlatLong(q) ==
  /\ Scans(q) /\ Flat
  /\ "long" \in resolve_regime_ready(sig, set)
  /\ Advance(q) /\ st' = MinuteFlat("long", q, sig, set, st)

MinuteFlatShort(q) ==
  /\ Scans(q) /\ Flat
  /\ resolve_regime_ready(sig, set) = {"short"}
  /\ Advance(q) /\ st' = MinuteFlat("short", q, sig, set, st)

MinuteFlatIdle(q) ==
  /\ Scans(q) /\ Flat
  /\ resolve_regime_ready(sig, set) = {}
  /\ Advance(q) /\ UNCHANGED st

MinuteHolds(q) ==
  /\ Scans(q) /\ ~Flat
  /\ Advance(q) /\ st' = MinuteHold(q, sig, set, st)

\* The mark to market after the last bar.  The block stands twice and the
\* first copy leaves the position set: an open position is booked twice.
MinuteFinish ==
  /\ phase = "bar" /\ bar = MaxBars
  /\ phase' = "done"
  /\ st' = IF Flat THEN st ELSE [st EXCEPT !.unpaired = @ - 2]
  /\ UNCHANGED <<set, bar, sig, idx, prev, edge>>

MinuteNext ==
  \/ BarSkip
  \/ \E s \in Signals : BarOpen(s)
  \/ \E q \in Quotes : MinuteFlatLong(q) \/ MinuteFlatShort(q) \/ MinuteFlatIdle(q) \/ MinuteHolds(q)
  \/ BarEnd
  \/ MinuteFinish
  \/ Done

MinuteSpec == Init /\ [][MinuteNext]_vars

\* Until the last bar the log of this engine is a sequence of entry and exit
\* pairs: one quote never both breaks out and re-enters.
LoopIsPaired == phase # "done" => LogIsPaired

==============================================================================
