-------------------------- MODULE TimingExecution --------------------------
(***************************************************************************)
(* What the timing studies share: the events and bars they load            *)
(* (dynamic_timing/data_layer.py) and the walk of a position over the bars *)
(* after its entry (dynamic_timing/execution_sim.py).                      *)
(*                                                                         *)
(* A price unit is one basis point of the level, so the ratios of the code *)
(* (slippage, fees, bps) are differences here; thresholds in ATR are in    *)
(* hundredths.  A signed price is the price times the direction of the     *)
(* side: the two branches of the code are one formula.                     *)
(***************************************************************************)
EXTENDS Integers, Sequences, FiniteSets, SequencesExt, FiniteSetsExt

CONSTANTS MaxHold,       \* how long a position may be held
          TrailStart,    \* tenths of its risk a position gains before its stop trails
          MatchWindow    \* how far an event may lie from a ledger entry

None == << >>
Dir(side) == IF side = "long" THEN 1 ELSE -1
Favourable(bar, side) == IF side = "long" THEN bar.h ELSE -bar.l
Adverse(bar, side) == IF side = "long" THEN bar.l ELSE -bar.h

\* SelectSeq as a recursion that can be reasoned about.
Where(seq, Test(_)) ==
  LET n == Len(seq)
      kept[i \in 0..n] ==
        IF i = 0 THEN << >> ELSE IF Test(seq[i]) THEN Append(kept[i - 1], seq[i]) ELSE kept[i - 1]
  IN kept[n]

Between(bars, lo, hi) == Where(bars, LAMBDA b : lo <= b.t /\ b.t <= hi)
From(bars, time) == Where(bars, LAMBDA b : b.t >= time)
SumOf(seq, V(_)) == FoldLeft(LAMBDA acc, x : acc + V(x), 0, seq)

Span(a, b) == IF a >= b THEN a - b ELSE b - a

Key(e) == <<e.symbol, e.touch \div 100>>
Bars(cache, e) == IF Key(e) \in DOMAIN cache THEN cache[Key(e)] ELSE << >>

FirstFrom(bars, time) == IF From(bars, time) = << >> THEN None ELSE <<Head(From(bars, time))>>

---------------------------------------------------------------------------
(* execution_sim.py                                                        *)

DEFAULT_EXEC_PARAMS ==
  [initial_stop_atr |-> 45, stop_buffer_atr |-> 5, stop_cap_atr |-> 80, min_stop_bps |-> 12,
   breakeven_at_r |-> 8, cost_lock_bps |-> 10, trail_start_r |-> TrailStart, trail_buffer_atr |-> 5,
   slippage |-> 2, fees |-> 6, notional_share |-> 26]

Exec == DEFAULT_EXEC_PARAMS

Atr(hundredths, e) == (hundredths * e.atr) \div 100

\* A position in signed prices, or None when its risk is too small.
open_position(e, at, price) ==
  LET entry == Dir(e.side) * price + Exec.slippage
      edge == IF e.side = "long" THEN e.low ELSE -e.high
      raw == Min({edge - Atr(Exec.stop_buffer_atr, e), entry - Atr(Exec.initial_stop_atr, e)})
      stop == Max({raw, entry - Atr(Exec.stop_cap_atr, e)})
      risk == entry - stop
  IN IF risk <= 0 \/ risk < Exec.min_stop_bps THEN None
     ELSE [side |-> e.side, at |-> at, raw |-> Dir(e.side) * price, entry |-> entry, sl |-> stop,
           risk |-> risk, buffer |-> Atr(Exec.trail_buffer_atr, e), best |-> entry,
           protected |-> FALSE, trailing |-> FALSE]

make_exit(pos, raw, time, reason) ==
  [entry_time |-> pos.at, exit_time |-> time, reason |-> reason, risk |-> pos.risk,
   pnl |-> raw - Exec.slippage - pos.entry,
   realistic |-> raw - Exec.slippage - pos.entry - Exec.fees]

Protect_at_entry(pos) ==
  IF 10 * (pos.best - pos.entry) >= Exec.breakeven_at_r * pos.risk /\ pos.entry > pos.sl
  THEN [pos EXCEPT !.sl = pos.entry, !.protected = TRUE]
  ELSE pos

Protect(pos) ==
  LET lock == pos.entry + Exec.cost_lock_bps
  IN IF 10 * (pos.best - pos.entry) >= Exec.breakeven_at_r * pos.risk /\ lock > pos.sl
     THEN [pos EXCEPT !.sl = lock, !.protected = TRUE]
     ELSE pos

Trail(pos) ==
  IF 10 * (pos.best - pos.entry) >= Exec.trail_start_r * pos.risk /\ pos.best - pos.buffer > pos.sl
  THEN [pos EXCEPT !.sl = pos.best - pos.buffer, !.trailing = TRUE]
  ELSE pos

Moved(pos, bar) == Trail(Protect([pos EXCEPT !.best = Max({pos.best, Favourable(bar, pos.side)})]))

StopReason(pos) ==
  IF pos.trailing THEN "TrailingSL" ELSE IF pos.protected THEN "BreakevenSL" ELSE "InitialSL"

\* What is left of a position after a bar: the position, or its exit.
Stopped(pos, bar) ==
  [pos |-> pos,
   exit |-> IF Adverse(bar, pos.side) <= pos.sl
            THEN make_exit(pos, pos.sl, bar.t, StopReason(pos)) ELSE None]

WalkBar(acc, bar) == IF acc.exit # None THEN acc ELSE Stopped(Moved(acc.pos, bar), bar)

Close(done, window) ==
  IF done.exit # None THEN done.exit
  ELSE make_exit(done.pos, Dir(done.pos.side) * Last(window).c, Last(window).t, "MaxHoldExit")

Walk(pos, window) ==
  IF window = << >> THEN make_exit(pos, pos.raw, pos.at, "NoData")
  ELSE Close(FoldLeft(WalkBar, [pos |-> pos, exit |-> None], window), window)

simulate_position(pos, bars) ==
  IF pos = None THEN None ELSE Walk(pos, Between(bars, pos.at + 1, pos.at + MaxHold))

execute_trade(bars, e, at, price) == simulate_position(open_position(e, at, price), bars)

---------------------------------------------------------------------------
(* data_layer.py                                                           *)

\* The event nearest to a ledger entry, the first of the nearest.
Nearest(entry, events) ==
  LET near == {i \in 1..Len(events) : events[i].symbol = entry.symbol /\ events[i].side = entry.side
                                       /\ Span(events[i].touch, entry.time) <= MatchWindow}
      D(i) == Span(events[i].touch, entry.time)
  IN IF near = {} THEN 0 ELSE Min({i \in near : \A j \in near : D(i) <= D(j)})

match_events(entries, events) ==
  LET found == Where([i \in 1..Len(entries) |-> Nearest(entries[i], events)], LAMBDA i : i # 0)
      Keep(acc, i) == IF \E k \in 1..Len(acc) : acc[k].id = events[i].id
                      THEN acc ELSE Append(acc, events[i])
  IN FoldLeft(Keep, << >>, found)

load_v6_gate_events(ledger, events) ==
  match_events(Where(ledger, LAMBDA r : r.type # "EXIT" /\ r.reason = "Zero-Initial-Reentry"), events)

load_bars_cache(events, files) ==
  [k \in {Key(events[i]) : i \in 1..Len(events)} \cap DOMAIN files |-> files[k]]

\* sort_values leaves the order of events of one time open; here they keep
\* the order they had.
Insert(sorted, e) ==
  InsertAt(sorted, 1 + Cardinality({i \in 1..Len(sorted) : sorted[i].touch <= e.touch}), e)
ByTouch(events) == FoldLeft(Insert, << >>, events)

time_split_events(events) ==
  LET sorted == ByTouch(events)
      n == (6 * Len(events)) \div 10
  IN [train |-> SubSeq(sorted, 1, n), test |-> SubSeq(sorted, n + 1, Len(events))]
============================================================================
