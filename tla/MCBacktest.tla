------------------------------ MODULE MCBacktest ------------------------------
(***************************************************************************)
(* Small instances of research/backTest.py: one run walks one of its three *)
(* engines, builds one tick stream or reads one trade log, as "study" says.*)
(***************************************************************************)
EXTENDS BacktestTick, BacktestMinute

CONSTANT MaxRows   \* bound: rows of a trade log
ASSUME RowsAssumption == MaxRows \in Nat

VARIABLES study, log, read, memo, file, range, build

off == "off"
engineVars == tickVars
logVars == <<log, read, memo>>
fileVars == <<file, range, build>>
allVars == <<study, engineVars, logVars, fileVars>>

MinuteLength == 2
Files == {f \in UNION {[1..n -> [ts : 0..3, price : 1..3]] : n \in 0..3} :
            \A i \in 1..(Len(f) - 1) : f[i].ts <= f[i + 1].ts}
Ranges == {[start |-> 0, end |-> 3], [start |-> 1, end |-> 2]}

Readers == INSTANCE TradeLog
Stream == INSTANCE TickEvents

Level(h2, h1, l1, l2, close, ma, half) ==
  [high2 |-> h2, high1 |-> h1, low1 |-> l1, low2 |-> l2, close |-> close, ma |-> ma,
   band |-> 0, half |-> half, body |-> [long |-> l1 + 1, short |-> h1 - 1]]

\* A bar ready for longs, one for shorts, one of a wider ATR, one of no side.
MCSignals == {Level(5, 4, 2, 2, 4, 3, 1), Level(5, 4, 3, 1, 2, 3, 1), Level(6, 5, 4, 3, 5, 3, 2),
              Level(4, 5, 2, 3, 3, 3, 1)}

Quote(o, h, l, c) == [o |-> o, h |-> h, l |-> l, c |-> c]

\* Quotes with a range for the one-minute engines, single prices for the ticks.
MCQuotes == {Quote(4, 6, 3, 5), Quote(6, 12, 6, 11), Quote(5, 5, 1, 2)}
            \cup {Quote(p, p, p, p) : p \in {0, 6}}

Base == [timeframe |-> "4h", anchor |-> "wick", reentry |-> [long |-> 1, short |-> 0],
         trigger |-> "reclaim", confirm |-> FALSE, zeroInitial |-> FALSE,
         zeroMode |-> "position", stopMode |-> "atr", stop |-> 1, slip |-> 0,
         schedule |-> <<10, 5>>, maxTrades |-> 2, trail |-> 1, activation |-> 1,
         tiered |-> FALSE, protect |-> 2, limit |-> FALSE, cooldown |-> 1]

MCSettings ==
  {Base,
   [Base EXCEPT !.zeroInitial = TRUE, !.zeroMode = "reentry_window", !.stopMode = "hybrid_wider",
                !.slip = 1, !.limit = TRUE, !.cooldown = 2, !.anchor = "body"],
   [Base EXCEPT !.tiered = TRUE, !.stopMode = "structural", !.trail = -1, !.timeframe = "1d"],
   [Base EXCEPT !.zeroInitial = TRUE, !.zeroMode = "reentry_window", !.confirm = TRUE,
                !.stopMode = "hybrid_tighter", !.activation = -1, !.trail = 2]}

EnginesOff ==
  /\ set = off /\ bar = off /\ phase = off /\ sig = off /\ idx = off /\ prev = off
  /\ edge = off /\ st = off /\ skip = off

LogOff == log = off /\ read = off /\ memo = off
FileOff == file = off /\ range = off /\ build = off

AllInit ==
  \/ study \in {"enhanced", "tick", "minute"} /\ TickInit /\ LogOff /\ FileOff
  \/ study = "log" /\ Readers!Init /\ EnginesOff /\ FileOff
  \/ study = "stream" /\ Stream!Init /\ EnginesOff /\ LogOff

AllNext ==
  /\ \/ study = "enhanced" /\ Next /\ UNCHANGED <<skip, logVars, fileVars>>
     \/ study = "tick" /\ TickNext /\ UNCHANGED <<logVars, fileVars>>
     \/ study = "minute" /\ MinuteNext /\ UNCHANGED <<skip, logVars, fileVars>>
     \/ study = "log" /\ Readers!Next /\ UNCHANGED <<engineVars, fileVars>>
     \/ study = "stream" /\ Stream!Next /\ UNCHANGED <<engineVars, logVars>>
  /\ UNCHANGED study

Scanning == study \in {"enhanced", "tick", "minute"}

\* One process walks the data to its end: some step is always taken.
AllSpec == AllInit /\ [][AllNext]_allVars /\ WF_allVars(Scanning /\ AllNext)

\* TypeOK of the engines of backTest.py; the bar's trade limit is part of it.
EngineTypeOK == Scanning => TypeOK

\* NoPathInsideAQuote of run_backtest_enhanced.
EngineNoPathInsideAQuote == study = "enhanced" => NoPathInsideAQuote

\* WindowModeTradesAreReal of run_backtest_enhanced and run_tick_full_scan_dual.
EngineWindowModeTradesAreReal == study \in {"enhanced", "tick"} => WindowModeTradesAreReal

\* LoopIsPaired of run_backtest_1min_granularity.
MinuteLoopIsPaired == study = "minute" => LoopIsPaired

\* ReadersPairUp of the log readers.
LogReadersPairUp == study = "log" => Readers!ReadersPairUp

\* ChunksAreInvisible and EventsFollowTheTape of _build_tick_event_stream.
StreamIsTheTape == study = "stream" => Stream!ChunksAreInvisible /\ Stream!EventsFollowTheTape

\* StopTightens of the engines with a trailing stop.
EngineStopOnlyTightens == [][(study \in {"enhanced", "tick"}) => StopTightens]_allVars

\* SizesFollowTheBar of run_backtest_enhanced and run_tick_full_scan_dual.
EngineOrderSizesFollowTheBar ==
  [][(study \in {"enhanced", "tick"}) => SizesFollowTheBar]_allVars

\* Every replay comes to its end: no branch of a loop leaves the cursor where it
\* is, the pause of the circuit breaker included.
EngineReplayEnds == Scanning ~> phase = "done"

\* LogIsPaired of the two engines that look for a re-entry after a breakout.
EngineLogIsPaired == study \in {"enhanced", "tick"} => LogIsPaired

===============================================================================
