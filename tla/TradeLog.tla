------------------------------- MODULE TradeLog -------------------------------
(***************************************************************************)
(* The readers of a trade log in research/backTest.py: they walk the rows  *)
(* once, remember the last entry and pair it with the next EXIT.  Two of   *)
(* them take every entry, the performance statistics skip the entries of   *)
(* zero notional, and the scenario matrices count EXIT rows.               *)
(***************************************************************************)
EXTENDS Integers, Sequences, FiniteSets

CONSTANT MaxRows   \* bound: rows of a log

Rows == [type : {"BUY", "SHORT", "EXIT"}, notional : {0, 1}] \cup
        {[type |-> "CIRCUIT_BREAKER", notional |-> 0]}

IsEntry(row) == row.type \in {"BUY", "SHORT"}

VARIABLES
  log,   \* the rows, in the order they were written
  read,  \* rows read
  memo   \* what the readers remember, see Unread

vars == <<log, read, memo>>

Unread ==
  [temp_pos |-> 0,   \* the entry analyze_long_short_performance holds, 0 for none
   trades |-> <<>>,  \* its pairs of entry row and exit row
   temp |-> 0,       \* the same for _compute_backtest_stats
   stats |-> <<>>,
   pairs |-> 0]      \* "Trade Pairs" of a scenario matrix

Init ==
  /\ log \in UNION {[1..n -> Rows] : n \in 0..MaxRows}
  /\ read = 0 /\ memo = Unread

\* Fault: the remembered entry survives its exit.
ReaderKeepsEntry(row, n, mem, out) ==
  IF IsEntry(row) THEN [mem |-> n, out |-> out]
  ELSE IF row.type = "EXIT" /\ mem # 0 THEN [mem |-> mem, out |-> Append(out, <<mem, n>>)]
  ELSE [mem |-> mem, out |-> out]

\* One row of analyze_long_short_performance.
analyze_long_short_performance(row, n, mem, out) ==
  IF IsEntry(row) THEN [mem |-> n, out |-> out]
  ELSE IF row.type = "EXIT" /\ mem # 0 THEN [mem |-> 0, out |-> Append(out, <<mem, n>>)]
  ELSE [mem |-> mem, out |-> out]

\* Fault: an entry of zero notional counts.
StatsOfEveryEntry(row, n, mem, out) == analyze_long_short_performance(row, n, mem, out)

\* One row of _compute_backtest_stats: an entry of zero notional is passed over.
compute_backtest_stats(row, n, mem, out) ==
  IF IsEntry(row) /\ row.notional <= 0 THEN [mem |-> mem, out |-> out]
  ELSE analyze_long_short_performance(row, n, mem, out)

\* The scenario matrices count EXIT rows.
TradePairs(row, n) == n + (IF row.type = "EXIT" THEN 1 ELSE 0)

Read ==
  /\ read < Len(log)
  /\ LET row == log[read + 1]
         a == analyze_long_short_performance(row, read + 1, memo.temp_pos, memo.trades)
         b == compute_backtest_stats(row, read + 1, memo.temp, memo.stats)
     IN memo' = [temp_pos |-> a.mem, trades |-> a.out, temp |-> b.mem, stats |-> b.out,
                 pairs |-> TradePairs(row, memo.pairs)]
  /\ read' = read + 1 /\ UNCHANGED log

Done == read = Len(log) /\ UNCHANGED vars

Next == Read \/ Done

Spec == Init /\ [][Next]_vars

\* The pairs a log holds for the entries in E: an exit closes the last such
\* entry before it, unless an earlier exit already did.
PairsOf(E) ==
  {ij \in E \X (1..Len(log)) :
     /\ ij[1] < ij[2] /\ log[ij[2]].type = "EXIT"
     /\ \A m \in (ij[1] + 1)..(ij[2] - 1) : log[m].type # "EXIT" /\ m \notin E}

Entries == {i \in 1..Len(log) : IsEntry(log[i])}

RangeOf(s) == {s[i] : i \in 1..Len(s)}

\* Whatever the log, each reader reports exactly the pairs of its entries, once
\* each: an exit is never used twice and an entry that was overwritten never
\* shows up with a later exit.  On a log of complete pairs the count of the
\* scenario matrices tells the same trades.
ReadersPairUp ==
  read = Len(log) =>
    /\ RangeOf(memo.trades) = PairsOf(Entries)
    /\ Len(memo.trades) = Cardinality(PairsOf(Entries))
    /\ RangeOf(memo.stats) = PairsOf({i \in Entries : log[i].notional > 0})
    /\ (\A i \in 1..read : IF i % 2 = 1 THEN IsEntry(log[i]) ELSE log[i].type = "EXIT")
         => memo.pairs = Len(memo.trades)
==============================================================================
