----------------------------- MODULE MCUnified -----------------------------
(***************************************************************************)
(* A small instance of timing_probability_unified: two histories of four   *)
(* months, an hour of three bars, and what may be odd about the files.     *)
(***************************************************************************)
EXTENDS UnifiedStudy, TLC

MCPullbackGrid == << <<3, 1>>, <<5, 2>> >>
MCCandidates == <<"extension", "position", "percentile", "distance", "state">>

Bar(time, o, h, l, c) == [t |-> time, o |-> o, h |-> h, l |-> l, c |-> c]
Path(start, shapes) ==
  [i \in 1..Len(shapes) |-> LET q == shapes[i] IN Bar(start + i - 1, q[1], q[2], q[3], q[4])]

\* A bar that is quiet, one that stays lower, one that stands out, two that
\* touch what stood out, and what may come after a touch.
Q == <<1000, 1020, 980, 1000>>
LowerQ == <<1000, 1010, 980, 1005>>
OutQ == <<1000, 1030, 980, 1010>>
Hit == <<<<1000, 1035, 990, 1030>>, <<1000, 1042, 990, 1012>>>>
After == [win |-> << <<1030, 1100, 1025, 1090>>, <<1090, 1110, 1070, 1100>> >>,
          loss |-> << <<1030, 1031, 1012, 1029>>, <<1029, 1029, 960, 1020>> >>,
          dip |-> << <<1030, 1031, 995, 1000>>, <<1000, 1080, 999, 1075>> >>]
QuietHour == <<Q, Q, Q>>
OutHour == <<OutQ, Q, Q>>
SignalHour(hit, outcome) == <<Hit[hit]>> \o After[outcome]
Mirrored(bar) == <<2000 - bar[1], 2000 - bar[3], 2000 - bar[2], 2000 - bar[4]>>
Sided(bars, side) == IF side = "long" THEN bars ELSE [i \in 1..Len(bars) |-> Mirrored(bars[i])]

\* The hours around a touch, x = <<source, side, hit, outcome>>.
Block(x) ==
  Sided(OutHour \o (IF x[1] = "T3" THEN <<LowerQ, LowerQ, LowerQ>> ELSE << >>) \o QuietHour
        \o SignalHour(x[3], x[4]) \o QuietHour, x[2])
Blocks(from, xs) == Path(from, FlattenSeq([i \in 1..Len(xs) |-> Block(xs[i])]))

UnifiedFrame == [name |-> "T2", width |-> Hour, late |-> 2, hold |-> 3, start |-> 0]


\* What happened in the months from the first on.
History(a, b) ==
  << <<<<"T3", "long", 1, a>>, <<"T2", "long", 1, b>>, <<"T3", "long", 1, "loss">>, <<"T2", "short", 2, "loss">>,
       <<"T3", "short", 2, "win">>, <<"T2", "long", 2, "win">>>>,
     <<<<"T3", "long", 1, "win">>, <<"T2", "long", 1, "dip">>, <<"T3", "short", 1, b>>, <<"T2", "short", 1, "win">>,
       <<"T3", "long", 1, "dip">>, <<"T2", "long", 2, "win">>>>,
     <<<<"T2", "short", 1, b>>, <<"T3", "long", 2, a>>, <<"T2", "short", 1, "loss">>, <<"T3", "short", 1, b>>>>,
     <<<<"T3", "short", 1, "win">>, <<"T2", "short", 1, a>>>> >>
Histories == {History("win", "loss"), History("loss", "dip")}
Starts == <<3, 102, 201, 300>>
MonthBars(h) ==
  [k \in {<<"ETH", m>> : m \in 0..3} |-> Blocks(Starts[k[2] + 1], h[k[2] + 1])] @@ (<<"BTC", 1>> :> Blocks(102, h[2]))

AllBars(h) == FlattenSeq([m \in 1..4 |-> Blocks(Starts[m], h[m])])
TouchesIn(bars) == detect_pretouch_events("ETH", UnifiedFrame, bars, resample_to_timeframe(bars, Hour))

\* In the file the signal has its bounds, and an event mostly its costs.
Canonical(e, cost, hole) ==
  [e EXCEPT !.low = 970, !.high = 1060, !.cost = cost,
            !.features = [@ EXCEPT !.extension = IF hole THEN << >> ELSE @]]
Btc(e) == [e EXCEPT !.symbol = "BTC", !.id = <<"BTC", "T2", e.touch, e.side>>, !.touch = 160]

\* A file of canonical events; "kind" says what is odd about it.
EventFile(h, kind) ==
  LET raw == TouchesIn(AllBars(h))
      Cost(e) == IF kind = "free" \/ (kind = "holes" /\ e.touch % 4 = 0) THEN << >> ELSE <<(e.touch % 4) + 8>>
      Hole(e) == (kind = "holes" /\ e.touch >= ForwardStart) \/ e.touch % 5 = 0
      own == [i \in 1..Len(raw) |-> Canonical(raw[i], Cost(raw[i]), Hole(raw[i]))]
  IN CASE kind = "none" -> << >>
       [] kind = "short" -> SubSeq(own, 1, 2)
       [] kind = "clash" -> own \o <<Head(generate_t3_events("ETH", AllBars(h), T3Late))>>
       [] OTHER -> own \o <<Btc(Head(own))>>

TreePairs == {[d \in 3..4 |-> x[d - 2]] : x \in {<<"nearest", "majority">>, <<"majority", "nearest">>, <<"first", "nearest">>}}

\* The range of bars in one file instead of two, for the last month.
Wide(h) == (<<"ETH", 290, 400>> :> Blocks(300, h[4]))

UnifiedEnv(program, h, kind, trees, forest, months) ==
  [program |-> program, events |-> EventFile(h, kind), trees |-> trees, forest |-> forest, draws |-> <<1, 2, 3>>,
   files |-> IF kind = "wide" THEN [k \in DOMAIN MonthBars(h) \ {<<"ETH", 3>>} |-> MonthBars(h)[k]] ELSE MonthBars(h),
   ranges |-> IF kind = "wide" THEN Wide(h) ELSE << >>,
   rolling |-> Len(months) > 1, months |-> months,
   frames |-> <<[UnifiedFrame EXCEPT !.name = "short"], [UnifiedFrame EXCEPT !.name = "long", !.width = 6, !.late = 5],
                [UnifiedFrame EXCEPT !.name = "day", !.width = 60]>>]

MCEnvironments ==
  {UnifiedEnv("unified", x[1], x[2], x[3], x[4], <<200>>) :
     x \in Histories \X {"file", "free", "holes", "none", "short", "wide"} \X TreePairs \X {"share", "nearest"}}
  \cup {UnifiedEnv("union", x[1], x[2], x[3], x[4], x[5]) :
     x \in Histories \X {"file", "clash", "wide"} \X TreePairs \X {"share", "nearest"} \X {<<200>>, <<200, 300>>}}
  \cup {UnifiedEnv("frames", x[1], "file", x[2], x[3], <<200>>) : x \in Histories \X TreePairs \X {"share", "nearest"}}

UnifiedSpec == Init /\ [][Next]_s

(* What a filled feature of an event says was known before its touch: it   *)
(* is the same without the bars at and after the touch, whatever the hour  *)
(* of the touch became (feature_computer.py:10 and :91).                   *)
FilledFeaturesArePointInTime ==
  (s.at = "simulate") =>
    LET needs == NeedsFill(s.pool[1].events)
        Past(e) == [k \in DOMAIN s.pool[1].cache |-> SelectSeq(s.pool[1].cache[k], LAMBDA b : b.t < e.touch)]
    IN \A e \in Range(s.events) :
         LET again == compute_missing_features(<<e>>, precompute_hourly_bars(Past(e)))[1]
         IN \A f \in needs : e.features[f] = again[f]

Until(seq, c) == SelectSeq(seq, LAMBDA x : x.touch <= c)
Later(events, start) == split_events_by_time(events, start).forward
FrozenAt(pool, events, cache, start) ==
  \A c \in {t.touch : t \in Range(pool.trades)} :
    Used(Later(Until(events, c), start)) = Used(Later(events, start)) =>
      run_single_pool_pipeline(pool.name, Until(events, c), cache, s.env, start).trades = Until(pool.trades, c)
FrozenPool(pool, events, start) ==
  FrozenAt(pool, events, load_bars_cache_for_symbol(s.env.files, s.env.ranges, "ETH"), start)
T2Of(start) == EthOnly(build_event_pool(s.env.events, s.env.files, s.env.ranges, start).events)
T3Of(start) ==
  T3Filtered(s.env, start, generate_t3_events("ETH", load_all_1s_bars(s.env.files, s.env.ranges, "ETH"), T3Late)).events

(* What a forward event is given - its entry, its size, whether it passes  *)
(* the gate - stays the same when later forward events never come, as long *)
(* as they do not change which columns are used                            *)
(* (union_strategy_runner.py:452, :516, :531).                             *)
ForwardIsFrozen ==
  (s.at = "end" /\ s.env.program = "union" /\ ~s.env.rolling) =>
    /\ FrozenPool(s.windows[1].t2, T2Of(s.env.months[1]), s.env.months[1])
    /\ FrozenPool(s.windows[1].t3, T3Of(s.env.months[1]), s.env.months[1])

(* The windows of a rolling run share the forward trades among them: none  *)
(* is counted in two, the total is the number of active trades, and the    *)
(* months add up to the reported sum, although every window is learned and *)
(* summed apart (union_strategy_runner.py:304, :758, :862).                *)
WindowsPartition ==
  (s.at = "end" /\ s.env.program = "union") =>
    LET json == s.report[1].json
        Ids(k) == {t.id : t \in Range(s.windows[k].trades)}
    IN /\ \A j, k \in 1..Len(s.windows) : j # k => Ids(j) \cap Ids(k) = {}
       /\ json.trades = Len(Active(s.trades))
       /\ GateOn(s.trades) # << >> =>
            /\ json.sum = SumOf(json.monthly, LAMBDA r : r.union)
            /\ json.sum = SumOf(s.windows, LAMBDA u : u.t2.sum + u.t3.sum)

(* A fill that is worse for the side never earns more: from the close of   *)
(* the next bar over its extreme to the extreme with ten points of         *)
(* slippage the sum only falls, although every scenario chooses the best   *)
(* delay of the regime anew (adverse_fill.py:41, :114).                    *)
WorseFillsNeverPay ==
  (s.at = "check") =>
    \A k \in 3..Len(s.fills) : s.fills[k].on <= s.fills[k - 1].on /\ s.fills[k].off <= s.fills[k - 1].off

============================================================================
