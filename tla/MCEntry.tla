------------------------------ MODULE MCEntry ------------------------------
(* Small instances of the entry-redesign harness.                          *)
EXTENDS EntryPipeline

Below == [high |-> -1, low |-> -2, move |-> -1, taker |-> "sell", spread |-> 1]
At    == [high |-> 0, low |-> -1, move |-> 0, taker |-> "buy", spread |-> 3]
Cross == [high |-> 1, low |-> -1, move |-> 1, taker |-> "sell", spread |-> 2]
Above == [high |-> 2, low |-> 1, move |-> 1, taker |-> "buy", spread |-> 1]
Bars == {Below, At, Cross, Above}

Clean == [distance |-> 14, speed |-> 25, pullback |-> 1]
Strict == [distance |-> 11, speed |-> 40, pullback |-> 0]
Dull == [distance |-> 30, speed |-> 5, pullback |-> 9]

Event(side, bars, pre, raw, notional) ==
    [side |-> side, bars |-> bars, pre |-> pre, hours |-> 20, volume |-> 2, raw |-> raw,
     notional |-> notional]

MCEvents ==
    {Event("long", <<Above, At, Above>>, Strict, 30, 1),
     Event("long", <<Below, Cross, Above>>, Clean, 4, 1),
     [Event("short", <<At, Below, Cross>>, Dull, 25, 1) EXCEPT !.hours = 3],
     Event("short", <<Above, Above, Above>>, Strict, 9, 0),
     Event("long", <<At, At, Below>>, Strict, 12, 0)}

MCSpec(D, H, tc, ep, pre, post) ==
    [D |-> D, H |-> H, tc |-> tc, ep |-> ep, pre |-> pre, post |-> post]

MCCandidates ==
    LET none == <<"none", 0>> market == <<"market_on_touch", 0>>
        specs == {
            MCSpec(1, 1, <<"persistence", 2>>, market, "none", none),
            MCSpec(1, 0, <<"retest", 1>>, <<"limit_tb", 1>>, "none", none),
            MCSpec(0, 0, <<"minvol", 1>>, <<"limit_at_level", 0>>, "none", none),
            MCSpec(1, 1, none, <<"pullback", 1>>, "none", <<"cont1s", 1>>),
            MCSpec(1, 1, none, market, "fast_clean", <<"tickimb", 55>>),
            MCSpec(0, 0, none, market, "fast_clean_strict", <<"spread", 2>>),
            MCSpec(0, 1, none, market, "none", <<"cont1s", 1>>),
            MCSpec(7, 0, none, market, "none", none)}
    IN {<<BASELINE, x>> : x \in specs}

MCEnvironments ==
    LET good == [inputs |-> TRUE, snapshot |-> "same", expected |-> TRUE, covered |-> 1..9,
                 loader |-> TRUE, metrics |-> [over_dd |-> 80, markov |-> 8, sized |-> 6]]
    IN {good,
        [good EXCEPT !.metrics.over_dd = 120],
        [good EXCEPT !.loader = FALSE, !.snapshot = "missing", !.expected = FALSE],
        [good EXCEPT !.inputs = FALSE],
        [good EXCEPT !.snapshot = "missing"],
        [good EXCEPT !.snapshot = "differs"],
        [good EXCEPT !.covered = 2..9]}

EntrySpec == Init /\ [][Next]_s /\ WF_s(Next)

----------------------------------------------------------------------------
(* Every ledger row was decided on what was known D seconds after its      *)
(* trigger: whatever the later bars had been, the row would be the same.   *)
(* The confirmation, the post-touch gate and the pull-back limit each read *)
(* a window of their own (pipeline.py:598-641).                            *)
Later(ev, bars, last) == [ev EXCEPT !.bars = [i \in DOMAIN @ |-> IF i <= last THEN @[i] ELSE bars[i]]]

NoLookAhead ==
    s.at = "summary" =>
    \A i \in DOMAIN s.rows :
        LET r == s.rows[i]
            last == r.trigger + s.spec.D
        IN /\ r.trigger <= r.entry /\ r.entry <= last
           /\ \A bars \in [DOMAIN r.event.bars -> Bars] :
                LET other == Later(r.event, bars, last)
                IN /\ Decided(s.spec, other)
                   /\ [Row(s.spec, other, s.env.metrics, r.gate_mode) EXCEPT !.event = r.event] = r

(* The attribution, grouped silo by silo, and the summary, computed over   *)
(* the whole ledger, account for the same trades in both gate modes: the   *)
(* silos add up to its count and its return, as many are active as it      *)
(* says, and the drawdown never exceeds the losses                         *)
(* (pipeline.py:823-951, metrics_aggregator.py:80-230).                    *)
AttributionAddsUp ==
    s.at = "attribution" =>
        \A mode \in Modes :
            LET m == s.summary.report.metrics[mode]
                table == build_attribution_rows(s.rows, s.spec)
                mine == OfMode(s.rows, DOMAIN s.rows, mode)
                silo(k) == table[k].silo[mode]
            IN /\ SumOver(DOMAIN table, LAMBDA k : silo(k).trade_count) = m.trade_count
               /\ Cardinality({k \in DOMAIN table : silo(k).trade_count > 0}) = m.active
               /\ m.finite => /\ SumOver(DOMAIN table, LAMBDA k : silo(k).pnl) = m.silo_sum
                              /\ m.drawdown <= -Total(s.rows, Losses(s.rows, mine), Realistic)

(* The counters of the checker, the assertions of the test suite and the   *)
(* violations report tell the same story of every summary                  *)
(* (invariant_checker.py:65, assertions.py, violations_markdown_writer.py).*)
ChecksAgree ==
    s.at = "attribution" =>
        LET v == s.summary.violations
            r == s.summary.report
        IN /\ (v.count["P3"] = 0) <=> assert_invariant_P3(s.rows)
           /\ (v.count["P4"] = 0) <=> assert_invariant_P4(s.rows)
           /\ (v.count["P9"] = 0) <=> assert_invariant_P9(s.rows, r)
           /\ (v.count["P12"] = 0) <=> assert_invariant_P12(r)
           /\ has_violations(v) <=> collect_violations(v) # {}
           /\ has_violations(v) <=> assert_no_violations(v) # {}
           /\ ~has_violations(v) => /\ assert_invariant_P1(v) /\ assert_invariant_P7(v)
                                    /\ assert_invariant_P11(s.rows, v)
                                    /\ assert_invariant_P6(r, v) /\ assert_invariant_P8(v)
           /\ \A x \in iter_splits : WindowsApart(x)

(* What a candidate left on disk tells how its run ended, and nothing of a *)
(* rejected or aborted candidate reaches a report (pipeline.py:254-375).   *)
FilesTellStatus ==
    \A i \in DOMAIN s.results :
        LET r == s.results[i]
            kinds == {f[2] : f \in {g \in s.files : g[1] = r.id}}
        IN /\ r.status = "rejected" => kinds = {"rejected"}
           /\ r.status = "aborted" => kinds = {"aborted"}
           /\ r.status = "completed" =>
                 kinds = {"ledger", "summary", "attribution", "snapshot"} \cup Ablations(r.spec)
           /\ r.status # "completed" => r.id \notin s.markdown
           /\ \A j \in DOMAIN s.ranking : s.results[j].id = r.id => r.status = "completed"

(* The run ends, whatever its inputs.                                      *)
RunEnds == <>(s.at = "end")

============================================================================
