------------------------------ MODULE MCTiming ------------------------------
(***************************************************************************)
(* Small instances of the timing studies.                                  *)
(***************************************************************************)
EXTENDS TimingStudies

---------------------------------------------------------------------------
(* dynamic_timing                                                          *)

MCDefaultParams ==
  [max_steps |-> 3, strong_momentum |-> 15, strong_flow |-> 58, moderate_momentum |-> 8,
   extension |-> 15, weak_flow |-> 48, fading |-> 2, min_steps_for_skip |-> 3,
   pullback_target |-> 5, decision_window |-> 2, abandon_extension |-> 30]
MCLayer1 == << <<"max_steps", <<1, 3, 4>> >>, <<"extension", <<15, 90>> >> >>
MCLayer2 == << <<"pullback_target", <<2, 5>> >>, <<"decision_window", <<1, 2>> >> >>
MCScan == << <<"moderate_momentum", <<5, 60>> >>, <<"max_steps", <<1, 4>> >> >>

Bar(time, o, h, l, c) == [t |-> time, o |-> o, h |-> h, l |-> l, c |-> c]
Shapes == {<<100, 112, 99, 112>>, <<112, 127, 108, 120>>, <<120, 150, 116, 145>>,
           <<110, 111, 80, 85>>, <<100, 101, 99, 100>>}
Path(start, shapes) ==
  [i \in 1..Len(shapes) |-> LET q == shapes[i] IN Bar(start + i - 1, q[1], q[2], q[3], q[4])]

Touch(id, symbol, touch, side, atr) ==
  [id |-> id, symbol |-> symbol, touch |-> touch, side |-> side, level |-> 100, atr |-> atr,
   low |-> 95, high |-> 125]
Ledger(e) == [symbol |-> e.symbol, time |-> e.touch + 1, side |-> e.side, type |-> "BUY",
              reason |-> "Zero-Initial-Reentry"]

\* One event before every path of four bars.
Alone ==
  {LET e == Touch(1, "BTC", 0, x[1], x[2])
   IN [ledger |-> <<Ledger(e)>>, events |-> <<e>>, files |-> <<"BTC", 0>> :> Path(0, x[3])] :
   x \in {"long", "short"} \X {20, 40} \X [1..4 -> Shapes]}

\* Five events of two symbols and two months; the first one has no file, the
\* bars of the second begin too late to be seen, the last two share a bar.
Five == <<Touch(1, "ETH", 0, "long", 20), Touch(2, "BTC", 0, "short", 40), Touch(3, "BTC", 100, "long", 20),
          Touch(4, "ETH", 100, "long", 40), Touch(5, "ETH", 101, "long", 20)>>
Together ==
  {[ledger |-> [i \in 1..5 |-> Ledger(Five[i])] \o <<[Ledger(Five[3]) EXCEPT !.time = 99]>>
               \o <<[Ledger(Five[2]) EXCEPT !.type = "EXIT"]>>,
    events |-> Five,
    files |-> (<<"BTC", 0>> :> Path(x[3], x[1])) @@ (<<"BTC", 1>> :> Path(100, x[2]))
              @@ (<<"ETH", 1>> :> Path(100, x[1]))] :
   x \in [1..3 -> {<<100, 112, 99, 112>>, <<120, 150, 116, 145>>, <<110, 111, 80, 85>>}] \X [1..2 -> Shapes] \X {0, 4}}

MCEnvironments == Alone \cup Together

---------------------------------------------------------------------------
(* pre_breakout_timing                                                     *)

MCPullbackGrid == << <<3, 1>>, <<5, 2>>, <<60, 2>> >>
MCCandidates == <<"atr", "extension", "state">>
MCFeatureTiming == [atr |-> TRUE, extension |-> TRUE, dwell |-> FALSE]

Featured(e, a, x) == [e EXCEPT !.id = <<e.symbol, e.id>>] @@ [features |-> [atr |-> a, extension |-> x, dwell |-> <<1>>]]

\* Six events in the order of the ledger, not of time; two symbols.
Six(x) == <<Featured(Touch(1, "BTC", 3, "long", 40), <<1>>, << >>), Featured(Touch(2, "ETH", 0, "long", 40), <<4>>, <<1>>),
            Featured(Touch(3, "BTC", 100, "short", 40), <<2>>, <<3>>), Featured(Touch(4, "ETH", 1, "long", 40), << >>, x),
            Featured(Touch(5, "BTC", 0, "long", 40), <<5>>, x), Featured(Touch(6, "ETH", 100, "long", 20), <<1>>, <<2>>)>>

LearnerRules ==
  {[k \in {<<"RuleBased_DT3", 3>>} \cup ({"DecisionTree", "RandomForest", "LogisticRegression"} \X (2..5)) |->
      IF k[1] = "DecisionTree" /\ k[2] = 5 THEN "first"
      ELSE IF k[1] = "LogisticRegression" THEN "majority" ELSE rule[k[1]]] :
   rule \in [{"RuleBased_DT3", "DecisionTree", "RandomForest"} -> {"majority", "nearest"}]}

MCPreEnvironments ==
  {[ledger |-> [i \in 1..6 |-> Ledger(Six(x[4])[i])], events |-> Six(x[4]), rules |-> x[5],
    files |-> (<<"BTC", 0>> :> Path(0, x[1] \o x[2])) @@ (<<"ETH", 0>> :> Path(0, x[2] \o x[1]))
              @@ (<<"BTC", 1>> :> Path(100, x[3]))] :
   x \in [1..3 -> {<<100, 112, 99, 112>>, <<120, 150, 116, 145>>, <<110, 111, 80, 85>>}]
        \X {<< <<112, 127, 108, 120>>, <<100, 101, 99, 100>>, <<100, 112, 99, 112>> >>}
        \X {<<a, a>> : a \in {<<112, 127, 108, 120>>, <<110, 111, 80, 85>>}}
        \X {<<2>>, << >>} \X LearnerRules}

---------------------------------------------------------------------------
(* path_c_unified                                                          *)

\* Of eight events, one touches after the bars end.
Eight(x) == Six(x) \o <<Featured(Touch(7, "ETH", 200, "long", 40), <<3>>, <<1>>), Featured(Touch(8, "BTC", 4, "long", 20), <<2>>, <<2>>)>>
Trees == {<<"first", "nearest", "majority", "nearest", "first">>, <<"first", "majority", "nearest", "nearest", "majority">>}
Texts == {<< <<<<"atr", "<=">>, <<"extension", ">">>>>, <<<<"atr", ">">>, <<"state", "<=">>>> >>, << <<<<"atr", "<=">>>> >>}

MCPathEnvironments ==
  {[ledger |-> [i \in 1..x[3] |-> [Ledger(Eight(x[4])[i]) EXCEPT !.reason = IF i = 5 THEN "SL-Reentry" ELSE @]],
    observed |-> <<Ledger(Eight(x[4])[8]), Ledger(Eight(x[4])[1])>>,
    events |-> SubSeq(Eight(x[4]), x[5], 8), t3 |-> IF x[3] = 5 THEN << >> ELSE <<SubSeq(Eight(x[4]), 1, 2)>>,
    files |-> (<<"BTC", 0>> :> Path(0, x[1] \o x[2])) @@ (<<"ETH", 0>> :> Path(0, x[2] \o x[1])) @@ (<<"BTC", 1>> :> Path(100, x[2])),
    matrix |-> IF x[3] = 5 THEN << >>
               ELSE <<{[id |-> <<"BTC", 1>>, label |-> "D5", trade |-> [realistic |-> 7]]}>>,
    trees |-> x[6], text |-> x[7], draws |-> <<1, 2, 3>>,
    history |-> [baseline |-> << >>, refinement |-> <<[sum |-> x[3], lower |-> 0, upper |-> 9]>>]] :
   x \in [1..3 -> {<<100, 112, 99, 112>>, <<120, 150, 116, 145>>, <<110, 111, 80, 85>>}]
        \X {<< <<112, 127, 108, 120>>, <<100, 101, 99, 100>>, <<100, 112, 99, 112>> >>}
        \X {5, 7} \X {<<2>>, << >>} \X {1, 3} \X Trees \X Texts}

---------------------------------------------------------------------------
(* pretouch_refinement                                                     *)

MCHourOf == [t \in 0..200 |-> (2 * t) % 24]

Volume(bar, v) == [bar EXCEPT !.t = @] @@ [v |-> v]
Heights == <<4, 9, 6, 14>>
\* Bars from 80 to 112 rise and fall; one near the touches is as given.
Run(shift, bent) ==
  [i \in 1..33 |->
     LET at == 79 + i top == 100 + shift * (i % 7) + Heights[(i % 4) + 1]
     IN Volume(Bar(at, top - 3, IF at = bent[1] THEN bent[2] ELSE top, top - 6, top - 1 - (i % 3)),
               IF i % 5 = 0 THEN << >> ELSE <<((i * i) % 7) + 1>>)]
MonthPart(bars, m) == SelectSeq(bars, LAMBDA b : b.t \div 100 = m)

Refined(id, symbol, touch, side, pct) ==
  Featured(Touch(id, symbol, touch, side, 20), <<touch % 5>>, IF id % 4 = 0 THEN << >> ELSE <<id>>) @@ [pct |-> pct]

\* The ledgers of one symbol come before those of the other.
RefineEvents ==
  <<Refined(1, "BTC", 91, "long", <<20>>), Refined(2, "BTC", 97, "short", <<50>>), Refined(3, "BTC", 103, "long", << >>),
    Refined(4, "BTC", 108, "long", <<90>>), Refined(5, "ETH", 93, "long", <<40>>), Refined(6, "ETH", 99, "long", <<70>>),
    Refined(7, "ETH", 101, "short", <<10>>), Refined(8, "ETH", 106, "long", <<60>>),
    Refined(9, "ETH", 95, "long", <<50>>)>>

\* What an event earns under each of the five delays.
Early == <<<<30>>, <<20>>, <<-5>>, <<-5>>, <<3>>>>
Middle == <<<<20>>, <<60>>, <<-5>>, << >>, <<10>>>>
Late == <<<<-10>>, <<-15>>, <<25>>, <<10>>, <<40>>>>
Never == <<<<-10>>, <<-20>>, <<-5>>, <<-30>>, << >>>>

MatrixRow(e, k, pnl) ==
  [id |-> e.id, label |-> Pre!Labels[k], entry |-> <<e.touch + k, 100>>, delay |-> k,
   reason |-> "MaxHoldExit", trade |-> IF pnl = << >> THEN << >> ELSE [realistic |-> 2 * pnl[1]]]
MatrixOf(events, profiles) ==
  Pre!FlattenSeq([i \in 1..Len(events) |-> [k \in 1..5 |-> MatrixRow(events[i], k, profiles[i][k])]])

LegacyBest == [name |-> "DecisionTree", depth |-> 5, loocv |-> 40, train |-> 100, right |-> 2, test |-> 290, accuracy |-> 35]
Legacy == <<[best |-> LegacyBest, oracle |-> 700, classifiers |-> [k \in 1..4 |-> LegacyBest]]>>

\* Of the events, 1, 5, 9, 2 and 6 are the earlier ones.
Profiles ==
  {<<q[1], q[2], x[1], x[2], q[3], q[4], x[3], x[4], Never>> :
     q \in {<<Early, Early, Late, Late>>, <<Middle, Late, Middle, Never>>, <<Early, Late, Middle, Late>>,
            <<Late, Late, Early, Middle>>},
     x \in {<<Early, Late, Early, Late>>, <<Early, Middle, Never, Late>>, <<Late, Late, Middle, Early>>}}

RefineRules == {r \in LearnerRules : r[<<"RandomForest", 3>>] = "nearest"}
LearnersNearest == CHOOSE r \in RefineRules : \A k \in {<<"RuleBased_DT3", 3>>, <<"DecisionTree", 2>>} : r[k] = "nearest"

MCRefineEnvironments ==
  {[ledger |-> [i \in 1..9 |-> Ledger(RefineEvents[i])], events |-> RefineEvents, rules |-> x[1],
    matrix |-> IF x[4] = "short" THEN <<SubSeq(MatrixOf(RefineEvents, x[2]), 1, 44)>>
               ELSE IF x[4] = "other" THEN <<[MatrixOf(RefineEvents, x[2]) EXCEPT ![7].label = "D0"]>>
               ELSE <<MatrixOf(RefineEvents, x[2])>>,
    legacy |-> Legacy, broken |-> x[3], draws |-> <<1, 2, 3>>,
    files |-> [k \in {<<"BTC", 0>>, <<"BTC", 1>>, <<"ETH", 0>>, <<"ETH", 1>>} |->
                 MonthPart(Run(IF k[1] = "BTC" THEN 3 ELSE 5, x[5]), k[2])]] :
   x \in (RefineRules \X Profiles \X {{}} \X {""} \X {<<97, 140>>})
         \cup ({LearnersNearest} \X {p \in Profiles : p[3] = p[1]} \X {{}} \X {""} \X {<<108, 180>>})
         \cup ({LearnersNearest} \X {[i \in 1..9 |-> IF i \in {1, 2, 4} THEN Early ELSE Late]}
               \X {{"volume"}, {"extended"}} \X {"", "short", "other"} \X {<<97, 140>>})}
============================================================================
