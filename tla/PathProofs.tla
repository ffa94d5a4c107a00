----------------------------- MODULE PathProofs -----------------------------
(***************************************************************************)
(* The study of path_c_unified, for all environments, learners and sizes:  *)
(* the tree whose trades are reported is the one that was trained and      *)
(* scored, and the pool is the one reported.                               *)
(***************************************************************************)
EXTENDS TimingStudies, DynamicProofs, TLAPS

---------------------------------------------------------------------------
(* path_c_unified                                                          *)

\* The train rows with their holes filled, from the train events alone.
TrainRows(train) ==
  LET used == PathC!Range(PathC!extract_features(train).used)
  IN PathC!ImputedRows(train, used, [c \in used |-> PathC!Median2(PathC!Values(train, c))])

\* What a tree answers that follows the rule.
TreeOf(rule, X, y, rows) ==
  [i \in 1..Len(rows) |->
     CASE rule = "majority" ->
            (IF PathC!Count(y, "slow") > PathC!Count(y, "fast") THEN "slow" ELSE "fast")
       [] rule = "nearest" -> PathC!Nearest1(X, y, rows[i])
       [] OTHER -> y[1]]

\* The sum of the trades when each row is left out.
LeftOut(rule, X, y, results) ==
  PathC!compute_calendar_sum_silo(PathC!resolve_3regime_predictions(
    [i \in 1..Len(y) |-> TreeOf(rule, PathC!RemoveAt(X, i), PathC!RemoveAt(y, i), <<X[i]>>)[1]], results))

\* The same of the tree of depth three, from the state.
TreeScore(env, train, labels, results) ==
  LET kept == PathC!Entered(labels)
  IN LeftOut(env.trees[3], PathC!At(TrainRows(train), kept), PathC!At(labels, kept),
             PathC!At(PathC!extract_delay_results_by_ids(results, train), kept))

PathFields == {"at", "env", "original", "gate", "events", "cache", "results", "stats", "skipped", "train", "test",
               "train_labels", "test_labels", "label_stats", "training", "comparison", "depths", "resolved",
               "checks", "report"}

\* What is inductive: the score and the test sum of the tree that was
\* trained, then the score among the depths, then the trades.
PathInv ==
  /\ PathFields \subseteq DOMAIN s
  /\ s.at \in {"compare", "robust", "report", "end"} =>
       /\ s.training[1].loocv = TreeScore(s.env, s.train, s.train_labels, s.results)
       /\ s.training[1].test = PathC!compute_calendar_sum(
             PathC!resolve_3regime_predictions(s.training[1].predictions,
                                               PathC!extract_delay_results_by_ids(s.results, s.test)))
  /\ s.at \in {"robust", "report", "end"} =>
       s.depths[1].by_depth[3] = TreeScore(s.env, s.train, s.train_labels, s.results)
  /\ s.at \in {"report", "end"} =>
       s.resolved = PathC!resolve_3regime_predictions(s.training[1].predictions,
                                                      PathC!extract_delay_results_by_ids(s.results, s.test))

\* The other rows leave no trace in the train rows: the medians are of the
\* train rows.
LEMMA TrainRowsAlone == \A other : PathC!Rows(other).train = TrainRows(s.train)
BY DEF PathC!Rows, PathC!impute_features, PathC!impute_with, TrainRows

\* The rule is all a tree takes from the environment.
LEMMA TreeIsItsRule ==
  \A depth, X, y, rows : PathC!TreeAnswers(depth, X, y, rows) = TreeOf(s.env.trees[depth], X, y, rows)
BY DEF PathC!TreeAnswers, TreeOf

LEMMA ScoreIsLeftOut ==
  \A depth, X, y, results :
    PathC!loocv_calendar_sum_3regime(depth, X, y, results) = LeftOut(s.env.trees[depth], X, y, results)
BY DEF PathC!loocv_calendar_sum_3regime, LeftOut, PathC!TreeAnswers, TreeOf

\* The score of the tree that is trained.
LEMMA TrainedScore ==
  ASSUME NEW rows, rows.train = TrainRows(s.train)
  PROVE  LET t == PathC!train_and_evaluate(rows, PathC!Entered(s.train_labels), s.train_labels,
                                           PathC!extract_delay_results_by_ids(s.results, s.train),
                                           PathC!extract_delay_results_by_ids(s.results, s.test))
         IN /\ t.loocv = TreeScore(s.env, s.train, s.train_labels, s.results)
            /\ t.test = PathC!compute_calendar_sum(
                 PathC!resolve_3regime_predictions(t.predictions, PathC!extract_delay_results_by_ids(s.results, s.test)))
BY ScoreIsLeftOut
DEF PathC!train_and_evaluate, PathC!TrainingResult, TreeScore, PathC!compute_calendar_sum_silo

\* The score among the depths.
LEMMA ComparedScore ==
  ASSUME NEW rows, rows.train = TrainRows(s.train)
  PROVE  LET kept == PathC!Entered(s.train_labels)
         IN PathC!compare_depths(PathC!At(rows.train, kept), PathC!At(s.train_labels, kept),
                                 PathC!At(PathC!extract_delay_results_by_ids(s.results, s.train), kept)).by_depth[3]
              = TreeScore(s.env, s.train, s.train_labels, s.results)
<1>1. 3 \in 2..5
  OBVIOUS
<1>2. QED
  BY <1>1, ScoreIsLeftOut DEF PathC!compare_depths, TreeScore

LEMMA PathInvInit == PathC!Init => PathInv
BY DEF PathC!Init, PathInv, PathFields

\* The steps before a tree is trained.
LEMMA PathInvEarly ==
  ASSUME PathInv, \/ PathC!LoadOriginal \/ PathC!ExploreGate \/ PathC!LoadExpanded
                  \/ PathC!run_multi_delay_simulation \/ PathC!Label
  PROVE  PathInv'
<1>1. DOMAIN s' = DOMAIN s /\ s'.at \in {"gate", "expand", "simulate", "label", "train"}
  <2>1. PathFields \subseteq DOMAIN s
    BY DEF PathInv
  <2>2. CASE PathC!LoadOriginal
    BY <2>1, <2>2 DEF PathC!LoadOriginal, PathFields
  <2>3. CASE PathC!ExploreGate
    BY <2>1, <2>3 DEF PathC!ExploreGate, PathFields
  <2>4. CASE PathC!LoadExpanded
    BY <2>1, <2>4 DEF PathC!LoadExpanded, PathFields
  <2>5. CASE PathC!run_multi_delay_simulation
    BY <2>1, <2>5 DEF PathC!run_multi_delay_simulation, PathFields
  <2>6. CASE PathC!Label
    BY <2>1, <2>6 DEF PathC!Label, PathFields
  <2>7. QED
    BY <2>2, <2>3, <2>4, <2>5, <2>6
<1>2. QED
  BY <1>1 DEF PathInv

\* A tree is trained, on the features made with the test rows.
LEMMA PathInvTrain == ASSUME PathInv, PathC!Train PROVE PathInv'
<1>1. PathFields \subseteq DOMAIN s
  BY DEF PathInv
<1> DEFINE rows == PathC!Rows(s.test)
           t == PathC!train_and_evaluate(rows, PathC!Entered(s.train_labels), s.train_labels,
                                         PathC!extract_delay_results_by_ids(s.results, s.train),
                                         PathC!extract_delay_results_by_ids(s.results, s.test))
<1>2. s' = [s EXCEPT !.at = "failed"] \/ s' = [s EXCEPT !.at = "compare", !.training = <<t>>]
  BY DEF PathC!Train, PathC!TrainedOn
<1>3. rows.train = TrainRows(s.train)
  BY TrainRowsAlone
<1> HIDE DEF rows
<1>4. /\ t.loocv = TreeScore(s.env, s.train, s.train_labels, s.results)
      /\ t.test = PathC!compute_calendar_sum(
            PathC!resolve_3regime_predictions(t.predictions, PathC!extract_delay_results_by_ids(s.results, s.test)))
  BY <1>3, TrainedScore
<1> HIDE DEF t
<1>5. CASE s' = [s EXCEPT !.at = "failed"]
  <2>1. DOMAIN s' = DOMAIN s /\ s'.at = "failed"
    BY <1>1, <1>5 DEF PathFields
  <2>2. QED
    BY <1>1, <2>1 DEF PathInv
<1>6. CASE s' = [s EXCEPT !.at = "compare", !.training = <<t>>]
  <2>1. /\ DOMAIN s' = DOMAIN s /\ s'.at = "compare" /\ s'.training = <<t>>
        /\ s'.env = s.env /\ s'.train = s.train /\ s'.train_labels = s.train_labels
        /\ s'.results = s.results /\ s'.test = s.test
    BY <1>1, <1>6 DEF PathFields
  <2>2. s'.training[1] = t
    BY <2>1
  <2>3. QED
    BY <1>1, <1>4, <2>1, <2>2 DEF PathInv
<1>7. QED
  BY <1>2, <1>5, <1>6

\* The depths are compared, on the features made without the test rows.
LEMMA PathInvCompare == ASSUME PathInv, PathC!Compare PROVE PathInv'
<1>1. PathFields \subseteq DOMAIN s /\ s.at = "compare"
  BY DEF PathInv, PathC!Compare
<1> DEFINE rows == PathC!Rows(s.train)
           kept == PathC!Entered(s.train_labels)
           c == PathC!compare_depths(PathC!At(rows.train, kept), PathC!At(s.train_labels, kept),
                                     PathC!At(PathC!extract_delay_results_by_ids(s.results, s.train), kept))
           x == <<PathC!compare_rules(s.training[1].text, PathC!load_original_a2_rule_text)>>
<1>2. s' = [s EXCEPT !.at = "robust", !.comparison = x, !.depths = <<c>>]
  BY DEF PathC!Compare
<1>3. rows.train = TrainRows(s.train)
  BY TrainRowsAlone
<1> HIDE DEF rows
<1>4. c.by_depth[3] = TreeScore(s.env, s.train, s.train_labels, s.results)
  BY <1>3, ComparedScore
<1> HIDE DEF c, kept, x
<1>5. /\ DOMAIN s' = DOMAIN s /\ s'.at = "robust" /\ s'.depths = <<c>>
      /\ s'.env = s.env /\ s'.train = s.train /\ s'.train_labels = s.train_labels
      /\ s'.results = s.results /\ s'.test = s.test /\ s'.training = s.training
  BY <1>1, <1>2 DEF PathFields
<1>6. s'.depths[1] = c
  BY <1>5
<1>7. QED
  BY <1>1, <1>4, <1>5, <1>6 DEF PathInv

\* The trades of the tree are resolved once more, then reported.
LEMMA PathInvLate == ASSUME PathInv, PathC!Check \/ PathC!Report PROVE PathInv'
<1>1. PathFields \subseteq DOMAIN s
  BY DEF PathInv
<1>2. CASE PathC!Check
  <2> DEFINE r == PathC!resolve_3regime_predictions(s.training[1].predictions,
                                                    PathC!extract_delay_results_by_ids(s.results, s.test))
  <2>1. s.at = "robust" /\ \E k : s' = [s EXCEPT !.at = "report", !.resolved = r, !.checks = k]
    BY <1>2, Zenon DEF PathC!Check
  <2> HIDE DEF r
  <2>2. /\ DOMAIN s' = DOMAIN s /\ s'.at = "report" /\ s'.resolved = r
        /\ s'.env = s.env /\ s'.train = s.train /\ s'.train_labels = s.train_labels
        /\ s'.results = s.results /\ s'.test = s.test /\ s'.training = s.training /\ s'.depths = s.depths
    BY <1>1, <2>1 DEF PathFields
  <2>3. QED
    BY <1>1, <2>1, <2>2 DEF PathInv, r
<1>3. CASE PathC!Report
  <2>1. s.at = "report" /\ \E k : s' = [s EXCEPT !.at = "end", !.report = k]
    BY <1>3, Zenon DEF PathC!Report
  <2>2. /\ DOMAIN s' = DOMAIN s /\ s'.at = "end" /\ s'.resolved = s.resolved
        /\ s'.env = s.env /\ s'.train = s.train /\ s'.train_labels = s.train_labels
        /\ s'.results = s.results /\ s'.test = s.test /\ s'.training = s.training /\ s'.depths = s.depths
    BY <1>1, <2>1 DEF PathFields
  <2>3. QED
    BY <1>1, <2>1, <2>2 DEF PathInv
<1>4. QED
  BY <1>2, <1>3

\* Of the study of path_c_unified, whatever its events, bars, learner and
\* bounds: the tree of depth three that is judged is the one that is compared
\* with the other depths, though its features are made a second time with the
\* train rows in the place of the test rows, and the trades the checks resample
\* are those whose sum is reported.
THEOREM TheTreeIsTheOneJudged == TimingSpec => []OneTreeIsJudged
<1> DEFINE Inv == study = "path" => PathInv
<1>1. TimingInit => Inv
  BY PathInvInit DEF TimingInit
<1>2. Inv /\ [TimingNext]_<<study, s>> => Inv'
  <2>1. SUFFICES ASSUME Inv, [TimingNext]_<<study, s>>, study' = "path" PROVE PathInv'
    OBVIOUS
  <2>2. study = "path" /\ PathInv /\ (PathC!Next \/ s' = s)
    BY <2>1 DEF TimingNext
  <2>3. CASE s' = s
    BY <2>2, <2>3 DEF PathInv
  <2>4. CASE PathC!Next
    BY <2>2, <2>4, PathInvEarly, PathInvTrain, PathInvCompare, PathInvLate DEF PathC!Next
  <2>5. QED
    BY <2>2, <2>3, <2>4
<1>3. Inv => OneTreeIsJudged
  BY DEF PathInv, OneTreeIsJudged
<1>4. QED
  BY <1>1, <1>2, <1>3, PTL DEF TimingSpec

---------------------------------------------------------------------------
(* The pool of path_c_unified: names of events, and what keeps them apart  *)

CoverOp(par, kept, e) == IF CacheStart <= e.touch /\ e.touch <= CacheEnd THEN Append(kept, e) ELSE kept
CoverFold == INSTANCE FoldFacts WITH Op <- CoverOp

NamedOp(names, kept, e) == IF e.id \notin names THEN Append(kept, e) ELSE kept
NamedFold == INSTANCE FoldFacts WITH Op <- NamedOp

ReasonOp(reasons, kept, r) == IF r.type # "EXIT" /\ r.reason \in reasons THEN Append(kept, r) ELSE kept
ReasonFold == INSTANCE FoldFacts WITH Op <- ReasonOp

OnceOp(par, acc, e) == IF e.id \in {acc[i].id : i \in 1..Len(acc)} THEN acc ELSE Append(acc, e)
OnceFold == INSTANCE FoldFacts WITH Op <- OnceOp

Covered(q) == CoverFold!Run(0, << >>, q)
Lacking(q, names) == NamedFold!Run(names, << >>, q)
Once(q) == OnceFold!Fold(0, << >>, q)
Completed(pool, original) ==
  IF Names(original) \subseteq Names(pool) THEN pool ELSE Once(pool \o Lacking(original, Names(pool)))

\* The instance means the same by its names as this module by its own.
LEMMA PathNearest == \A entry, events : PathC!Nearest(entry, events) = Nearest(entry, events)
BY DEF PathC!Nearest, PathC!Span, PathC!Min, Nearest, Span, Min

LEMMA PathMatch == \A entries, events : PathC!match_events(entries, events) = match_events(entries, events)
<1>1. SUFFICES ASSUME NEW entries, NEW events PROVE PathC!match_events(entries, events) = match_events(entries, events)
  OBVIOUS
<1> DEFINE places == [i \in 1..Len(entries) |-> PathC!Nearest(entries[i], events)]
<1>2. places = Places(entries, events)
  BY PathNearest DEF Places
<1>3. PathC!match_events(entries, events) = KeepFold!Fold(events, << >>, Found(places))
  BY DEF PathC!match_events, PathC!Where, PathC!FoldLeft, PathC!MapThenFoldSet, PathC!Max, KeepOp, KeepFold!Fold,
         KeepFold!Largest, Found, FoundOp, FoundFold!Run
<1>4. QED
  BY <1>2, <1>3, MatchIsFold

LEMMA PathLoad == \A ledger, events : PathC!load_v6_gate_events(ledger, events) = load_v6_gate_events(ledger, events)
BY PathMatch DEF PathC!load_v6_gate_events, load_v6_gate_events, PathC!Where, Where

LEMMA PathSize == \A S : PathC!Cardinality(S) = Cardinality(S)
BY DEF PathC!Cardinality, Cardinality, PathC!IsFiniteSet, IsFiniteSet

LEMMA PathByTouch == \A events : PathC!ByTouch(events) = ByTouch(events)
BY DEF PathC!ByTouch, ByTouch, PathC!FoldLeft, FoldLeft, PathC!MapThenFoldSet, MapThenFoldSet, PathC!Max, Max,
       PathC!Insert, Insert, PathC!InsertAt, InsertAt, PathC!Cardinality, Cardinality

LEMMA PathIds == \A q : PathC!Ids(q) = Names(q)
BY DEF PathC!Ids, Names

LEMMA PathCovered == \A q : PathC!filter_by_bars_cache_coverage(q) = Covered(q)
BY DEF PathC!filter_by_bars_cache_coverage, PathC!Where, Covered, CoverOp, CoverFold!Run

LEMMA PathOnce == \A q : PathC!drop_duplicates(q) = Once(q)
BY DEF PathC!drop_duplicates, PathC!FirstOfId, PathC!Ids, PathC!FoldLeft, PathC!MapThenFoldSet, PathC!Max,
       Once, OnceOp, OnceFold!Fold, OnceFold!Largest

LEMMA PathWith == \A pool, original : PathC!With(pool, original) = Completed(pool, original)
<1>1. \A pool, original :
        PathC!With(pool, original)
          = IF PathC!Ids(original) \subseteq PathC!Ids(pool) THEN pool
            ELSE PathC!drop_duplicates(pool \o Lacking(original, PathC!Ids(pool)))
  BY DEF PathC!With, PathC!Where, Lacking, NamedOp, NamedFold!Run
<1>2. QED
  BY <1>1, PathIds, PathOnce DEF Completed

LEMMA PathEntries ==
  \A ledger, reasons : PathC!extract_v6_gate_entries(ledger, reasons) = ReasonFold!Run(reasons, << >>, ledger)
BY DEF PathC!extract_v6_gate_entries, PathC!Where, ReasonOp, ReasonFold!Run

LEMMA SelNames ==
  \A K, S : \A q \in Seq(S) : Names(Sel(K, q)) \subseteq Names(q) /\ (Unique(q) => Unique(Sel(K, q)))
<1>1. SUFFICES ASSUME NEW K, NEW S
               PROVE  \A q \in Seq(S) : Names(Sel(K, q)) \subseteq Names(q) /\ (Unique(q) => Unique(Sel(K, q)))
  OBVIOUS
<1> DEFINE F(q) == Sel(K, q)
           T == {q \in Seq(S) : Names(F(q)) \subseteq Names(q) /\ (Unique(q) => Unique(F(q)))}
<1>2. << >> \in T
  <2>1. F(<< >>) = << >>
    BY SelEmpty
  <2> HIDE DEF F
  <2>2. QED
    BY <2>1, EmptySeq
<1>3. ASSUME NEW q \in Seq(S), NEW x \in S, q \in T PROVE Append(q, x) \in T
  <2>1. F(Append(q, x)) = IF x \in K THEN Append(F(q), x) ELSE F(q)
    BY SelAppend
  <2>2. F(q) \in Seq(S) /\ Append(q, x) \in Seq(S)
    <3>1. Append(q, x) \in Seq(S)
      OBVIOUS
    <3>2. F(q) \in Seq(S)
      BY SelType, Zenon
    <3>3. QED
      BY <3>1, <3>2
  <2>3. Names(F(q)) \subseteq Names(q) /\ (Unique(q) => Unique(F(q)))
    BY <1>3
  <2> HIDE DEF F
  <2>4. /\ Names(Append(q, x)) = Names(q) \cup {x.id}
        /\ Unique(Append(q, x)) <=> Unique(q) /\ x.id \notin Names(q)
    BY NamesAppend
  <2>5. /\ Names(Append(F(q), x)) = Names(F(q)) \cup {x.id}
        /\ Unique(Append(F(q), x)) <=> Unique(F(q)) /\ x.id \notin Names(F(q))
    BY <2>2, NamesAppend
  <2>6. QED
    BY <2>1, <2>2, <2>3, <2>4, <2>5, Zenon
<1> HIDE DEF T
<1>4. \A q \in Seq(S) : q \in T
  BY <1>2, <1>3, Select!SeqInduction
<1>5. QED
  BY <1>4 DEF T

\* The first event of every name.
LEMMA OnceFacts ==
  \A S : \A q \in Seq(S) :
    /\ Once(q) \in Seq(S) /\ Names(Once(q)) = Names(q) /\ Unique(Once(q))
    /\ Unique(q) => Once(q) = q
<1>1. SUFFICES ASSUME NEW S
               PROVE  \A q \in Seq(S) : /\ Once(q) \in Seq(S) /\ Names(Once(q)) = Names(q) /\ Unique(Once(q))
                                        /\ Unique(q) => Once(q) = q
  BY SMTT(30)
<1> DEFINE T == {q \in Seq(S) : /\ Once(q) \in Seq(S) /\ Names(Once(q)) = Names(q) /\ Unique(Once(q))
                                /\ Unique(q) => Once(q) = q}
<1>2. << >> \in T
  <2>1. Once(<< >>) = << >>
    BY OnceFold!FoldEmpty DEF Once
  <2>2. QED
    BY <2>1, EmptySeq, UniqueEmpty, Zenon
<1>3. ASSUME NEW q \in Seq(S), NEW x \in S, q \in T PROVE Append(q, x) \in T
  <2>1. Once(Append(q, x)) = OnceOp(0, Once(q), x)
    BY OnceFold!FoldAppend DEF Once
  <2>2. OnceOp(0, Once(q), x) = IF x.id \in Names(Once(q)) THEN Once(q) ELSE Append(Once(q), x)
    BY DEF OnceOp, Names
  <2>3. Once(q) \in Seq(S) /\ Names(Once(q)) = Names(q) /\ Unique(Once(q)) /\ (Unique(q) => Once(q) = q)
    BY <1>3
  <2>4. Append(q, x) \in Seq(S) /\ Append(Once(q), x) \in Seq(S)
    BY <2>3
  <2>5. /\ Names(Append(q, x)) = Names(q) \cup {x.id}
        /\ Unique(Append(q, x)) <=> Unique(q) /\ x.id \notin Names(q)
    BY NamesAppend
  <2>6. /\ Names(Append(Once(q), x)) = Names(Once(q)) \cup {x.id}
        /\ Unique(Append(Once(q), x)) <=> Unique(Once(q)) /\ x.id \notin Names(Once(q))
    BY <2>3, NamesAppend
  <2>7. QED
    BY <2>1, <2>2, <2>3, <2>4, <2>5, <2>6, Zenon
<1> HIDE DEF T
<1>4. \A q \in Seq(S) : q \in T
  BY <1>2, <1>3, Select!SeqInduction
<1>5. QED
  BY <1>4 DEF T

LEMMA SizeOfNames ==
  \A S : \A q \in Seq(S) :
    /\ IsFiniteSet(Names(q)) /\ Cardinality(Names(q)) \in Nat /\ Cardinality(Names(q)) <= Len(q)
    /\ Unique(q) => Cardinality(Names(q)) = Len(q)
<1>1. SUFFICES ASSUME NEW S
               PROVE  \A q \in Seq(S) :
                        /\ IsFiniteSet(Names(q)) /\ Cardinality(Names(q)) \in Nat /\ Cardinality(Names(q)) <= Len(q)
                        /\ Unique(q) => Cardinality(Names(q)) = Len(q)
  OBVIOUS
<1> DEFINE C(q) == Cardinality(Names(q))
           T == {q \in Seq(S) : /\ IsFiniteSet(Names(q)) /\ C(q) \in Nat /\ C(q) <= Len(q)
                                /\ Unique(q) => C(q) = Len(q)}
<1>2. << >> \in T
  <2> DEFINE e == << >>
  <2>1. Names(e) = {} /\ IsFiniteSet(Names(e)) /\ C(e) = 0
    BY UniqueEmpty, FS_EmptySet
  <2>2. e \in Seq(S) /\ Len(e) = 0
    BY EmptySeq
  <2> HIDE DEF C, e
  <2>3. C(e) \in Nat /\ C(e) <= Len(e) /\ C(e) = Len(e)
    BY <2>1, <2>2
  <2>5. e \in T
    BY <2>1, <2>2, <2>3, Zenon
  <2>4. QED
    BY <2>5 DEF e
<1>3. ASSUME NEW q \in Seq(S), NEW x \in S, q \in T PROVE Append(q, x) \in T
  <2>1. IsFiniteSet(Names(q)) /\ C(q) \in Nat /\ C(q) <= Len(q) /\ (Unique(q) => C(q) = Len(q))
    BY <1>3
  <2>2. /\ Names(Append(q, x)) = Names(q) \cup {x.id}
        /\ Unique(Append(q, x)) <=> Unique(q) /\ x.id \notin Names(q)
    BY NamesAppend
  <2>3. IsFiniteSet(Names(q) \cup {x.id})
        /\ Cardinality(Names(q) \cup {x.id}) = IF x.id \in Names(q) THEN C(q) ELSE C(q) + 1
    BY <2>1, FS_AddElement, Zenon
  <2>4. Append(q, x) \in Seq(S) /\ Len(Append(q, x)) = Len(q) + 1 /\ Len(q) \in Nat
    OBVIOUS
  <2>5. IsFiniteSet(Names(Append(q, x))) /\ C(Append(q, x)) = IF x.id \in Names(q) THEN C(q) ELSE C(q) + 1
    BY <2>2, <2>3
  <2> HIDE DEF C
  <2>6. C(Append(q, x)) \in Nat /\ C(Append(q, x)) <= Len(q) + 1
    BY <2>1, <2>4, <2>5
  <2>7. Unique(Append(q, x)) => C(Append(q, x)) = Len(q) + 1
    BY <2>1, <2>2, <2>5
  <2>8. QED
    BY <2>4, <2>5, <2>6, <2>7
<1> HIDE DEF T
<1>4. \A q \in Seq(S) : q \in T
  BY <1>2, <1>3, Select!SeqInduction
<1>5. QED
  BY <1>4 DEF T

LEMMA CoveredSelects ==
  \A S : \A q \in Seq(S) : Covered(q) = Sel({e \in S : CacheStart <= e.touch /\ e.touch <= CacheEnd}, q)
<1>1. SUFFICES ASSUME NEW S
               PROVE  \A q \in Seq(S) : Covered(q) = Sel({e \in S : CacheStart <= e.touch /\ e.touch <= CacheEnd}, q)
  OBVIOUS
<1> DEFINE K == {e \in S : CacheStart <= e.touch /\ e.touch <= CacheEnd}
           F == [q \in Seq(S) |-> CoverFold!Run(0, << >>, q)]
<1>2. Keeps(F, K, S)
  <2>1. F[<< >>] = << >>
    BY CoverFold!RunEmpty
  <2>2. \A q \in Seq(S), x \in S : F[Append(q, x)] = IF x \in K THEN Append(F[q], x) ELSE F[q]
    BY CoverFold!RunAppend DEF CoverOp
  <2> HIDE DEF F, K
  <2>3. QED
    BY <2>1, <2>2 DEF Keeps
<1>3. \A q \in Seq(S) : F[q] = CoverFold!Run(0, << >>, q)
  OBVIOUS
<1> HIDE DEF F, K
<1>4. \A q \in Seq(S) : F[q] = Sel(K, q)
  BY <1>2, FilterIsSel
<1>5. QED
  BY <1>3, <1>4 DEF K, Covered

LEMMA LackingSelects ==
  \A S, names : \A q \in Seq(S) : Lacking(q, names) = Sel({e \in S : e.id \notin names}, q)
<1>1. SUFFICES ASSUME NEW S, NEW names
               PROVE  \A q \in Seq(S) : Lacking(q, names) = Sel({e \in S : e.id \notin names}, q)
  OBVIOUS
<1> DEFINE K == {e \in S : e.id \notin names}
           F == [q \in Seq(S) |-> NamedFold!Run(names, << >>, q)]
<1>2. Keeps(F, K, S)
  <2>1. F[<< >>] = << >>
    BY NamedFold!RunEmpty
  <2>2. \A q \in Seq(S), x \in S : F[Append(q, x)] = IF x \in K THEN Append(F[q], x) ELSE F[q]
    BY NamedFold!RunAppend DEF NamedOp
  <2> HIDE DEF F, K
  <2>3. QED
    BY <2>1, <2>2 DEF Keeps
<1>3. \A q \in Seq(S) : F[q] = NamedFold!Run(names, << >>, q)
  OBVIOUS
<1> HIDE DEF F, K
<1>4. \A q \in Seq(S) : F[q] = Sel(K, q)
  BY <1>2, FilterIsSel
<1>5. QED
  BY <1>3, <1>4 DEF K, Lacking

LEMMA ReasonsSelect ==
  \A S, reasons : \A q \in Seq(S) :
    ReasonFold!Run(reasons, << >>, q) = Sel({r \in S : r.type # "EXIT" /\ r.reason \in reasons}, q)
<1>1. SUFFICES ASSUME NEW S, NEW reasons
               PROVE  \A q \in Seq(S) :
                        ReasonFold!Run(reasons, << >>, q) = Sel({r \in S : r.type # "EXIT" /\ r.reason \in reasons}, q)
  OBVIOUS
<1> DEFINE K == {r \in S : r.type # "EXIT" /\ r.reason \in reasons}
           F == [q \in Seq(S) |-> ReasonFold!Run(reasons, << >>, q)]
<1>2. Keeps(F, K, S)
  <2>1. F[<< >>] = << >>
    BY ReasonFold!RunEmpty
  <2>2. \A q \in Seq(S), x \in S : F[Append(q, x)] = IF x \in K THEN Append(F[q], x) ELSE F[q]
    BY ReasonFold!RunAppend DEF ReasonOp
  <2> HIDE DEF F, K
  <2>3. QED
    BY <2>1, <2>2 DEF Keeps
<1>3. \A q \in Seq(S) : F[q] = ReasonFold!Run(reasons, << >>, q)
  OBVIOUS
<1> HIDE DEF F, K
<1>4. \A q \in Seq(S) : F[q] = Sel(K, q)
  BY <1>2, FilterIsSel
<1>5. QED
  BY <1>3, <1>4 DEF K

\* What a pool holds once the original events are added.
LEMMA CompletedFacts ==
  \A S : \A pool, original \in Seq(S) :
    /\ Completed(pool, original) \in Seq(S)
    /\ Names(original) \subseteq Names(Completed(pool, original))
    /\ Unique(pool) => Unique(Completed(pool, original))
    /\ Names(original) \subseteq Names(pool) => Completed(pool, original) = pool
<1>1. SUFFICES ASSUME NEW S, NEW pool \in Seq(S), NEW original \in Seq(S)
               PROVE  /\ Completed(pool, original) \in Seq(S)
                      /\ Names(original) \subseteq Names(Completed(pool, original))
                      /\ Unique(pool) => Unique(Completed(pool, original))
                      /\ Names(original) \subseteq Names(pool) => Completed(pool, original) = pool
  OBVIOUS
<1>2. CASE Names(original) \subseteq Names(pool)
  BY <1>2 DEF Completed
<1>3. CASE ~(Names(original) \subseteq Names(pool))
  <2> DEFINE K == {e \in S : e.id \notin Names(pool)}
             rest == Lacking(original, Names(pool))
             all == pool \o rest
  <2>1. rest = Sel(K, original)
    BY LackingSelects
  <2>2. rest \in Seq(S)
    BY <2>1, SelType
  <2>3. ASSUME NEW i \in 1..Len(original) PROVE original[i].id \in Names(all)
    <3> HIDE DEF rest
    <3>1. Len(pool) \in Nat /\ Len(rest) \in Nat /\ Len(all) = Len(pool) + Len(rest)
      BY <2>2
    <3>2. CASE original[i].id \in Names(pool)
      <4>1. PICK j \in 1..Len(pool) : pool[j].id = original[i].id
        BY <3>2 DEF Names
      <4>2. j \in 1..Len(all) /\ all[j] = pool[j]
        BY <2>2, <3>1
      <4>3. QED
        BY <4>1, <4>2 DEF Names
    <3>3. CASE original[i].id \notin Names(pool)
      <4>1. original[i] \in K
        BY <3>3
      <4> HIDE DEF K
      <4>2. PICK j \in 1..Len(rest) : rest[j] = original[i]
        BY <2>1, <4>1, SelHas
      <4>3. Len(pool) + j \in 1..Len(all) /\ all[Len(pool) + j] = rest[j]
        BY <2>2, <3>1
      <4>4. QED
        BY <4>2, <4>3 DEF Names
    <3>4. QED
      BY <3>2, <3>3
  <2>4. all \in Seq(S) /\ Names(original) \subseteq Names(all)
    <3>1. Names(original) \subseteq Names(all)
      BY <2>3, Zenon DEF Names
    <3> HIDE DEF rest
    <3>2. QED
      BY <2>2, <3>1
  <2>5. Completed(pool, original) = Once(all)
    BY <1>3 DEF Completed
  <2> HIDE DEF all
  <2>6. Once(all) \in Seq(S) /\ Names(Once(all)) = Names(all) /\ Unique(Once(all))
    BY <2>4, OnceFacts
  <2>7. QED
    BY <1>3, <2>4, <2>5, <2>6
<1>4. QED
  BY <1>2, <1>3

LEMMA FirstOfFive ==
  ASSUME NEW I \in SUBSET (1..5), 5 \in I
  PROVE  PathC!Min(I) \in I /\ \A j \in I : PathC!Min(I) <= j
<1>1. I \subseteq Nat /\ I # {}
  OBVIOUS
<1>2. \E x \in I : \A y \in I : x <= y
  BY <1>1, LeastExists
<1>3. QED
  BY <1>2, Zenon DEF PathC!Min

\* The rules of select_best_strategy, as a choice among five.
LEMMA ChosenByRule ==
  \A rules : rules[5][1] =>
    \E m \in 1..5 :
      /\ rules[m][1] /\ \A j \in 1..5 : rules[j][1] => m <= j
      /\ rules[PathC!Min({i \in 1..5 : rules[i][1]})][2] = rules[m][2]
<1>1. SUFFICES ASSUME NEW rules, rules[5][1]
               PROVE  \E m \in 1..5 : /\ rules[m][1] /\ \A j \in 1..5 : rules[j][1] => m <= j
                                      /\ rules[PathC!Min({i \in 1..5 : rules[i][1]})][2] = rules[m][2]
  OBVIOUS
<1> DEFINE I == {i \in 1..5 : rules[i][1]}
<1>2. 5 \in 1..5
  OBVIOUS
<1>3. I \in SUBSET (1..5) /\ 5 \in I
  BY <1>1, <1>2, Zenon
<1>4. PathC!Min(I) \in I /\ \A j \in I : PathC!Min(I) <= j
  <2> HIDE DEF I
  <2>1. QED
    BY <1>3, FirstOfFive
<1>5. QED
  BY <1>4, Zenon

\* Every original event is in the pool, by the count of the overlap.
Full(d, original) == Cardinality(Names(d) \cap Names(original)) = Len(original)

\* The relaxed entries never win: a pool that holds fewer events holds no
\* more of the original ones.
LEMMA RelaxedNeverFirst ==
  ASSUME NEW S, NEW direct \in Seq(S), NEW relaxed \in Seq(S), NEW original \in Seq(S), Target \in Int,
         Unique(relaxed), Names(relaxed) \subseteq Names(direct),
         Len(relaxed) >= Target, Full(relaxed, original)
  PROVE  Len(direct) >= Target /\ Full(direct, original)
<1> DEFINE ND == Names(direct)
           NA == Names(relaxed)
           NO == Names(original)
<1>1. /\ IsFiniteSet(ND) /\ Cardinality(ND) \in Nat /\ Cardinality(ND) <= Len(direct)
      /\ IsFiniteSet(NA) /\ Cardinality(NA) \in Nat /\ Cardinality(NA) = Len(relaxed)
      /\ IsFiniteSet(NO) /\ Cardinality(NO) \in Nat /\ Cardinality(NO) <= Len(original)
  BY SizeOfNames
<1>2. NA \subseteq ND /\ Cardinality(NA \cap NO) = Len(original)
  BY DEF Full
<1>3. Len(direct) \in Nat /\ Len(original) \in Nat /\ Len(relaxed) \in Nat
  OBVIOUS
<1> HIDE DEF ND, NA, NO
<1>4. Cardinality(NA) <= Cardinality(ND)
  BY <1>1, <1>2, FS_Subset
<1>5. NA \cap NO \subseteq ND \cap NO /\ ND \cap NO \subseteq NO
  BY <1>2
<1>6. IsFiniteSet(ND \cap NO) /\ Cardinality(ND \cap NO) <= Cardinality(NO) /\ Cardinality(ND \cap NO) \in Nat
  BY <1>1, <1>5, FS_Subset, FS_CardinalityType
<1>7. Cardinality(NA \cap NO) <= Cardinality(ND \cap NO)
  BY <1>5, <1>6, FS_Subset
<1>8. Cardinality(ND \cap NO) = Len(original)
  BY <1>1, <1>2, <1>3, <1>6, <1>7
<1>9. Len(direct) >= Target
  BY <1>1, <1>3, <1>4
<1>10. QED
  BY <1>8, <1>9 DEF Full, ND, NO

\* Whatever the rules choose, completing it gives as many events.
LEMMA PoolSize ==
  ASSUME NEW S, NEW direct \in Seq(S), NEW original \in Seq(S), Unique(original), NEW pool,
         \/ pool = direct
         \/ pool = Completed(direct, original)
         \/ ~(Len(direct) > 0) /\ pool = original
  PROVE  Len(Completed(pool, original)) = Len(Completed(direct, original))
<1>1. CASE pool = direct
  BY <1>1
<1>2. CASE pool = Completed(direct, original)
  <2>1. pool \in Seq(S) /\ Names(original) \subseteq Names(pool)
    BY <1>2, CompletedFacts
  <2>2. Completed(pool, original) = pool
    BY <2>1, CompletedFacts
  <2>3. QED
    BY <1>2, <2>2
<1>3. CASE ~(Len(direct) > 0) /\ pool = original
  <2>1. Completed(pool, original) = original
    BY <1>3, CompletedFacts
  <2>2. direct = << >>
    BY <1>3
  <2>3. Names(direct) = {}
    BY <2>2, UniqueEmpty
  <2> DEFINE rest == Lacking(original, {})
             K == {e \in S : e.id \notin {}}
  <2>4. rest = Sel(K, original)
    BY LackingSelects
  <2>5. rest \in Seq(S)
    BY <2>4, SelType
  <2>6. Names(original) \subseteq Names(rest)
    <3>1. SUFFICES ASSUME NEW i \in 1..Len(original) PROVE original[i].id \in Names(rest)
      BY DEF Names
    <3>2. original[i] \in K
      OBVIOUS
    <3> HIDE DEF K
    <3>3. PICK j \in 1..Len(rest) : rest[j] = original[i]
      BY <2>4, <3>2, SelHas
    <3> HIDE DEF rest
    <3>4. QED
      BY <3>3 DEF Names
  <2> HIDE DEF K
  <2>7. Unique(rest) /\ Names(rest) \subseteq Names(original)
    BY <2>4, SelNames
  <2>8. Completed(direct, original) = IF Names(original) \subseteq {} THEN direct ELSE Once(direct \o rest)
    BY <2>3 DEF Completed
  <2> HIDE DEF rest
  <2>9. direct \o rest = rest
    BY <2>2, <2>5
  <2>10. Len(rest) = Len(original)
    <3>1. Names(rest) = Names(original)
      BY <2>6, <2>7, Zenon
    <3>2. Cardinality(Names(rest)) = Len(rest) /\ Cardinality(Names(original)) = Len(original)
      BY <2>5, <2>7, SizeOfNames
    <3>3. QED
      BY <3>1, <3>2
  <2>11. CASE Names(original) \subseteq {}
    <3>1. Cardinality(Names(original)) = Len(original)
      BY SizeOfNames
    <3>2. Names(original) = {}
      BY <2>11
    <3>3. Len(original) = 0
      BY <3>1, <3>2, FS_EmptySet
    <3>4. QED
      BY <2>1, <2>2, <2>8, <2>11, <3>3
  <2>12. CASE ~(Names(original) \subseteq {})
    <3>1. Once(rest) = rest
      BY <2>5, <2>7, OnceFacts
    <3>2. QED
      BY <2>1, <2>8, <2>9, <2>10, <2>12, <3>1
  <2>13. QED
    BY <2>11, <2>12
<1>4. QED
  BY <1>1, <1>2, <1>3

RelaxedPool(env) == Covered(match_events(ReasonFold!Run(PathC!AnyReason(env.ledger), << >>, env.ledger), env.events))

LEMMA PathRelaxed == \A env : PathC!Relaxed(env) = RelaxedPool(env)
BY PathMatch, PathEntries, PathCovered DEF PathC!Relaxed, RelaxedPool

\* The files of an environment, as sequences of their own lines.
LEMMA PathFiles ==
  ASSUME NEW env \in PathEnvironments
  PROVE  /\ env.ledger \in Seq(Range(env.ledger)) /\ env.events \in Seq(Range(env.events)) /\ Unique(env.events)
         /\ \A r \in Range(env.ledger) : r.time \in Int
         /\ \A e \in Range(env.events) : e.touch \in Int
         /\ Target \in Int
BY PathAssumption DEF PathAssumption, IsSequence

\* The pools of select_best_strategy, with none of their events twice.
LEMMA PoolFacts ==
  ASSUME NEW env \in PathEnvironments, NEW S, S = Range(env.events)
  PROVE  /\ Covered(env.events) \in Seq(S) /\ Unique(Covered(env.events))
         /\ RelaxedPool(env) \in Seq(S) /\ Unique(RelaxedPool(env))
         /\ Names(RelaxedPool(env)) \subseteq Names(Covered(env.events))
<1> DEFINE R == Range(env.ledger)
           K == {e \in S : CacheStart <= e.touch /\ e.touch <= CacheEnd}
           L == {r \in R : r.type # "EXIT" /\ r.reason \in PathC!AnyReason(env.ledger)}
           entries == ReasonFold!Run(PathC!AnyReason(env.ledger), << >>, env.ledger)
           near == match_events(entries, env.events)
           d == Covered(env.events)
           a == Covered(near)
<1>1. /\ env.ledger \in Seq(R) /\ env.events \in Seq(S) /\ Unique(env.events)
      /\ \A r \in R : r.time \in Int
      /\ \A e \in S : e.touch \in Int
  BY PathFiles
<1> HIDE DEF R
<1>2. entries = Sel(L, env.ledger)
  BY <1>1, ReasonsSelect
<1>3. entries \in Seq(R)
  BY <1>1, <1>2, SelType, Zenon
<1> HIDE DEF entries, L
<1>4. near \in Seq(S) /\ Unique(near)
  BY <1>1, <1>3, MatchType
<1> HIDE DEF near
<1>5. d = Sel(K, env.events) /\ a = Sel(K, near)
  BY <1>1, <1>4, CoveredSelects
<1> HIDE DEF d, a
<1>6. d \in Seq(S) /\ a \in Seq(S) /\ a \in Seq(S \cap K)
  BY <1>1, <1>4, <1>5, SelType, Zenon
<1>7. Unique(d) /\ Unique(a)
  BY <1>1, <1>4, <1>5, SelNames
<1>8. Names(a) \subseteq Names(d)
  <2>1. SUFFICES ASSUME NEW i \in 1..Len(a) PROVE a[i].id \in Names(d)
    BY DEF Names
  <2>2. a[i] \in S /\ a[i] \in K
    <3> HIDE DEF K
    <3>1. QED
      BY <1>6
  <2>3. PICK k \in DOMAIN env.events : a[i] = env.events[k]
    BY <2>2 DEF Range
  <2>4. k \in 1..Len(env.events)
    BY <1>1, <2>3
  <2> HIDE DEF K
  <2>5. PICK j \in 1..Len(d) : d[j] = env.events[k]
    BY <1>1, <1>5, <2>2, <2>3, <2>4, SelHas
  <2>6. QED
    BY <2>3, <2>5 DEF Names
<1>9. QED
  BY <1>6, <1>7, <1>8 DEF d, a, near, entries, RelaxedPool

\* What the exploration reports is the size of the completed direct pool.
LEMMA ReportedSize ==
  ASSUME NEW env \in PathEnvironments, NEW original \in Seq(Range(env.events)), Unique(original)
  PROVE  PathC!explore_gate_relaxation(original, env).n = Len(Completed(Covered(env.events), original))
<1> DEFINE S == Range(env.events)
           D == Covered(env.events)
           A == RelaxedPool(env)
           ca == PathC!explore_dimension_a(env, original)
           cc == PathC!explore_dimension_c(env, original)
           chosen == PathC!select_best_strategy(ca, cc, original, env)
<1>1. PathC!explore_gate_relaxation(original, env).n = Len(Completed(chosen.events, original))
  BY PathWith DEF PathC!explore_gate_relaxation, PathC!GateReportOf, PathC!GateReport
<1>2. D \in Seq(S) /\ Unique(D) /\ A \in Seq(S) /\ Unique(A) /\ Names(A) \subseteq Names(D) /\ Target \in Int
  BY PoolFacts, PathFiles
<1>3. ca.n = Len(A) /\ ca.overlap = Cardinality(Names(A) \cap Names(original))
  BY PathRelaxed, PathIds, PathSize, Zenon DEF PathC!explore_dimension_a, PathC!Explored, PathC!compute_overlap
<1>4. cc.n = Len(D) /\ cc.overlap = Cardinality(Names(D) \cap Names(original))
  BY PathCovered, PathIds, PathSize, Zenon DEF PathC!explore_dimension_c, PathC!Explored, PathC!compute_overlap
<1> DEFINE b1 == Len(D) >= Target /\ Full(D, original)
           b2 == Len(A) >= Target /\ Full(A, original)
           b3 == Full(D, original)
           b4 == Len(D) > 0
           x1 == [name |-> "direct", events |-> D]
           x2 == [name |-> "entry_reason", events |-> A]
           x3 == [name |-> "largest", events |-> D]
           x4 == [name |-> "fallback", events |-> Completed(D, original)]
           x5 == [name |-> "original", events |-> original]
           rules == << <<b1, x1>>, <<b2, x2>>, <<b3, x3>>, <<b4, x4>>, <<TRUE, x5>> >>
<1>5. chosen = rules[PathC!Min({i \in 1..5 : rules[i][1]})][2]
  BY <1>3, <1>4, PathRelaxed, PathCovered, PathWith, ZenonT(40) DEF PathC!select_best_strategy, Full
<1>6. x1.events = D /\ x3.events = D /\ x4.events = Completed(D, original) /\ x5.events = original
  OBVIOUS
<1>7. b1 \in BOOLEAN /\ b2 \in BOOLEAN /\ b3 \in BOOLEAN /\ b4 \in BOOLEAN
  BY DEF Full
<1>8. ~b1 => ~b2
  BY <1>2, RelaxedNeverFirst
<1> HIDE DEF b1, b2, b3, b4, x1, x2, x3, x4, x5, chosen
<1>9. rules = << <<b1, x1>>, <<b2, x2>>, <<b3, x3>>, <<b4, x4>>, <<TRUE, x5>> >>
  OBVIOUS
<1> HIDE DEF rules
<1>10. /\ (rules[1][1] <=> b1) /\ (rules[2][1] <=> b2) /\ (rules[3][1] <=> b3) /\ (rules[4][1] <=> b4) /\ rules[5][1]
       /\ rules[1][2] = x1 /\ rules[2][2] = x2 /\ rules[3][2] = x3 /\ rules[4][2] = x4 /\ rules[5][2] = x5
  BY <1>9
<1>11. PICK m \in 1..5 : /\ rules[m][1] /\ \A j \in 1..5 : rules[j][1] => m <= j
                         /\ chosen = rules[m][2]
  BY <1>5, <1>10, ChosenByRule, Zenon
<1>12. 1 \in 1..5 /\ 2 \in 1..5 /\ 3 \in 1..5 /\ 4 \in 1..5
  OBVIOUS
<1>13. (b1 => m <= 1) /\ (b4 => m <= 4)
  BY <1>10, <1>11, <1>12, Zenon
<1>14. \/ b1 /\ chosen = x1
       \/ ~b1 /\ b2 /\ chosen = x2
       \/ b3 /\ chosen = x3
       \/ b4 /\ chosen = x4
       \/ ~b4 /\ chosen = x5
  <2>1. CASE m = 1
    <3>1. rules[m] = rules[1]
      BY <2>1
    <3>2. rules[1][1] /\ chosen = rules[1][2]
      BY <1>11, <3>1, Zenon
    <3>3. QED
      BY <1>10, <3>2
  <2>2. CASE m = 2
    <3>1. ~(m <= 1)
      BY <2>2
    <3>2. rules[m] = rules[2]
      BY <2>2
    <3>3. rules[2][1] /\ chosen = rules[2][2]
      BY <1>11, <3>2, Zenon
    <3>4. QED
      BY <1>10, <1>13, <3>1, <3>3
  <2>3. CASE m = 3
    <3>1. rules[m] = rules[3]
      BY <2>3
    <3>2. rules[3][1] /\ chosen = rules[3][2]
      BY <1>11, <3>1, Zenon
    <3>3. QED
      BY <1>10, <3>2
  <2>4. CASE m = 4
    <3>1. rules[m] = rules[4]
      BY <2>4
    <3>2. rules[4][1] /\ chosen = rules[4][2]
      BY <1>11, <3>1, Zenon
    <3>3. QED
      BY <1>10, <3>2
  <2>5. CASE m = 5
    <3>1. ~(m <= 4)
      BY <2>5
    <3>2. rules[m] = rules[5]
      BY <2>5
    <3>3. rules[5][1] /\ chosen = rules[5][2]
      BY <1>11, <3>2, Zenon
    <3>4. QED
      BY <1>10, <1>13, <3>1, <3>3
  <2>6. m = 1 \/ m = 2 \/ m = 3 \/ m = 4 \/ m = 5
    BY <1>11
  <2>7. QED
    BY <2>1, <2>2, <2>3, <2>4, <2>5, <2>6
<1>15. \/ chosen.events = D
       \/ chosen.events = Completed(D, original)
       \/ ~(Len(D) > 0) /\ chosen.events = original
  BY <1>6, <1>8, <1>14 DEF b4
<1> HIDE DEF D, S
<1>16. original \in Seq(S)
  BY DEF S
<1>17. Len(Completed(chosen.events, original)) = Len(Completed(D, original))
  BY <1>2, <1>15, <1>16, PoolSize
<1>18. QED
  BY <1>1, <1>17 DEF D

OriginalOf(env) == ByTouch(load_v6_gate_events(env.ledger, env.events))

\* What is inductive: the original events are the ones of the environment,
\* the report is the one of their exploration, and the pool is their
\* completion.
PoolInv ==
  /\ PathFields \subseteq DOMAIN s
  /\ s.env \in PathEnvironments
  /\ s.at # "original" => s.original = OriginalOf(s.env)
  /\ s.at \notin {"original", "gate"} =>
       s.gate[1].n = Len(Completed(Covered(s.env.events), OriginalOf(s.env)))
  /\ s.at \notin {"original", "gate", "expand"} =>
       s.events = Completed(Covered(s.env.events), OriginalOf(s.env))

LEMMA OriginalFacts ==
  ASSUME NEW env \in PathEnvironments
  PROVE  OriginalOf(env) \in Seq(Range(env.events)) /\ Unique(OriginalOf(env))
<1> DEFINE S == Range(env.events)
           R == Range(env.ledger)
           q == load_v6_gate_events(env.ledger, env.events)
<1>1. env.ledger \in Seq(R) /\ env.events \in Seq(S) /\ (\A r \in R : r.time \in Int) /\ (\A e \in S : e.touch \in Int)
  BY PathFiles
<1> HIDE DEF R, S
<1>2. q \in Seq(S) /\ Unique(q)
  BY <1>1, LoadType
<1> HIDE DEF q
<1>3. ByTouch(q) \in Seq(S) /\ Unique(ByTouch(q))
  BY <1>2, ByTouchType, ByTouchUnique
<1>4. QED
  BY <1>3 DEF OriginalOf, q, S

LEMMA PoolInvInit == PathC!Init => PoolInv
BY DEF PathC!Init, PoolInv, PathFields

LEMMA PoolInvEarly ==
  ASSUME PoolInv, PathC!LoadOriginal \/ PathC!ExploreGate \/ PathC!LoadExpanded
  PROVE  PoolInv'
<1>1. PathFields \subseteq DOMAIN s /\ s.env \in PathEnvironments
  BY DEF PoolInv
<1>2. CASE PathC!LoadOriginal
  <2>1. s' = [s EXCEPT !.at = "gate", !.original = OriginalOf(s.env)]
    BY <1>2, PathLoad, PathByTouch, Zenon DEF PathC!LoadOriginal, OriginalOf
  <2>2. DOMAIN s' = DOMAIN s /\ s'.at = "gate" /\ s'.original = OriginalOf(s.env) /\ s'.env = s.env
    BY <1>1, <2>1 DEF PathFields
  <2>3. QED
    BY <1>1, <2>2 DEF PoolInv
<1>3. CASE PathC!ExploreGate
  <2> DEFINE g == PathC!explore_gate_relaxation(s.original, s.env)
  <2>1. s.original = OriginalOf(s.env)
    BY <1>3 DEF PathC!ExploreGate, PoolInv
  <2>2. g.n = Len(Completed(Covered(s.env.events), OriginalOf(s.env)))
    BY <1>1, <2>1, OriginalFacts, ReportedSize
  <2>3. s' = [s EXCEPT !.at = "expand", !.gate = <<g>>]
    BY <1>3 DEF PathC!ExploreGate
  <2> HIDE DEF g
  <2>4. DOMAIN s' = DOMAIN s /\ s'.at = "expand" /\ s'.gate[1] = g /\ s'.original = s.original /\ s'.env = s.env
    BY <1>1, <2>3 DEF PathFields
  <2>5. QED
    BY <1>1, <2>1, <2>2, <2>4 DEF PoolInv
<1>4. CASE PathC!LoadExpanded
  <2> DEFINE pool == PathC!load_expanded_events(s.original, s.env.events)
  <2>1. s.at = "expand" /\ s.original = OriginalOf(s.env)
    BY <1>4 DEF PathC!LoadExpanded, PoolInv
  <2>2. pool = Completed(Covered(s.env.events), OriginalOf(s.env))
    BY <2>1, PathWith, PathCovered DEF PathC!load_expanded_events
  <2>3. \E cache : s' = [s EXCEPT !.at = "simulate", !.events = pool, !.cache = cache]
    BY <1>4, Zenon DEF PathC!LoadExpanded
  <2> HIDE DEF pool
  <2>4. /\ DOMAIN s' = DOMAIN s /\ s'.at = "simulate" /\ s'.events = pool /\ s'.original = s.original
        /\ s'.env = s.env /\ s'.gate = s.gate
    BY <1>1, <2>3 DEF PathFields
  <2>5. QED
    BY <1>1, <2>1, <2>2, <2>4 DEF PoolInv
<1>5. QED
  BY <1>2, <1>3, <1>4

\* The steps after the pool is loaded leave it alone.
LEMMA PoolInvLate ==
  ASSUME PoolInv, \/ PathC!run_multi_delay_simulation \/ PathC!Label \/ PathC!Train
                  \/ PathC!Compare \/ PathC!Check \/ PathC!Report
  PROVE  PoolInv'
<1>1. PathFields \subseteq DOMAIN s /\ s.env \in PathEnvironments
  BY DEF PoolInv
<1>2. /\ s.at \notin {"original", "gate", "expand"} /\ s'.at \notin {"original", "gate", "expand"}
      /\ DOMAIN s' = DOMAIN s /\ s'.env = s.env /\ s'.original = s.original /\ s'.gate = s.gate /\ s'.events = s.events
  <2>1. CASE PathC!run_multi_delay_simulation
    BY <1>1, <2>1 DEF PathC!run_multi_delay_simulation, PathFields
  <2>2. CASE PathC!Label
    BY <1>1, <2>2 DEF PathC!Label, PathFields
  <2>3. CASE PathC!Train
    BY <1>1, <2>3 DEF PathC!Train, PathC!TrainedOn, PathFields
  <2>4. CASE PathC!Compare
    BY <1>1, <2>4 DEF PathC!Compare, PathFields
  <2>5. CASE PathC!Check
    BY <1>1, <2>5 DEF PathC!Check, PathFields
  <2>6. CASE PathC!Report
    BY <1>1, <2>6 DEF PathC!Report, PathFields
  <2>7. QED
    BY <2>1, <2>2, <2>3, <2>4, <2>5, <2>6
<1>3. QED
  BY <1>1, <1>2 DEF PoolInv

LEMMA PoolOfInv == PoolInv /\ study = "path" => PoolIsTheOneReported
<1>1. SUFFICES ASSUME PoolInv, s.at \notin {"original", "gate", "expand"}
               PROVE  /\ Len(s.events) = s.gate[1].n
                      /\ PathC!Ids(s.original) \subseteq PathC!Ids(s.events)
                      /\ Cardinality(PathC!Ids(s.events)) = Len(s.events)
  BY DEF PoolIsTheOneReported
<1> DEFINE S == Range(s.env.events)
           D == Covered(s.env.events)
           O == OriginalOf(s.env)
           P == Completed(D, O)
<1>2. s.env \in PathEnvironments /\ s.original = O /\ s.gate[1].n = Len(P) /\ s.events = P
  BY <1>1 DEF PoolInv
<1>3. O \in Seq(S) /\ D \in Seq(S) /\ Unique(D)
  BY <1>2, OriginalFacts, PoolFacts
<1> HIDE DEF O, D, S
<1>4. P \in Seq(S) /\ Names(O) \subseteq Names(P) /\ Unique(P)
  BY <1>3, CompletedFacts
<1> HIDE DEF P
<1>5. Cardinality(Names(P)) = Len(P)
  BY <1>4, SizeOfNames
<1>6. QED
  BY <1>2, <1>4, <1>5, PathIds

\* Of the study of path_c_unified, whatever its ledger, its events with names
\* of their own, its cache and its bounds: the pool load_expanded_events
\* computes a second time has as many events as the exploration reported for
\* the strategy it chose, holds every original event, and none twice.  The
\* rules never choose the relaxed entries, for the direct pool holds them all.
THEOREM ThePoolIsTheOneReported == TimingSpec => []PoolIsTheOneReported
<1> DEFINE Inv == study = "path" => PoolInv
<1>1. TimingInit => Inv
  BY PoolInvInit DEF TimingInit
<1>2. Inv /\ [TimingNext]_<<study, s>> => Inv'
  <2>1. SUFFICES ASSUME Inv, [TimingNext]_<<study, s>>, study' = "path" PROVE PoolInv'
    OBVIOUS
  <2>2. study = "path" /\ PoolInv /\ (PathC!Next \/ s' = s)
    BY <2>1 DEF TimingNext
  <2>3. CASE s' = s
    BY <2>2, <2>3 DEF PoolInv
  <2>4. CASE PathC!Next
    BY <2>2, <2>4, PoolInvEarly, PoolInvLate DEF PathC!Next
  <2>5. QED
    BY <2>2, <2>3, <2>4
<1>3. Inv => PoolIsTheOneReported
  <2>1. CASE study = "path"
    BY <2>1, PoolOfInv
  <2>2. CASE study # "path"
    BY <2>2 DEF PoolIsTheOneReported
  <2>3. QED
    BY <2>1, <2>2
<1>4. QED
  BY <1>1, <1>2, <1>3, PTL DEF TimingSpec

=============================================================================
