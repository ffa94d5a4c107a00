--------------------------- MODULE TimingStudies ---------------------------
(***************************************************************************)
(* The four timing studies of research/entry_redesign/scripts, and what    *)
(* they promise: "study" names the one that runs, s is its state.  The     *)
(* first is extended, the others are instances.                            *)
(***************************************************************************)
EXTENDS DynamicStudy, TLC

CONSTANTS
  Step, PullbackWindow, PullbackGrid, Candidates, Tolerance,  \* DelayStudy
  FeatureTiming, KnownSum, PreEnvironments,               \* PreBreakout
  CacheStart, CacheEnd, Target, Enough, GoFloor, GoStrong, GoLower, Drift,
  Degraded, PathEnvironments,                             \* PathC
  VolumeBars, HalfHour, MinVolatility, Day, Pattern, Consistency, Minute,
  MinSeconds, Period, HourOf,                             \* EnhancedFeatures
  ExpectedRows, Strong, MarginalSum, RefineEnvironments   \* Refinement

VARIABLE study

Pre == INSTANCE PreBreakout WITH Environments <- PreEnvironments, Timing <- FeatureTiming
PathC == INSTANCE PathC WITH Environments <- PathEnvironments
Refine == INSTANCE Refinement WITH Environments <- RefineEnvironments, Marginal <- MarginalSum

ASSUME PreAssumption == Step \in Int /\ \A env \in PreEnvironments : AreInputs(env)

\* A row of the matrix has the return of its trade or none, and the earlier
\* study reported a sum.
ASSUME RefineAssumption ==
  \A env \in RefineEnvironments :
    /\ IsSequence(env.ledger) /\ IsSequence(env.events)
    /\ \A r \in Range(env.ledger) : r.time \in Int
    /\ \A e \in Range(env.events) : e.touch \in Int
    /\ env.matrix # None =>
         /\ IsSequence(env.matrix[1])
         /\ \A r \in Range(env.matrix[1]) :
              "trade" \in DOMAIN r /\ (r.trade # None => r.trade.realistic \in Int)
    /\ env.legacy # None => env.legacy[1].best.test \in Int

\* The events of a file have names of their own.
ASSUME PathAssumption ==
  /\ Target \in Int
  /\ \A env \in PathEnvironments :
       /\ IsSequence(env.ledger) /\ IsSequence(env.events) /\ Unique(env.events)
       /\ \A r \in Range(env.ledger) : r.time \in Int
       /\ \A e \in Range(env.events) : e.touch \in Int

TimingInit == \/ study = "dynamic" /\ Init
              \/ study = "pre" /\ Pre!Init
              \/ study = "path" /\ PathC!Init
              \/ study = "refine" /\ Refine!Init
TimingNext == /\ \/ study = "dynamic" /\ Next
                 \/ study = "pre" /\ Pre!Next
                 \/ study = "path" /\ PathC!Next
                 \/ study = "refine" /\ Refine!Next
              /\ UNCHANGED study
TimingSpec == TimingInit /\ [][TimingNext]_<<study, s>>

(* The two programs that trade the second delay agree on the later events: *)
(* the one that splits by identity (run_delay_simulation.py:285) and the   *)
(* one that splits by position (pre_breakout_timing_runner.py:674); and    *)
(* every result of the second is one of the event in its place.            *)
ProgramsAgree ==
  (study = "pre" /\ s.at = "check") =>
    /\ s.matrix[1].m.test["D5"] = s.applied[1].base_sum
    /\ \A i \in 1..Len(s.applied[1].results) :
          s.applied[1].results[i].id = s.events[s.split + i].id

(* The learner that is taken lost nothing by its depth: no other depth and *)
(* no other learner scored more when each row was left out                 *)
(* (timing_classifier.py:501, pre_breakout_timing_runner.py:538).          *)
ChosenLearnerIsBest ==
  (study = "pre" /\ s.at = "check") =>
    \A k \in {"DecisionTree", "RandomForest"} \X (3..5) :
      Pre!loocv_calendar_sum_inline(s.env.rules[k], Pre!KeptX, Pre!KeptY, Pre!KeptResults) <= s.best[1].loocv

(* The pool that is traded is the one the exploration reported, although   *)
(* it is computed apart from the chosen strategy (path_c_runner.py:218,    *)
(* gate_explorer.py:603): as many events, every original one among them,   *)
(* none twice.                                                             *)
PoolIsTheOneReported ==
  (study = "path" /\ s.at \notin {"original", "gate", "expand"}) =>
    /\ Len(s.events) = s.gate[1].n
    /\ PathC!Ids(s.original) \subseteq PathC!Ids(s.events)
    /\ Cardinality(PathC!Ids(s.events)) = Len(s.events)

(* The tree of depth three that is judged is the one that is compared with *)
(* the other depths, though its features are made a second time without    *)
(* the test rows (path_c_runner.py:395); and the trades the checks resample*)
(* are the ones whose sum is reported.                                     *)
OneTreeIsJudged ==
  (study = "path" /\ s.at \in {"report", "end"}) =>
    /\ s.depths[1].by_depth[3] = s.training[1].loocv
    /\ PathC!compute_calendar_sum(s.resolved) = s.training[1].test

(* A feature of an event is the same without the bars at and after the     *)
(* touch, but for the two of the volume, which read the bar at the touch   *)
(* and the other events (enhanced_features.py:1046, :788, :990, :1158).    *)
FeaturesArePointInTime ==
  (study = "refine" /\ s.at = "arms") =>
    \A i \in 1..Len(s.events), g \in {2, 3, 4, 5, 6} :
      LET e == s.events[i]
          Past(cache) == [k \in DOMAIN cache |-> SelectSeq(cache[k], LAMBDA b : b.t < e.touch)]
          group == Refine!Groups[g][1]
          again == Refine!Computed(group, <<e>>, Past(s.cache), Past(s.extended))[1]
      IN group \notin s.env.broken \cup {"volume"} =>
           \A f \in DOMAIN again : again[f] = s.extracted[1].rows[i][f]

(* The trades the checks resample are the ones the best arm was chosen     *)
(* for, though its rows are put together and its learner fitted a second   *)
(* time (refinement_runner.py:607, arm_runner.py:465).                     *)
ChecksRepeatTheArm ==
  (study = "refine" /\ s.at \in {"report", "end"}) =>
    LET best == Refine!BestArm(s.arms)
    IN best.config.name # "Baseline" => Refine!compute_calendar_sum(s.resolved) = best.test

============================================================================
