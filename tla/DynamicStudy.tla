---------------------------- MODULE DynamicStudy ----------------------------
(***************************************************************************)
(* What the dynamic timing study is given and what it promises.            *)
(***************************************************************************)
EXTENDS DynamicTiming

(* What the inputs of the dynamic study are: whole numbers, bars whose     *)
(* close lies between their low and their high, and lists of thresholds of *)
(* which the second search's hold the defaults                             *)
(* (dynamic_entry_timing_runner.py:450 and :550, regime_classifier.py:31). *)
Candles == {b \in [t : Int, o : Int, h : Int, l : Int, c : Int] : b.l <= b.c /\ b.c <= b.h}
IsTouch(e) == e.touch \in Int /\ e.atr \in Int /\ e.low \in Int /\ e.high \in Int
IsSequence(q) == q \in Seq(Range(q))
Unique(q) == \A i, j \in 1..Len(q) : q[i].id = q[j].id => i = j

\* A stop trails from a gain at which it protects already.
ASSUME ExecutionAssumption ==
  Interval \in Nat /\ MaxHold \in Int /\ TrailStart \in Int /\ TrailStart >= Exec.breakeven_at_r

AreInputs(env) ==
  /\ IsSequence(env.ledger) /\ IsSequence(env.events)
  /\ \A r \in Range(env.ledger) : r.time \in Int
  /\ \A e \in Range(env.events) : IsTouch(e)
  /\ \A k \in DOMAIN env.files : env.files[k] \in Seq(Candles)

ASSUME InputsAssumption == \A env \in Environments : AreInputs(env)

AreLists(lists) ==
  /\ IsSequence(lists)
  /\ \A list \in Range(lists) :
       /\ IsSequence(list[2]) /\ list[2] # << >> /\ list[1] \in DOMAIN DefaultParams
       /\ list[1] = "max_steps" => Range(list[2]) \subseteq Nat

ASSUME ListsAssumption ==
  /\ AreLists(Layer1) /\ AreLists(Layer2)
  /\ DefaultParams = [f \in DOMAIN DefaultParams |-> DefaultParams[f]]
  /\ "max_steps" \in DOMAIN DefaultParams /\ DefaultParams.max_steps \in Nat
  /\ \A list \in Range(Layer2) :
       /\ DefaultParams[list[1]] \in Range(list[2])
       /\ \A other \in Range(Layer1) : other[1] # list[1]

DynamicSpec == Init /\ [][Next]_s

UpTo(bars, time) == Where(bars, LAMBDA b : b.t <= time)

(* What is decided for an event, and where it is entered, is the same on   *)
(* the bars up to the entry as on all of them: no look reads a later bar   *)
(* (feature_engine.py:66, dynamic_entry_timing_runner.py:101).             *)
TimingIsCausal ==
  s.at = "analyse" =>
    \A i \in 1..Len(s.test) :
      LET e == s.test[i] r == s.eval[1].dynamic[i]
          again == TimeOne(UpTo(Bars(s.cache, e), r.entry[1]), e, s.best[1].params)
      IN r.entry # None => again.entry = r.entry /\ again.decision = r.decision
                                   /\ again.regime = r.regime

(* A trade loses at most its risk and the costs, and one that leaves by a  *)
(* stop that was moved to protect it never loses (execution_sim.py:195).   *)
ProtectedTradesPay ==
  s.at = "analyse" =>
    \A rs \in {s.eval[1].dynamic, s.eval[1].baselines.a, s.eval[1].baselines.c} :
      \A i \in 1..Len(rs) :
        LET t == rs[i].trade
        IN t # None =>
             /\ t.realistic >= -(t.risk + 2 + 6)
             /\ t.reason \in {"BreakevenSL", "TrailingSL"} => t.realistic > 0

(* Each search ends with the best of all it tried, and the second one      *)
(* never with less than the first one reached                              *)
(* (dynamic_entry_timing_runner.py:489 and :599).                          *)
SearchKeepsBest ==
  s.at = "evaluate" =>
    /\ s.best[1].score >= s.layer1[1].score
    /\ \A i \in 1..Len(Combos(Layer1, DefaultParams)) :
          Score(Combos(Layer1, DefaultParams)[i]) <= s.layer1[1].score
    /\ LET all == Combos(Layer2, s.layer1[1].params)
       IN \A i \in 1..Len(all) : Score(all[i]) <= s.best[1].score
=============================================================================
