--------------------------- MODULE EntryPipeline ---------------------------
(***************************************************************************)
(* scheduler/run_default_subset.py driving scheduler/pipeline.py: the      *)
(* baseline first, then every candidate, one EntryRedesignPipeline.run per *)
(* candidate with its early returns, the files it leaves behind in order,  *)
(* and the reports and exit status of the whole run.                       *)
(*                                                                         *)
(* The state is one record s.  Its field env is what the run finds: the    *)
(* input files, the digest of the gate snapshot, the months the events     *)
(* file covers, whether an events loader is given and the figures of the   *)
(* gate.  The loader (EventsLoader) is a protocol without implementation:  *)
(* the events it hands out are any events of the walk-forward month.       *)
(***************************************************************************)
EXTENDS EntryReports

CONSTANTS
    Candidates,    \* sequences of specifications a run may scan
    Events,        \* what an event may be, its symbol and month aside
    Environments,
    MaxBaseline,   \* bound: events of the baseline's walk-forward
    MaxEvents      \* bound: events of a whole run

\* The axes of a candidate are those of EntryCandidateSpec, valid or not.
ASSUME CandidatesAssumption == Candidates \subseteq Seq(EntryCandidateSpec)

\* An event is the tape of its seconds and its figures.
ASSUME EventsAssumption == Events \subseteq Tape

VARIABLE s

FirstMonth == Min(Months)

(* The calendar: two months of training, one of validation, then the month *)
(* executed.  Windows are half-open.                                       *)
TRAIN == 2
VALIDATION == 1
Split(m) == [train |-> <<m - TRAIN - VALIDATION, m - VALIDATION>>,
             validation |-> <<m - VALIDATION, m>>, execute |-> <<m, m + 1>>]
iter_splits == {Split(m) : m \in Months}

Required(split) == split.train[1]..(split.validation[2] - 1)
check_data_availability(split, covered) == Required(split) \subseteq covered

HistoryOk(env) == \A x \in iter_splits : check_data_availability(x, env.covered)

(* Gate snapshot: a missing file matters only when a digest is expected.   *)
load_gate_snapshot(env) ==
    IF env.snapshot = "missing" THEN (IF env.expected THEN "refused" ELSE "unavailable")
    ELSE IF env.expected /\ env.snapshot = "differs" THEN "refused" ELSE "loaded"

----------------------------------------------------------------------------
Init ==
    \E env \in Environments, plan \in Candidates :
        s = [at |-> "start", env |-> env, todo |-> plan, spec |-> BASELINE, rows |-> << >>,
             month |-> FirstMonth, seen |-> 0, summary |-> << >>, files |-> {}, results |-> << >>,
             baseline |-> "unknown", baseRows |-> << >>, ranking |-> << >>, markdown |-> {},
             exit |-> -1]

Id == generate_candidate_id(s.spec)
Written(kinds) == s.files \cup {<<Id, k>> : k \in kinds}

(* The writers.  An abort or a rejection is written under a reason of a    *)
(* fixed list; the ledger, the summary, the attribution and the snapshot   *)
(* replace the file of an earlier run of the same candidate.               *)
VALID_ABORT_REASONS == {"parameter_mismatch", "insufficient_walkforward_history",
                        "invariant_violation", "io_error"}
write_aborted(reason) == IF reason \in VALID_ABORT_REASONS THEN Written({"aborted"}) ELSE s.files

reject_reason(spec) == IF validate(spec) = "H_gt_D" THEN "H_gt_D" ELSE "token_mapping_error"
write_rejected(reason) ==
    IF reason \in {"H_gt_D", "token_mapping_error"} THEN Written({"rejected"}) ELSE s.files

write_ledger == Written({"ledger"})
write_summary == Written({"summary"})
write_attribution == Written({"attribution"})
write_snapshot(extra) == Written({"snapshot"} \cup extra)

(* Both inputs are digested before anything else; a missing one ends the   *)
(* run with 1.                                                             *)
Start ==
    /\ s.at = "start"
    /\ s' = IF s.env.inputs THEN [s EXCEPT !.at = "validate"]
            ELSE [s EXCEPT !.at = "end", !.exit = 1]

(* A finished pipeline run: its result is the baseline's or the            *)
(* candidate's, and the next candidate is taken up.                        *)
Return(status, files) ==
    LET base == s.baseline = "unknown"
        result == [spec |-> s.spec, id |-> Id, status |-> status, summary |-> s.summary]
    IN s' = [s EXCEPT
            !.at = "next", !.files = files, !.rows = << >>, !.summary = << >>,
            !.baseline = IF base THEN status ELSE @,
            !.baseRows = IF base /\ status = "completed" THEN s.rows ELSE @,
            !.results = IF base THEN <<result>> ELSE Append(@, result)]

Validated == validate(s.spec) = "ok"

handle_reject ==
    /\ s.at = "validate" /\ ~Validated
    /\ Return("rejected", write_rejected(reject_reason(s.spec)))

LoadGate ==
    /\ s.at = "validate" /\ Validated
    /\ IF load_gate_snapshot(s.env) = "refused" THEN Return("aborted", write_aborted("parameter_mismatch"))
       ELSE s' = [s EXCEPT !.at = "history"]

CheckHistory ==
    /\ s.at = "history"
    /\ IF HistoryOk(s.env)
       THEN s' = [s EXCEPT !.at = "walk", !.month = FirstMonth]
       ELSE Return("aborted", write_aborted("insufficient_walkforward_history"))

(* One event of the month under execution.                                 *)
WalkEvent ==
    /\ s.at = "walk" /\ s.env.loader /\ s.month \in Months
    /\ s.seen < IF s.baseline = "unknown" THEN MaxBaseline ELSE MaxEvents
    /\ \E e \in Events, x \in Symbols :
         LET ev == [bars |-> e.bars, side |-> e.side, pre |-> e.pre, hours |-> e.hours,
                    volume |-> e.volume, raw |-> e.raw, notional |-> e.notional,
                    symbol |-> x, month |-> s.month]
         IN s' = [s EXCEPT !.rows = @ \o RowsOf(s.spec, ev, s.env.metrics), !.seen = @ + 1]

WalkMonth ==
    /\ s.at = "walk" /\ s.month \in Months
    /\ s' = [s EXCEPT !.month = @ + 1]

(* The ledger is written, sorted by trigger; then summary and counters.    *)
WriteLedger ==
    /\ s.at = "walk" /\ s.month \notin Months
    /\ s' = [s EXCEPT !.at = "summary", !.files = write_ledger]

WriteSummary ==
    /\ s.at = "summary"
    /\ LET summary == build_summary(s.rows, s.baseRows)
       IN /\ validate_top_level_fields(summary)
          /\ s' = [s EXCEPT !.at = "attribution", !.files = write_summary,
                            !.summary = [report |-> summary, violations |-> check(s.rows, summary)]]

(* A figure that is not finite raises out of the pipeline and the script.  *)
\* Mutant: the error of the writer is swallowed.
WriteAttribution_swallow ==
    /\ s.at = "attribution"
    /\ IF AttributionWritable(build_attribution_rows(s.rows, s.spec))
       THEN s' = [s EXCEPT !.at = "snapshot", !.files = write_attribution]
       ELSE s' = [s EXCEPT !.at = "snapshot"]

WriteAttribution ==
    /\ s.at = "attribution"
    /\ IF AttributionWritable(build_attribution_rows(s.rows, s.spec))
       THEN s' = [s EXCEPT !.at = "snapshot", !.files = write_attribution]
       ELSE s' = [s EXCEPT !.at = "end", !.exit = 1]

(* A candidate with both touch gates also gets two ablation ledgers.       *)
Ablations(spec) ==
    IF spec.pre # "none" /\ spec.post[1] # "none" THEN {"pretouch_only", "posttouch_only"} ELSE {}

WriteSnapshot ==
    /\ s.at = "snapshot"
    /\ Return("completed", write_snapshot(Ablations(s.spec)))

(* The script asks for the identifier of a candidate before anything else: *)
(* one without ends it.  The baseline's own place in the list reuses its   *)
(* result.                                                                 *)
\* Mutant: the baseline's place in the list is not passed over.
NextCandidate_stuck ==
    /\ s.at = "next" /\ s.todo # << >>
    /\ s' = IF Head(s.todo) = BASELINE THEN s
            ELSE [s EXCEPT !.at = "validate", !.spec = Head(s.todo), !.todo = Tail(@)]

NextCandidate ==
    /\ s.at = "next" /\ s.todo # << >>
    /\ s' = IF ~HasId(Head(s.todo)) THEN [s EXCEPT !.at = "end", !.todo = Tail(@), !.exit = 1]
            ELSE IF Head(s.todo) = BASELINE THEN [s EXCEPT !.todo = Tail(@)]
            ELSE [s EXCEPT !.at = "validate", !.spec = Head(s.todo), !.todo = Tail(@)]

(* Ranking: completed candidates whose quality is not null, by return,     *)
(* then quality; a summary that is not finite cannot be read back.  Those  *)
(* equal in both, which the report lists by identifier, share a place.     *)
Ranked(r) ==
    /\ r.status = "completed"
    /\ r.summary.report.metrics["nogate"].quality # << >>
    /\ r.summary.report.metrics["nogate"].finite

Better(a, b) ==
    LET x == a.summary.report.metrics["nogate"] y == b.summary.report.metrics["nogate"]
    IN \/ x.silo_sum > y.silo_sum
       \/ x.silo_sum = y.silo_sum /\ x.quality[1] * y.quality[2] > y.quality[1] * x.quality[2]

collect_ranking_candidates == {i \in DOMAIN s.results : Ranked(s.results[i])}

Place(i) ==
    1 + Cardinality({j \in collect_ranking_candidates : Better(s.results[j], s.results[i])})

write_per_candidate_markdown(r) == IF r.status = "completed" THEN {r.id} ELSE {}

Finish ==
    /\ s.at = "next" /\ s.todo = << >>
    /\ s' = [s EXCEPT !.at = "end", !.exit = 0,
                      !.ranking = [i \in collect_ranking_candidates |-> Place(i)],
                      !.markdown = UNION {write_per_candidate_markdown(s.results[i]) :
                                              i \in DOMAIN s.results}]

Next ==
    \/ Start \/ handle_reject \/ LoadGate \/ CheckHistory \/ WalkEvent \/ WalkMonth
    \/ WriteLedger \/ WriteSummary \/ WriteAttribution \/ WriteSnapshot \/ NextCandidate \/ Finish

============================================================================
