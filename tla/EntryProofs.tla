------------------------------ MODULE EntryProofs ------------------------------
(***************************************************************************)
(* Proofs about the entry-redesign harness, for every list of candidates,  *)
(* every set of events and every environment: what a candidate's files     *)
(* tell, what a ledger row may depend on, and that the checker and the     *)
(* assertions of the test suite agree.                                     *)
(***************************************************************************)
EXTENDS MCEntry, FiniteSetTheorems, TLAPS

Fields == {"at", "env", "todo", "spec", "rows", "month", "seen", "summary", "files", "results",
           "baseline", "baseRows", "ranking", "markdown", "exit"}

\* What s' must be after the end of one candidate's run.
LEMMA ReturnEffect ==
  ASSUME NEW status, NEW files, DOMAIN s = Fields, Return(status, files)
  PROVE  LET result == [spec |-> s.spec, id |-> Id, status |-> status, summary |-> s.summary]
         IN /\ DOMAIN s' = Fields
            /\ s'.at = "next" /\ s'.files = files /\ s'.rows = << >> /\ s'.spec = s.spec
            /\ s'.env = s.env /\ s'.todo = s.todo /\ s'.ranking = s.ranking
            /\ s'.markdown = s.markdown
            /\ s'.results = IF s.baseline = "unknown" THEN <<result>> ELSE Append(s.results, result)
BY DEF Return, Fields

------------------------------------------------------------------------------
(* What a candidate's run leaves behind                                     *)

\* How the run of a candidate ends is settled by its axes and the environment.
Status(spec, env) ==
  IF validate(spec) # "ok" THEN "rejected"
  ELSE IF load_gate_snapshot(env) = "refused" \/ ~HistoryOk(env) THEN "aborted"
  ELSE "completed"

\* The files it leaves then.
Kinds(spec, env) ==
  IF Status(spec, env) = "rejected" THEN {"rejected"}
  ELSE IF Status(spec, env) = "aborted" THEN {"aborted"}
  ELSE {"ledger", "summary", "attribution", "snapshot"} \cup Ablations(spec)

FilesOf(spec, env) == {<<generate_candidate_id(spec), k>> : k \in Kinds(spec, env)}

\* Candidates of one identifier are one candidate, or are both rejected.
LEMMA SameId ==
  ASSUME NEW x \in EntryCandidateSpec, NEW y \in EntryCandidateSpec, NEW env,
         generate_candidate_id(x) = generate_candidate_id(y)
  PROVE  Status(x, env) = Status(y, env) /\ Kinds(x, env) = Kinds(y, env)
<1>1. CASE HasId(x) /\ HasId(y)
  <2>1. <<x.D, x.H, x.tc, x.ep, x.pre, x.post>> = <<y.D, y.H, y.tc, y.ep, y.pre, y.post>>
    BY <1>1 DEF generate_candidate_id
  <2>2. x = y
    BY <2>1 DEF EntryCandidateSpec
  <2>3. QED
    BY <2>2
<1>2. CASE ~HasId(x) /\ ~HasId(y)
  <2>1. validate(x) # "ok" /\ validate(y) # "ok"
    BY <1>2 DEF HasId, validate
  <2>2. Status(x, env) = "rejected" /\ Status(y, env) = "rejected"
    BY <2>1 DEF Status
  <2>3. QED
    BY <2>2 DEF Kinds
<1>3. CASE (HasId(x) /\ ~HasId(y)) \/ (~HasId(x) /\ HasId(y))
  <2>1. \A z \in EntryCandidateSpec : <<z.D, z.H, z.tc, z.ep, z.pre, z.post>> # <<"unknown_rejected">>
    OBVIOUS
  <2>2. QED
    BY <1>3, <2>1 DEF generate_candidate_id
<1>4. QED
  BY <1>1, <1>2, <1>3

\* The record, and the candidates in it.
RecordInv ==
  /\ DOMAIN s = Fields
  /\ s.spec \in EntryCandidateSpec /\ s.todo \in Seq(EntryCandidateSpec)

\* How far the candidate at hand has come.
ProgressInv ==
  /\ s.at = "history" => validate(s.spec) = "ok" /\ load_gate_snapshot(s.env) # "refused"
  /\ s.at \in {"walk", "summary", "attribution", "snapshot"} => Status(s.spec, s.env) = "completed"
  /\ s.at \in {"summary", "attribution", "snapshot"} => <<Id, "ledger">> \in s.files
  /\ s.at \in {"attribution", "snapshot"} => <<Id, "summary">> \in s.files
  /\ s.at = "snapshot" => <<Id, "attribution">> \in s.files

\* r is the result of its candidate, and its files are there.
Settled(r, env, files) ==
  /\ r.spec \in EntryCandidateSpec /\ r.id = generate_candidate_id(r.spec)
  /\ r.status = Status(r.spec, env) /\ FilesOf(r.spec, env) \subseteq files

ResultsInv ==
  /\ \E S : s.results \in Seq(S)
  /\ \A i \in DOMAIN s.results : Settled(s.results[i], s.env, s.files)

\* No file but those a candidate of this environment leaves.
FilesInv == \A f \in s.files : \E x \in EntryCandidateSpec : f \in FilesOf(x, s.env)

ReportsInv ==
  /\ s.at # "end" => s.markdown = {} /\ DOMAIN s.ranking = {}
  /\ \A x \in s.markdown : \E i \in DOMAIN s.results :
       s.results[i].status = "completed" /\ s.results[i].id = x
  /\ \A j \in DOMAIN s.ranking : j \in DOMAIN s.results /\ s.results[j].status = "completed"

DiskInv == RecordInv /\ ProgressInv /\ ResultsInv /\ FilesInv /\ ReportsInv

\* The baseline is a candidate.
LEMMA BaselineIsSpec == BASELINE \in EntryCandidateSpec
BY DEF BASELINE, EntryCandidateSpec, Families, PriceModes, PreBands, PostBands

LEMMA DiskInvInit == Init => DiskInv
<1>1. SUFFICES ASSUME Init PROVE DiskInv
  OBVIOUS
<1>2. PICK env \in Environments, plan \in Candidates :
        s = [at |-> "start", env |-> env, todo |-> plan, spec |-> BASELINE, rows |-> << >>,
             month |-> FirstMonth, seen |-> 0, summary |-> << >>, files |-> {}, results |-> << >>,
             baseline |-> "unknown", baseRows |-> << >>, ranking |-> << >>, markdown |-> {},
             exit |-> -1]
  BY <1>1 DEF Init
<1>3. /\ DOMAIN s = Fields /\ s.at = "start" /\ s.spec = BASELINE /\ s.todo = plan /\ s.files = {}
      /\ s.results = << >> /\ s.ranking = << >> /\ s.markdown = {}
  BY <1>2 DEF Fields
<1>4. RecordInv
  BY <1>3, BaselineIsSpec, CandidatesAssumption DEF RecordInv
<1>5. ResultsInv
  <2>1. << >> \in Seq({})
    OBVIOUS
  <2>2. DOMAIN s.results = {}
    BY <1>3
  <2>3. QED
    BY <1>3, <2>1, <2>2 DEF ResultsInv
<1>6. ReportsInv
  BY <1>3 DEF ReportsInv
<1>7. QED
  BY <1>3, <1>4, <1>5, <1>6 DEF DiskInv, ProgressInv, FilesInv

\* A result behind a sequence.
LEMMA AppendFacts ==
  ASSUME NEW S, NEW q \in Seq(S), NEW x
  PROVE  /\ Append(q, x) \in Seq(S \cup {x})
         /\ DOMAIN Append(q, x) = 1..(Len(q) + 1)
         /\ \A i \in DOMAIN Append(q, x) : \/ i \in DOMAIN q /\ Append(q, x)[i] = q[i]
                                           \/ Append(q, x)[i] = x
<1>1. q \in Seq(S \cup {x}) /\ Len(q) \in Nat
  OBVIOUS
<1>2. QED
  BY <1>1

\* What settled a result still does with more files.
LEMMA SettledGrows ==
  ASSUME NEW r, NEW env, NEW files, NEW more, Settled(r, env, files), files \subseteq more
  PROVE  Settled(r, env, more)
BY DEF Settled

\* The end of a candidate's run, when all its files are there and no others.
LEMMA ReturnKeeps ==
  ASSUME DiskInv, s.at # "end", NEW status, NEW files, Return(status, files),
         status = Status(s.spec, s.env),
         files = s.files \cup FilesOf(s.spec, s.env)
  PROVE  DiskInv'
<1> DEFINE result == [spec |-> s.spec, id |-> Id, status |-> status, summary |-> s.summary]
<1>1. /\ DOMAIN s' = Fields
      /\ s'.at = "next" /\ s'.files = files /\ s'.rows = << >> /\ s'.spec = s.spec
      /\ s'.env = s.env /\ s'.todo = s.todo /\ s'.ranking = s.ranking
      /\ s'.markdown = s.markdown
      /\ s'.results = IF s.baseline = "unknown" THEN <<result>> ELSE Append(s.results, result)
  BY ReturnEffect DEF DiskInv, RecordInv
<1>2. RecordInv'
  BY <1>1 DEF DiskInv, RecordInv
<1>3. ProgressInv'
  BY <1>1 DEF ProgressInv
<1>4. Settled(result, s.env, files)
  BY DEF Settled, Id, DiskInv, RecordInv
<1>5. PICK S : s.results \in Seq(S)
  BY DEF DiskInv, ResultsInv
<1>6. \A i \in DOMAIN s.results : Settled(s.results[i], s.env, files)
  BY SettledGrows DEF DiskInv, ResultsInv
<1> HIDE DEF result
<1>7. ResultsInv'
  <2>1. CASE s.baseline = "unknown"
    <3>1. <<result>> \in Seq({result}) /\ DOMAIN <<result>> = {1} /\ <<result>>[1] = result
      OBVIOUS
    <3>2. s'.results = <<result>>
      BY <1>1, <2>1
    <3>3. QED
      BY <1>1, <1>4, <3>1, <3>2 DEF ResultsInv
  <2>2. CASE s.baseline # "unknown"
    <3>1. s'.results = Append(s.results, result)
      BY <1>1, <2>2
    <3>2. /\ Append(s.results, result) \in Seq(S \cup {result})
          /\ \A i \in DOMAIN Append(s.results, result) :
               \/ i \in DOMAIN s.results /\ Append(s.results, result)[i] = s.results[i]
               \/ Append(s.results, result)[i] = result
      BY <1>5, AppendFacts
    <3>3. QED
      BY <1>1, <1>4, <1>6, <3>1, <3>2 DEF ResultsInv
  <2>3. QED
    BY <2>1, <2>2
<1>8. FilesInv'
  BY <1>1 DEF DiskInv, FilesInv, RecordInv
<1>9. ReportsInv'
  <2>1. s.markdown = {} /\ DOMAIN s.ranking = {}
    BY DEF DiskInv, ReportsInv
  <2>2. QED
    BY <1>1, <2>1 DEF ReportsInv
<1>10. QED
  BY <1>2, <1>3, <1>7, <1>8, <1>9 DEF DiskInv

\* A step that leaves the files, the results and the reports alone.
LEMMA QuietKeeps ==
  ASSUME DiskInv, s.at # "end", RecordInv', ProgressInv',
         s'.env = s.env, s'.files = s.files, s'.results = s.results,
         s'.ranking = s.ranking, s'.markdown = s.markdown
  PROVE  DiskInv'
<1>1. ResultsInv'
  BY DEF DiskInv, ResultsInv
<1>2. FilesInv'
  BY DEF DiskInv, FilesInv
<1>3. ReportsInv'
  BY DEF DiskInv, ReportsInv
<1>4. QED
  BY <1>1, <1>2, <1>3 DEF DiskInv

\* A step that adds one file of the candidate at hand.
LEMMA FileKeeps ==
  ASSUME DiskInv, s.at # "end", RecordInv', ProgressInv', NEW kind \in Kinds(s.spec, s.env),
         s'.env = s.env, s'.files = s.files \cup {<<Id, kind>>}, s'.results = s.results,
         s'.ranking = s.ranking, s'.markdown = s.markdown
  PROVE  DiskInv'
<1>1. s.files \subseteq s'.files /\ <<Id, kind>> \in FilesOf(s.spec, s.env)
  BY DEF FilesOf, Id
<1>2. ResultsInv'
  <2>1. \A i \in DOMAIN s.results : Settled(s.results[i], s.env, s'.files)
    BY <1>1, SettledGrows DEF DiskInv, ResultsInv
  <2>2. QED
    BY <2>1 DEF DiskInv, ResultsInv
<1>3. FilesInv'
  BY <1>1 DEF DiskInv, FilesInv, RecordInv
<1>4. ReportsInv'
  BY DEF DiskInv, ReportsInv
<1>5. QED
  BY <1>2, <1>3, <1>4 DEF DiskInv

\* A candidate that validates, in an environment that lets it run.
LEMMA CompletedKinds ==
  ASSUME NEW spec, NEW env, Status(spec, env) = "completed"
  PROVE  Kinds(spec, env) = {"ledger", "summary", "attribution", "snapshot"} \cup Ablations(spec)
BY DEF Kinds

LEMMA DiskInvStep ==
  ASSUME DiskInv, [Next]_s
  PROVE  DiskInv'
<1>0. DOMAIN s = Fields /\ s.spec \in EntryCandidateSpec /\ s.todo \in Seq(EntryCandidateSpec)
  BY DEF DiskInv, RecordInv
<1>1. CASE Start
  <2>1. CASE s.env.inputs
    <3>1. s.at = "start" /\ s' = [s EXCEPT !.at = "validate"]
      BY <1>1, <2>1 DEF Start
    <3>2. /\ DOMAIN s' = Fields /\ s'.at = "validate" /\ s'.spec = s.spec /\ s'.todo = s.todo
          /\ s'.env = s.env /\ s'.files = s.files /\ s'.results = s.results
          /\ s'.ranking = s.ranking /\ s'.markdown = s.markdown
      BY <1>0, <3>1 DEF Fields
    <3>3. QED
      BY <1>0, <3>1, <3>2, QuietKeeps DEF RecordInv, ProgressInv
  <2>2. CASE ~s.env.inputs
    <3>1. s.at = "start" /\ s' = [s EXCEPT !.at = "end", !.exit = 1]
      BY <1>1, <2>2 DEF Start
    <3>2. /\ DOMAIN s' = Fields /\ s'.at = "end" /\ s'.spec = s.spec /\ s'.todo = s.todo
          /\ s'.env = s.env /\ s'.files = s.files /\ s'.results = s.results
          /\ s'.ranking = s.ranking /\ s'.markdown = s.markdown
      BY <1>0, <3>1 DEF Fields
    <3>3. QED
      BY <1>0, <3>1, <3>2, QuietKeeps DEF RecordInv, ProgressInv
  <2>3. QED
    BY <2>1, <2>2
<1>2. CASE handle_reject
  <2>1. s.at = "validate" /\ validate(s.spec) # "ok"
        /\ Return("rejected", write_rejected(reject_reason(s.spec)))
    BY <1>2 DEF handle_reject, Validated
  <2>2. Status(s.spec, s.env) = "rejected" /\ FilesOf(s.spec, s.env) = {<<Id, "rejected">>}
    BY <2>1 DEF Status, Kinds, FilesOf, Id
  <2>3. write_rejected(reject_reason(s.spec)) = s.files \cup {<<Id, "rejected">>}
    BY DEF write_rejected, reject_reason, Written
  <2>4. QED
    BY <2>1, <2>2, <2>3, ReturnKeeps
<1>3. CASE LoadGate
  <2>1. s.at = "validate" /\ validate(s.spec) = "ok"
    BY <1>3 DEF LoadGate, Validated
  <2>2. CASE load_gate_snapshot(s.env) = "refused"
    <3>1. Return("aborted", write_aborted("parameter_mismatch"))
      BY <1>3, <2>2 DEF LoadGate
    <3>2. Status(s.spec, s.env) = "aborted" /\ FilesOf(s.spec, s.env) = {<<Id, "aborted">>}
      BY <2>1, <2>2 DEF Status, Kinds, FilesOf, Id
    <3>3. write_aborted("parameter_mismatch") = s.files \cup {<<Id, "aborted">>}
      BY DEF write_aborted, VALID_ABORT_REASONS, Written
    <3>4. QED
      BY <2>1, <3>1, <3>2, <3>3, ReturnKeeps
  <2>3. CASE load_gate_snapshot(s.env) # "refused"
    <3>1. s' = [s EXCEPT !.at = "history"]
      BY <1>3, <2>3 DEF LoadGate
    <3>2. /\ DOMAIN s' = Fields /\ s'.at = "history" /\ s'.spec = s.spec /\ s'.todo = s.todo
          /\ s'.env = s.env /\ s'.files = s.files /\ s'.results = s.results
          /\ s'.ranking = s.ranking /\ s'.markdown = s.markdown
      BY <1>0, <3>1 DEF Fields
    <3>3. QED
      BY <1>0, <2>1, <2>3, <3>2, QuietKeeps DEF RecordInv, ProgressInv
  <2>4. QED
    BY <2>2, <2>3
<1>4. CASE CheckHistory
  <2>1. s.at = "history" /\ validate(s.spec) = "ok" /\ load_gate_snapshot(s.env) # "refused"
    BY <1>4 DEF CheckHistory, DiskInv, ProgressInv
  <2>2. CASE HistoryOk(s.env)
    <3>1. s' = [s EXCEPT !.at = "walk", !.month = FirstMonth]
      BY <1>4, <2>2 DEF CheckHistory
    <3>2. /\ DOMAIN s' = Fields /\ s'.at = "walk" /\ s'.spec = s.spec /\ s'.todo = s.todo
          /\ s'.env = s.env /\ s'.files = s.files /\ s'.results = s.results
          /\ s'.ranking = s.ranking /\ s'.markdown = s.markdown
      BY <1>0, <3>1 DEF Fields
    <3>3. Status(s.spec, s.env) = "completed"
      BY <2>1, <2>2 DEF Status
    <3>4. QED
      BY <1>0, <2>1, <3>2, <3>3, QuietKeeps DEF RecordInv, ProgressInv
  <2>3. CASE ~HistoryOk(s.env)
    <3>1. Return("aborted", write_aborted("insufficient_walkforward_history"))
      BY <1>4, <2>3 DEF CheckHistory
    <3>2. Status(s.spec, s.env) = "aborted" /\ FilesOf(s.spec, s.env) = {<<Id, "aborted">>}
      BY <2>1, <2>3 DEF Status, Kinds, FilesOf, Id
    <3>3. write_aborted("insufficient_walkforward_history") = s.files \cup {<<Id, "aborted">>}
      BY DEF write_aborted, VALID_ABORT_REASONS, Written
    <3>4. QED
      BY <2>1, <3>1, <3>2, <3>3, ReturnKeeps
  <2>4. QED
    BY <2>2, <2>3
<1>5. CASE WalkEvent \/ WalkMonth
  <2>1. /\ s.at = "walk" /\ DOMAIN s' = Fields /\ s'.at = "walk" /\ s'.spec = s.spec
        /\ s'.todo = s.todo /\ s'.env = s.env /\ s'.files = s.files /\ s'.results = s.results
        /\ s'.ranking = s.ranking /\ s'.markdown = s.markdown
    BY <1>0, <1>5 DEF WalkEvent, WalkMonth, Fields
  <2>2. QED
    BY <1>0, <2>1, QuietKeeps DEF RecordInv, ProgressInv, DiskInv
<1>6. CASE WriteLedger
  <2>1. s.at = "walk" /\ s' = [s EXCEPT !.at = "summary", !.files = s.files \cup {<<Id, "ledger">>}]
    BY <1>6 DEF WriteLedger, write_ledger, Written
  <2>2. /\ DOMAIN s' = Fields /\ s'.at = "summary" /\ s'.spec = s.spec /\ s'.todo = s.todo
        /\ s'.env = s.env /\ s'.files = s.files \cup {<<Id, "ledger">>}
        /\ s'.results = s.results /\ s'.ranking = s.ranking /\ s'.markdown = s.markdown
    BY <1>0, <2>1 DEF Fields
  <2>3. Status(s.spec, s.env) = "completed" /\ "ledger" \in Kinds(s.spec, s.env) /\ Id' = Id
    BY <2>1, <2>2, CompletedKinds DEF DiskInv, ProgressInv, Id
  <2>4. RecordInv' /\ ProgressInv'
    BY <1>0, <2>2, <2>3 DEF RecordInv, ProgressInv
  <2>5. QED
    BY <2>1, <2>2, <2>3, <2>4, FileKeeps
<1>7. CASE WriteSummary
  <2> DEFINE report == build_summary(s.rows, s.baseRows)
             x == [report |-> report, violations |-> check(s.rows, report)]
  <2>0. s.at = "summary" /\ s' = [s EXCEPT !.at = "attribution", !.files = write_summary, !.summary = x]
    BY <1>7, Zenon DEF WriteSummary
  <2> HIDE DEF x
  <2>1. s.at = "summary"
        /\ s' = [s EXCEPT !.at = "attribution", !.files = s.files \cup {<<Id, "summary">>},
                          !.summary = x]
    BY <2>0 DEF write_summary, Written
  <2>2. /\ DOMAIN s' = Fields /\ s'.at = "attribution" /\ s'.spec = s.spec /\ s'.todo = s.todo
        /\ s'.env = s.env /\ s'.files = s.files \cup {<<Id, "summary">>}
        /\ s'.results = s.results /\ s'.ranking = s.ranking /\ s'.markdown = s.markdown
    BY <1>0, <2>1 DEF Fields
  <2>3. Status(s.spec, s.env) = "completed" /\ "summary" \in Kinds(s.spec, s.env) /\ Id' = Id
        /\ <<Id, "ledger">> \in s.files
    BY <2>1, <2>2, CompletedKinds DEF DiskInv, ProgressInv, Id
  <2>4. RecordInv' /\ ProgressInv'
    BY <1>0, <2>2, <2>3 DEF RecordInv, ProgressInv
  <2>5. QED
    BY <2>1, <2>2, <2>3, <2>4, FileKeeps
<1>8. CASE WriteAttribution
  <2>1. s.at = "attribution" /\ Status(s.spec, s.env) = "completed"
        /\ <<Id, "ledger">> \in s.files /\ <<Id, "summary">> \in s.files
    BY <1>8 DEF WriteAttribution, DiskInv, ProgressInv
  <2>2. CASE s' = [s EXCEPT !.at = "snapshot", !.files = s.files \cup {<<Id, "attribution">>}]
    <3>1. /\ DOMAIN s' = Fields /\ s'.at = "snapshot" /\ s'.spec = s.spec /\ s'.todo = s.todo
          /\ s'.env = s.env /\ s'.files = s.files \cup {<<Id, "attribution">>}
          /\ s'.results = s.results /\ s'.ranking = s.ranking /\ s'.markdown = s.markdown
      BY <1>0, <2>2 DEF Fields
    <3>2. "attribution" \in Kinds(s.spec, s.env) /\ Id' = Id
      BY <2>1, <3>1, CompletedKinds DEF Id
    <3>3. RecordInv' /\ ProgressInv'
      BY <1>0, <2>1, <3>1, <3>2 DEF RecordInv, ProgressInv
    <3>4. QED
      BY <2>1, <3>1, <3>2, <3>3, FileKeeps
  <2>3. CASE s' = [s EXCEPT !.at = "end", !.exit = 1]
    <3>1. /\ DOMAIN s' = Fields /\ s'.at = "end" /\ s'.spec = s.spec /\ s'.todo = s.todo
          /\ s'.env = s.env /\ s'.files = s.files /\ s'.results = s.results
          /\ s'.ranking = s.ranking /\ s'.markdown = s.markdown
      BY <1>0, <2>3 DEF Fields
    <3>2. QED
      BY <1>0, <2>1, <3>1, QuietKeeps DEF RecordInv, ProgressInv
  <2>4. write_attribution = s.files \cup {<<Id, "attribution">>}
    BY DEF write_attribution, Written
  <2>5. QED
    BY <1>8, <2>2, <2>3, <2>4 DEF WriteAttribution
<1>9. CASE WriteSnapshot
  <2>1. s.at = "snapshot" /\ Return("completed", write_snapshot(Ablations(s.spec)))
    BY <1>9 DEF WriteSnapshot
  <2>2. Status(s.spec, s.env) = "completed" /\ <<Id, "ledger">> \in s.files
        /\ <<Id, "summary">> \in s.files /\ <<Id, "attribution">> \in s.files
    BY <2>1 DEF DiskInv, ProgressInv
  <2>3. FilesOf(s.spec, s.env)
          = {<<Id, k>> : k \in {"ledger", "summary", "attribution", "snapshot"} \cup Ablations(s.spec)}
    BY <2>2, CompletedKinds DEF FilesOf, Id
  <2>4. write_snapshot(Ablations(s.spec)) = s.files \cup FilesOf(s.spec, s.env)
    BY <2>2, <2>3 DEF write_snapshot, Written
  <2>5. QED
    BY <2>1, <2>2, <2>4, ReturnKeeps
<1>10. CASE NextCandidate
  <2>1. s.at = "next" /\ s.todo # << >>
    BY <1>10 DEF NextCandidate
  <2>2. Head(s.todo) \in EntryCandidateSpec /\ Tail(s.todo) \in Seq(EntryCandidateSpec)
    BY <1>0, <2>1
  <2>3. \/ s' = [s EXCEPT !.at = "end", !.todo = Tail(s.todo), !.exit = 1]
        \/ s' = [s EXCEPT !.todo = Tail(s.todo)]
        \/ s' = [s EXCEPT !.at = "validate", !.spec = Head(s.todo), !.todo = Tail(s.todo)]
    BY <1>10 DEF NextCandidate
  <2>4. /\ DOMAIN s' = Fields /\ s'.at \in {"next", "validate", "end"} /\ s'.spec \in {s.spec, Head(s.todo)}
        /\ s'.todo = Tail(s.todo)
        /\ s'.env = s.env /\ s'.files = s.files /\ s'.results = s.results
        /\ s'.ranking = s.ranking /\ s'.markdown = s.markdown
    BY <1>0, <2>1, <2>3 DEF Fields
  <2>5. RecordInv' /\ ProgressInv'
    BY <1>0, <2>2, <2>4 DEF RecordInv, ProgressInv
  <2>6. QED
    BY <2>1, <2>4, <2>5, QuietKeeps
<1>11. CASE Finish
  <2> DEFINE places == [i \in collect_ranking_candidates |-> Place(i)]
             names == UNION {write_per_candidate_markdown(s.results[i]) : i \in DOMAIN s.results}
  <2>1. s' = [s EXCEPT !.at = "end", !.exit = 0, !.ranking = places, !.markdown = names]
    BY <1>11 DEF Finish
  <2>2. DOMAIN places = collect_ranking_candidates
    OBVIOUS
  <2>3. \A x \in names : \E i \in DOMAIN s.results :
          s.results[i].status = "completed" /\ s.results[i].id = x
    BY DEF write_per_candidate_markdown
  <2>4. \A j \in collect_ranking_candidates :
          j \in DOMAIN s.results /\ s.results[j].status = "completed"
    BY DEF collect_ranking_candidates, Ranked
  <2> HIDE DEF places, names
  <2>5. /\ DOMAIN s' = Fields /\ s'.at = "end" /\ s'.spec = s.spec /\ s'.todo = s.todo
        /\ s'.env = s.env /\ s'.files = s.files /\ s'.results = s.results
        /\ s'.ranking = places /\ s'.markdown = names
    BY <1>0, <2>1 DEF Fields
  <2>6. RecordInv' /\ ProgressInv'
    BY <1>0, <2>5 DEF RecordInv, ProgressInv
  <2>7. ResultsInv' /\ FilesInv'
    BY <2>5 DEF DiskInv, ResultsInv, FilesInv
  <2>8. ReportsInv'
    BY <2>2, <2>3, <2>4, <2>5 DEF ReportsInv
  <2>9. QED
    BY <2>6, <2>7, <2>8 DEF DiskInv
<1>12. CASE UNCHANGED s
  BY <1>12 DEF DiskInv, RecordInv, ProgressInv, ResultsInv, FilesInv, ReportsInv, Id
<1>13. QED
  BY <1>1, <1>2, <1>3, <1>4, <1>5, <1>6, <1>7, <1>8, <1>9, <1>10, <1>11, <1>12 DEF Next

\* The files of a settled candidate are those of its identifier, no more.
LEMMA KindsOfResult ==
  ASSUME DiskInv, NEW i \in DOMAIN s.results
  PROVE  LET r == s.results[i]
         IN {f[2] : f \in {g \in s.files : g[1] = r.id}} = Kinds(r.spec, s.env)
<1> DEFINE r == s.results[i]
<1>1. Settled(r, s.env, s.files)
  BY DEF DiskInv, ResultsInv
<1>2. ASSUME NEW f \in s.files, f[1] = r.id PROVE f[2] \in Kinds(r.spec, s.env)
  <2>1. PICK x \in EntryCandidateSpec : f \in FilesOf(x, s.env)
    BY DEF DiskInv, FilesInv
  <2>2. PICK k \in Kinds(x, s.env) : f = <<generate_candidate_id(x), k>>
    BY <2>1 DEF FilesOf
  <2>3. generate_candidate_id(x) = generate_candidate_id(r.spec) /\ f[2] = k
    BY <1>1, <1>2, <2>2 DEF Settled
  <2>4. Kinds(x, s.env) = Kinds(r.spec, s.env)
    BY <1>1, <2>1, <2>3, SameId DEF Settled
  <2>5. QED
    BY <2>2, <2>3, <2>4
<1>3. ASSUME NEW k \in Kinds(r.spec, s.env)
      PROVE  \E f \in s.files : f[1] = r.id /\ f[2] = k
  <2>1. <<r.id, k>> \in s.files
    BY <1>1 DEF Settled, FilesOf
  <2>2. QED
    BY <2>1
<1> HIDE DEF r
<1>4. {f[2] : f \in {g \in s.files : g[1] = r.id}} = Kinds(r.spec, s.env)
  BY <1>2, <1>3
<1>5. QED
  BY <1>4 DEF r

\* Two results of one identifier ended alike.
LEMMA StatusOfResult ==
  ASSUME DiskInv, NEW i \in DOMAIN s.results, NEW j \in DOMAIN s.results,
         s.results[i].id = s.results[j].id
  PROVE  s.results[i].status = s.results[j].status
<1>1. Settled(s.results[i], s.env, s.files) /\ Settled(s.results[j], s.env, s.files)
  BY DEF DiskInv, ResultsInv
<1>2. QED
  BY <1>1, SameId DEF Settled

\* What a candidate left on disk tells how its run ended, and nothing of a
\* rejected or aborted one reaches a report, for every list of candidates, also
\* one that names a candidate twice or candidates that share an identifier.
THEOREM FilesAreTruthful == EntrySpec => []FilesTellStatus
<1>1. DiskInv => FilesTellStatus
  <2>1. SUFFICES ASSUME DiskInv, NEW i \in DOMAIN s.results
                 PROVE  LET r == s.results[i]
                            kinds == {f[2] : f \in {g \in s.files : g[1] = r.id}}
                        IN /\ r.status = "rejected" => kinds = {"rejected"}
                           /\ r.status = "aborted" => kinds = {"aborted"}
                           /\ r.status = "completed" =>
                                kinds = {"ledger", "summary", "attribution", "snapshot"} \cup Ablations(r.spec)
                           /\ r.status # "completed" => r.id \notin s.markdown
                           /\ \A j \in DOMAIN s.ranking : s.results[j].id = r.id => r.status = "completed"
    BY DEF FilesTellStatus
  <2> DEFINE r == s.results[i]
             kinds == {f[2] : f \in {g \in s.files : g[1] = r.id}}
  <2>2. kinds = Kinds(r.spec, s.env)
    BY <2>1, KindsOfResult
  <2>3. r.status = Status(r.spec, s.env)
    BY <2>1 DEF DiskInv, ResultsInv, Settled
  <2>4. r.status # "completed" => r.id \notin s.markdown
    <3>1. ASSUME r.id \in s.markdown PROVE r.status = "completed"
      <4>1. PICK j \in DOMAIN s.results : s.results[j].status = "completed" /\ s.results[j].id = r.id
        BY <2>1, <3>1 DEF DiskInv, ReportsInv
      <4>2. QED
        BY <2>1, <4>1, StatusOfResult
    <3>2. QED
      BY <3>1
  <2>5. \A j \in DOMAIN s.ranking : s.results[j].id = r.id => r.status = "completed"
    <3>1. SUFFICES ASSUME NEW j \in DOMAIN s.ranking, s.results[j].id = r.id
                   PROVE  r.status = "completed"
      OBVIOUS
    <3>2. j \in DOMAIN s.results /\ s.results[j].status = "completed"
      BY <2>1, <3>1 DEF DiskInv, ReportsInv
    <3>3. QED
      BY <2>1, <3>1, <3>2, StatusOfResult
  <2> HIDE DEF r, kinds
  <2>6. /\ r.status = "rejected" => kinds = {"rejected"}
        /\ r.status = "aborted" => kinds = {"aborted"}
        /\ r.status = "completed" =>
             kinds = {"ledger", "summary", "attribution", "snapshot"} \cup Ablations(r.spec)
    BY <2>2, <2>3 DEF Kinds
  <2>7. QED
    BY <2>4, <2>5, <2>6 DEF r, kinds
<1>2. DiskInv /\ [Next]_s => DiskInv'
  BY DiskInvStep
<1>3. QED
  BY <1>1, <1>2, DiskInvInit, PTL DEF EntrySpec

------------------------------------------------------------------------------
(* What a decision reads                                                    *)

\* A set of naturals that is not empty has a least element.
LEMMA LeastNatural ==
  ASSUME NEW T \in SUBSET Nat, T # {}
  PROVE  \E x \in T : \A y \in T : x <= y
<1> DEFINE R == {ss \in Nat \X Nat : ss[1] < ss[2]}
<1>1. OpToRel(<, Nat) = R
  BY DEF OpToRel
<1>2. IsWellFoundedOn(R, Nat)
  BY <1>1, NatLessThanWellFounded
<1>3. PICK x \in T : \A y \in T : ~(<<y, x>> \in R)
  BY <1>2, WFMin, Zenon
<1>4. ASSUME NEW y \in T PROVE x <= y
  <2>1. <<y, x>> \in Nat \X Nat
    OBVIOUS
  <2>2. ~(y < x)
    BY <1>3, <2>1
  <2>3. QED
    BY <2>2
<1>5. QED
  BY <1>4

\* Min finds it, and nothing else.
LEMMA MinOfNaturals ==
  ASSUME NEW T \in SUBSET Nat, T # {}
  PROVE  /\ Min(T) \in T /\ \A y \in T : Min(T) <= y
         /\ \A x \in T : (\A y \in T : x <= y) => Min(T) = x
<1>1. \E x \in T : \A y \in T : x <= y
  BY LeastNatural
<1>2. Min(T) \in T /\ \A y \in T : Min(T) <= y
  BY <1>1 DEF Min
<1>3. ASSUME NEW x \in T, \A y \in T : x <= y PROVE Min(T) = x
  <2>1. x <= Min(T) /\ Min(T) <= x /\ x \in Nat /\ Min(T) \in Nat
    BY <1>2, <1>3
  <2>2. QED
    BY <2>1
<1>4. QED
  BY <1>2, <1>3

\* The rows a ledger of a candidate may hold: those of an event it decided on.
LedgerEvents ==
  [side : {"long", "short"}, bars : Seq(Second), pre : [distance : Int, speed : Int, pullback : Int],
   hours : Nat, volume : Nat, raw : Int, notional : Nat, symbol : Symbols, month : Int]

LedgerOf(spec, env) ==
  {Row(spec, c[1], env.metrics, c[2]) : c \in {d \in LedgerEvents \X Modes : Decided(spec, d[1])}}

\* The two events cannot be told apart before second n + 1.
Agree(ev, other, n) ==
  /\ other.side = ev.side /\ other.pre = ev.pre /\ other.hours = ev.hours
  /\ other.volume = ev.volume /\ other.raw = ev.raw /\ other.notional = ev.notional
  /\ other.symbol = ev.symbol /\ other.month = ev.month
  /\ DOMAIN other.bars = DOMAIN ev.bars
  /\ \A i \in DOMAIN ev.bars : i <= n => other.bars[i] = ev.bars[i]

\* The same event with other bars after second n.
LEMMA LaterEvent ==
  ASSUME NEW ev \in LedgerEvents, NEW bars \in [DOMAIN ev.bars -> Second], NEW n \in Int
  PROVE  Later(ev, bars, n) \in LedgerEvents /\ Agree(ev, Later(ev, bars, n), n)
<1> DEFINE fresh == [i \in DOMAIN ev.bars |-> IF i <= n THEN ev.bars[i] ELSE bars[i]]
<1>1. Later(ev, bars, n) = [ev EXCEPT !.bars = fresh]
  BY DEF Later
<1>2. fresh \in Seq(Second) /\ DOMAIN fresh = DOMAIN ev.bars
        /\ \A i \in DOMAIN ev.bars : i <= n => fresh[i] = ev.bars[i]
  <2>1. ev.bars \in Seq(Second)
    BY DEF LedgerEvents
  <2>2. DOMAIN ev.bars = 1..Len(ev.bars) /\ Len(ev.bars) \in Nat
        /\ \A i \in DOMAIN ev.bars : ev.bars[i] \in Second
    BY <2>1
  <2>3. fresh \in [1..Len(ev.bars) -> Second]
    BY <2>2
  <2>4. QED
    BY <2>2, <2>3
<1> HIDE DEF fresh
<1>3. QED
  BY <1>1, <1>2 DEF LedgerEvents, Agree

\* The seconds of an event.
LEMMA EventTypes ==
  ASSUME NEW ev \in LedgerEvents
  PROVE  /\ Len(ev.bars) \in Nat /\ DOMAIN ev.bars = 1..Len(ev.bars)
         /\ \A i \in DOMAIN ev.bars : ev.bars[i] \in Second /\ i \in Nat /\ i # 0
         /\ ev.side \in {"long", "short"} /\ ev.raw \in Int /\ ev.notional \in Nat
<1>1. ev.bars \in Seq(Second) /\ ev.side \in {"long", "short"} /\ ev.raw \in Int /\ ev.notional \in Nat
  BY DEF LedgerEvents
<1>2. QED
  BY <1>1

\* The trigger is a second of the tape, the first that touches the level.
LEMMA DetectFirst ==
  ASSUME NEW ev \in LedgerEvents, detect(ev) # 0
  PROVE  /\ detect(ev) \in DOMAIN ev.bars /\ detect(ev) \in Nat /\ detect(ev) # 0
         /\ Touches(ev.side, ev.bars[detect(ev)])
         /\ \A i \in DOMAIN ev.bars : Touches(ev.side, ev.bars[i]) => detect(ev) <= i
<1> DEFINE hits == {i \in DOMAIN ev.bars : Touches(ev.side, ev.bars[i])}
<1>1. hits # {} /\ detect(ev) = Min(hits)
  BY DEF detect
<1>2. hits \in SUBSET Nat
  BY EventTypes
<1> HIDE DEF hits
<1>3. Min(hits) \in hits /\ \A y \in hits : Min(hits) <= y
  BY <1>1, <1>2, MinOfNaturals
<1>4. detect(ev) \in hits /\ \A y \in hits : detect(ev) <= y
  BY <1>1, <1>3
<1>5. QED
  BY <1>4, EventTypes DEF hits

\* It does not depend on what comes after it.
LEMMA DetectSame ==
  ASSUME NEW ev \in LedgerEvents, NEW other \in LedgerEvents, NEW n \in Int, Agree(ev, other, n),
         detect(ev) # 0, detect(ev) <= n
  PROVE  detect(other) = detect(ev)
<1> DEFINE t == detect(ev)
           hits == {i \in DOMAIN other.bars : Touches(other.side, other.bars[i])}
<1>1. /\ t \in DOMAIN ev.bars /\ t \in Nat /\ Touches(ev.side, ev.bars[t])
      /\ \A i \in DOMAIN ev.bars : Touches(ev.side, ev.bars[i]) => t <= i
  BY DetectFirst
<1>2. t \in hits
  BY <1>1 DEF Agree
<1>3. \A i \in hits : t <= i
  <2>1. SUFFICES ASSUME NEW i \in hits, ~(t <= i) PROVE FALSE
    OBVIOUS
  <2>2. i \in DOMAIN ev.bars /\ i \in Nat /\ i < t
    BY <1>1, <2>1, EventTypes DEF Agree
  <2>3. i <= n
    BY <1>1, <2>2
  <2>4. Touches(ev.side, ev.bars[i])
    BY <2>2, <2>3 DEF Agree
  <2>5. QED
    BY <1>1, <2>1, <2>2, <2>4
<1>4. hits \in SUBSET Nat
  BY EventTypes
<1> HIDE DEF t
<1>5. detect(other) = Min(hits)
  BY <1>2 DEF detect
<1> HIDE DEF hits
<1>6. Min(hits) = t
  BY <1>2, <1>3, <1>4, MinOfNaturals
<1>7. QED
  BY <1>5, <1>6 DEF t

\* A window of d seconds at t, as long as both events agree on it.
LEMMA WindowSame ==
  ASSUME NEW ev \in LedgerEvents, NEW other \in LedgerEvents, NEW t \in Nat, NEW d \in Nat,
         NEW n \in Int, t + d <= n, Agree(ev, other, n)
  PROVE  /\ Window(other, t, d) = Window(ev, t, d) /\ Window(ev, t, d) \in SUBSET Nat
         /\ \A i \in Window(ev, t, d) : /\ other.bars[i] = ev.bars[i] /\ i \in DOMAIN ev.bars
                                        /\ t <= i /\ i <= t + d
<1>1. Window(other, t, d) = Window(ev, t, d)
  BY DEF Window, Agree
<1>2. ASSUME NEW i \in Window(ev, t, d)
      PROVE  other.bars[i] = ev.bars[i] /\ i \in DOMAIN ev.bars /\ i \in Nat /\ t <= i /\ i <= t + d
  <2>1. i \in DOMAIN ev.bars /\ t <= i /\ i <= t + d
    BY DEF Window
  <2>2. i \in Nat
    BY <2>1, EventTypes
  <2>3. i <= n
    BY <2>1, <2>2
  <2>4. QED
    BY <2>1, <2>2, <2>3 DEF Agree
<1>3. QED
  BY <1>1, <1>2

\* The confirmations read the D seconds behind the trigger.
LEMMA EvaluateSame ==
  ASSUME NEW ev \in LedgerEvents, NEW other \in LedgerEvents, NEW t \in Nat,
         NEW spec \in EntryCandidateSpec, spec.D \in Nat,
         Agree(ev, other, t + spec.D)
  PROVE  evaluate(spec, other, t) <=> evaluate(spec, ev, t)
<1> DEFINE w == Window(ev, t, spec.D)
<1>1. /\ Window(other, t, spec.D) = w /\ w \in SUBSET Nat
      /\ \A i \in w : other.bars[i] = ev.bars[i] /\ i \in DOMAIN ev.bars /\ t <= i /\ i <= t + spec.D
  BY WindowSame
<1>2. other.side = ev.side /\ other.hours = ev.hours /\ other.volume = ev.volume
  BY DEF Agree
<1>3. \A n \in Nat : evaluate_persistence(n, spec, other, t) <=> evaluate_persistence(n, spec, ev, t)
  <2>1. ASSUME NEW n \in Nat, NEW i \in w, i + n - 1 \in w, NEW j \in i..(i + n - 1)
        PROVE  other.bars[j] = ev.bars[j]
    <3>1. i \in Nat /\ i + n - 1 \in Nat /\ t <= i /\ i + n - 1 <= t + spec.D
          /\ i \in DOMAIN ev.bars /\ i + n - 1 \in DOMAIN ev.bars
      BY <1>1, <2>1
    <3>2. j \in DOMAIN ev.bars /\ t <= j /\ j <= t + spec.D
      BY <2>1, <3>1, EventTypes
    <3>3. QED
      BY <3>2 DEF Agree
  <2> HIDE DEF w
  <2>2. QED
    BY <1>1, <1>2, <2>1 DEF evaluate_persistence, w
<1>4. \A b \in Nat : evaluate_retest(b, spec, other, t) <=> evaluate_retest(b, spec, ev, t)
  BY <1>1, <1>2 DEF evaluate_retest
<1>5. \A v \in Nat : evaluate_min_volume(v, other) <=> evaluate_min_volume(v, ev)
  BY <1>2 DEF evaluate_min_volume
<1>6. spec.tc[2] \in Nat
        /\ (spec.tc[1] = "none" \/ spec.tc[1] = "persistence" \/ spec.tc[1] = "retest" \/ spec.tc[1] = "minvol")
  BY DEF EntryCandidateSpec, Families
<1>7. QED
  BY <1>3, <1>4, <1>5, <1>6 DEF evaluate

\* The post-touch bands read H seconds, no more than the delay D.
LEMMA PosttouchSame ==
  ASSUME NEW ev \in LedgerEvents, NEW other \in LedgerEvents, NEW t \in Nat, t \in DOMAIN ev.bars,
         NEW spec \in EntryCandidateSpec, spec.D \in Nat, spec.H \in Nat, spec.H <= spec.D,
         Agree(ev, other, t + spec.D)
  PROVE  allow_posttouch(spec, other, t) <=> allow_posttouch(spec, ev, t)
<1> DEFINE w == Window(ev, t, spec.H)
<1>1. /\ Window(other, t, spec.H) = w
      /\ \A i \in w : other.bars[i] = ev.bars[i] /\ i \in DOMAIN ev.bars
  <2>1. t + spec.H <= t + spec.D /\ t + spec.D \in Int
    OBVIOUS
  <2>2. QED
    BY <2>1, WindowSame
<1>2. other.side = ev.side
  BY DEF Agree
<1>3. \A x \in Nat : check_continuation_1s(x, other, w) <=> check_continuation_1s(x, ev, w)
  <2>1. [i \in w |-> other.bars[i].move] = [i \in w |-> ev.bars[i].move]
    BY <1>1
  <2>2. QED
    BY <1>2, <2>1 DEF check_continuation_1s
<1>4. \A x \in Nat : check_tick_imbalance(x, other, t, spec.H) <=> check_tick_imbalance(x, ev, t, spec.H)
  <2>1. {i \in w : other.bars[i].taker = IF other.side = "long" THEN "buy" ELSE "sell"}
          = {i \in w : ev.bars[i].taker = IF ev.side = "long" THEN "buy" ELSE "sell"}
    BY <1>1, <1>2
  <2> HIDE DEF w
  <2>2. compute_tick_imbalance(other, t, spec.H) = compute_tick_imbalance(ev, t, spec.H)
    BY <1>1, <2>1 DEF compute_tick_imbalance, w
  <2>3. QED
    BY <2>2 DEF check_tick_imbalance
<1>5. \A x \in Nat : check_spread_ticks(x, other, t) <=> check_spread_ticks(x, ev, t)
  <2>1. other.bars[t] = ev.bars[t] /\ DOMAIN other.bars = DOMAIN ev.bars
    BY DEF Agree
  <2>2. QED
    BY <2>1 DEF check_spread_ticks
<1>6. spec.post[2] \in Nat
        /\ (spec.post[1] = "none" \/ spec.post[1] = "cont1s" \/ spec.post[1] = "tickimb" \/ spec.post[1] = "spread")
  BY DEF EntryCandidateSpec, PostBands
<1>7. Window(other, t, spec.H) = Window(ev, t, spec.H)
  BY <1>1
<1>8. QED
  BY <1>3, <1>4, <1>5, <1>6, <1>7 DEF allow_posttouch

\* The entry price and its second: within D seconds of the trigger, and read
\* from them.
LEMMA ResolveSame ==
  ASSUME NEW ev \in LedgerEvents, NEW other \in LedgerEvents, NEW t \in Nat,
         NEW spec \in EntryCandidateSpec, spec.D \in Nat,
         Agree(ev, other, t + spec.D)
  PROVE  /\ resolve(spec, other, t) = resolve(spec, ev, t)
         /\ resolve(spec, ev, t).filled =>
              t <= resolve(spec, ev, t).ts /\ resolve(spec, ev, t).ts <= t + spec.D
<1> DEFINE w == Window(ev, t, spec.D)
           target == IF ev.side = "long" THEN -spec.ep[2] ELSE spec.ep[2]
           hit == {i \in w : IF ev.side = "long" THEN ev.bars[i].low <= target
                             ELSE ev.bars[i].high >= target}
           pull == resolve_post_touch_pullback_limit(spec.ep[2], spec, ev, t)
<1>1. /\ Window(other, t, spec.D) = w /\ w \in SUBSET Nat
      /\ \A i \in w : other.bars[i] = ev.bars[i] /\ t <= i /\ i <= t + spec.D
  BY WindowSame
<1>2. other.side = ev.side
  BY DEF Agree
<1>3. hit = {i \in w : IF ev.side = "long" THEN other.bars[i].low <= target
                       ELSE other.bars[i].high >= target}
  BY <1>1
<1>4. pull = IF hit = {} THEN Unfilled ELSE Filled(target, Min(hit))
  BY DEF resolve_post_touch_pullback_limit
<1>5. resolve_post_touch_pullback_limit(spec.ep[2], spec, other, t) = pull
  <2> DEFINE hit2 == {i \in w : IF ev.side = "long" THEN other.bars[i].low <= target
                                ELSE other.bars[i].high >= target}
  <2>1. resolve_post_touch_pullback_limit(spec.ep[2], spec, other, t)
          = IF hit2 = {} THEN Unfilled ELSE Filled(target, Min(hit2))
    BY <1>1, <1>2 DEF resolve_post_touch_pullback_limit
  <2>2. hit2 = hit
    BY <1>3
  <2> HIDE DEF hit, hit2, target, pull
  <2>3. QED
    BY <1>4, <2>1, <2>2
<1>6. pull.filled => t <= pull.ts /\ pull.ts <= t + spec.D
  <2>1. hit \in SUBSET Nat
    BY <1>1
  <2>2. hit # {} => Min(hit) \in hit
    BY <2>1, MinOfNaturals
  <2>3. \A i \in hit : t <= i /\ i <= t + spec.D
    BY <1>1
  <2> HIDE DEF hit, target, pull
  <2>4. QED
    BY <1>4, <2>2, <2>3 DEF Filled, Unfilled
<1>7. \A k : resolve_limit_plus_tick_buffer(k, other, t) = resolve_limit_plus_tick_buffer(k, ev, t)
  BY <1>2 DEF resolve_limit_plus_tick_buffer
<1>8. \A x : Filled(x, t).ts = t
  BY DEF Filled
<1>9. spec.ep[1] = "market_on_touch" \/ spec.ep[1] = "limit_at_level" \/ spec.ep[1] = "limit_tb"
        \/ spec.ep[1] = "pullback"
  BY DEF EntryCandidateSpec, PriceModes
<1> HIDE DEF pull
<1>10. CASE spec.ep[1] = "market_on_touch"
  <2>1. resolve(spec, other, t) = Filled(0, t) /\ resolve(spec, ev, t) = Filled(0, t)
    BY <1>10 DEF resolve, resolve_market_on_touch
  <2>2. QED
    BY <1>8, <2>1
<1>11. CASE spec.ep[1] = "limit_at_level"
  <2>1. resolve(spec, other, t) = Filled(0, t) /\ resolve(spec, ev, t) = Filled(0, t)
    BY <1>11 DEF resolve, resolve_limit_at_level
  <2>2. QED
    BY <1>8, <2>1
<1>12. CASE spec.ep[1] = "limit_tb"
  <2>1. /\ resolve(spec, other, t) = resolve_limit_plus_tick_buffer(spec.ep[2], other, t)
        /\ resolve(spec, ev, t) = resolve_limit_plus_tick_buffer(spec.ep[2], ev, t)
    BY <1>12 DEF resolve
  <2>2. resolve_limit_plus_tick_buffer(spec.ep[2], ev, t).ts = t
    BY <1>8 DEF resolve_limit_plus_tick_buffer
  <2>3. QED
    BY <1>7, <2>1, <2>2
<1>13. CASE spec.ep[1] = "pullback"
  <2>1. resolve(spec, other, t) = pull /\ resolve(spec, ev, t) = pull
    BY <1>5, <1>13 DEF resolve, pull
  <2>2. QED
    BY <1>6, <2>1
<1>14. QED
  BY <1>9, <1>10, <1>11, <1>12, <1>13

\* A candidate that validates reads no feature beyond its delay.
LEMMA HorizonWithinDelay ==
  ASSUME NEW spec \in EntryCandidateSpec, validate(spec) = "ok"
  PROVE  spec.D \in Nat /\ spec.H \in Nat /\ spec.H <= spec.D
<1>1. spec.D \in ValidD /\ spec.H \in ValidH /\ ~(spec.H > spec.D)
  BY DEF validate
<1>2. spec.D \in Nat /\ spec.H \in Nat
  BY <1>1, SecondsAssumption
<1>3. QED
  BY <1>1, <1>2

\* The decision on an event, and the row it gets, depend on nothing later than
\* D seconds after its trigger.
LEMMA DecisionSame ==
  ASSUME NEW spec \in EntryCandidateSpec, validate(spec) = "ok", NEW ev \in LedgerEvents,
         NEW other \in LedgerEvents, Decided(spec, ev), Agree(ev, other, detect(ev) + spec.D)
  PROVE  /\ Decided(spec, other) /\ detect(other) = detect(ev)
         /\ resolve(spec, other, detect(ev)) = resolve(spec, ev, detect(ev))
         /\ detect(ev) \in Nat /\ detect(ev) # 0
         /\ detect(ev) <= resolve(spec, ev, detect(ev)).ts
         /\ resolve(spec, ev, detect(ev)).ts <= detect(ev) + spec.D
<1> DEFINE t == detect(ev)
<1>1. t # 0 /\ evaluate(spec, ev, t) /\ allow_pretouch(spec, ev) /\ allow_posttouch(spec, ev, t)
        /\ resolve(spec, ev, t).filled
  BY DEF Decided
<1>2. spec.D \in Nat /\ spec.H \in Nat /\ spec.H <= spec.D
  BY HorizonWithinDelay
<1>3. t \in DOMAIN ev.bars /\ t \in Nat
  BY <1>1, DetectFirst
<1>4. t + spec.D \in Int /\ t <= t + spec.D
  BY <1>2, <1>3
<1>5. detect(other) = t
  BY <1>1, <1>4, DetectSame
<1> HIDE DEF t
<1>6. Agree(ev, other, t + spec.D)
  BY DEF t
<1>7. evaluate(spec, other, t)
  BY <1>1, <1>2, <1>3, <1>6, EvaluateSame
<1>8. allow_posttouch(spec, other, t)
  BY <1>1, <1>2, <1>3, <1>6, PosttouchSame
<1>9. allow_pretouch(spec, other)
  BY <1>1 DEF allow_pretouch, Agree
<1>10. /\ resolve(spec, other, t) = resolve(spec, ev, t)
       /\ t <= resolve(spec, ev, t).ts /\ resolve(spec, ev, t).ts <= t + spec.D
  BY <1>1, <1>2, <1>3, <1>6, ResolveSame
<1>11. Decided(spec, other)
  BY <1>1, <1>5, <1>7, <1>8, <1>9, <1>10 DEF Decided
<1>12. QED
  BY <1>1, <1>3, <1>5, <1>10, <1>11 DEF t

\* A ledger row is that of the event it names, in one of the gate modes.
LEMMA RowOfLedger ==
  ASSUME NEW spec, NEW env, NEW r \in LedgerOf(spec, env)
  PROVE  \E ev \in LedgerEvents, mode \in Modes :
           /\ Decided(spec, ev) /\ r = Row(spec, ev, env.metrics, mode)
           /\ r.event = ev /\ r.gate_mode = mode /\ r.trigger = detect(ev)
           /\ r.entry = resolve(spec, ev, detect(ev)).ts /\ r.notional = ev.notional
           /\ r.pnl = apply(ev.raw, ev.notional) /\ r.symbol = ev.symbol /\ r.month = ev.month
<1>1. PICK c \in LedgerEvents \X Modes : Decided(spec, c[1]) /\ r = Row(spec, c[1], env.metrics, c[2])
  BY DEF LedgerOf
<1>2. c[1] \in LedgerEvents /\ c[2] \in Modes
  BY <1>1
<1>3. QED
  BY <1>1, <1>2 DEF Row

\* Nor does the row.
LEMMA RowSame ==
  ASSUME NEW spec, NEW ev \in LedgerEvents, NEW other \in LedgerEvents, NEW n, NEW metrics, NEW mode,
         Agree(ev, other, n), detect(other) = detect(ev),
         resolve(spec, other, detect(ev)) = resolve(spec, ev, detect(ev))
  PROVE  [Row(spec, other, metrics, mode) EXCEPT !.event = ev] = Row(spec, ev, metrics, mode)
BY DEF Row, Agree

\* The ledger at hand, and the summary once it is written.
LedgerInv ==
  /\ s.rows \in Seq(LedgerOf(s.spec, s.env))
  /\ s.at \in {"start", "validate", "history", "next"} => s.rows = << >>
  /\ s.at = "attribution" =>
       /\ s.summary.report = build_summary(s.rows, s.baseRows)
       /\ s.summary.violations = check(s.rows, s.summary.report)

LEMMA LedgerInvInit == Init => LedgerInv
<1>1. SUFFICES ASSUME Init PROVE LedgerInv
  OBVIOUS
<1>2. s.at = "start" /\ s.rows = << >>
  BY <1>1 DEF Init
<1>3. << >> \in Seq(LedgerOf(s.spec, s.env))
  OBVIOUS
<1>4. QED
  BY <1>2, <1>3 DEF LedgerInv

\* An event adds rows of its candidate's ledger.
LEMMA RowsOfEvent ==
  ASSUME NEW spec, NEW env, NEW ev \in LedgerEvents
  PROVE  RowsOf(spec, ev, env.metrics) \in Seq(LedgerOf(spec, env))
<1>1. CASE Decided(spec, ev)
  <2>1. <<ev, "nogate">> \in LedgerEvents \X Modes /\ <<ev, "gate001">> \in LedgerEvents \X Modes
    BY DEF Modes
  <2>2. \A m \in {"nogate", "gate001"} : Row(spec, ev, env.metrics, m) \in LedgerOf(spec, env)
    BY <1>1, <2>1 DEF LedgerOf
  <2>3. RowsOf(spec, ev, env.metrics)
          = <<Row(spec, ev, env.metrics, "nogate"), Row(spec, ev, env.metrics, "gate001")>>
    BY <1>1 DEF RowsOf
  <2>4. QED
    BY <2>2, <2>3
<1>2. CASE ~Decided(spec, ev)
  BY <1>2 DEF RowsOf
<1>3. QED
  BY <1>1, <1>2

\* The rows are those of the candidate as long as it stays the one at hand.
LEMMA QuietLedger ==
  ASSUME LedgerInv, s'.env = s.env, s'.spec = s.spec, s'.rows \in {s.rows, << >>},
         s'.at \in {"start", "validate", "history", "next"} => s'.rows = << >>,
         s'.at # "attribution"
  PROVE  LedgerInv'
<1> DEFINE book == LedgerOf(s.spec, s.env)
<1>1. book' = book
  BY DEF LedgerOf
<1>2. s.rows \in Seq(book)
  BY DEF LedgerInv
<1> HIDE DEF book
<1>3. << >> \in Seq(book)
  OBVIOUS
<1>4. s'.rows \in Seq(book)
  BY <1>2, <1>3
<1>5. QED
  BY <1>1, <1>4 DEF LedgerInv, book

LEMMA LedgerInvStep ==
  ASSUME DiskInv, LedgerInv, [Next]_s
  PROVE  LedgerInv'
<1>0. DOMAIN s = Fields
  BY DEF DiskInv, RecordInv
<1>1. ASSUME NEW status, NEW files, Return(status, files) PROVE LedgerInv'
  BY <1>0, <1>1, ReturnEffect, QuietLedger
<1>2. CASE Start
  <2>1. s.at = "start" /\ s'.env = s.env /\ s'.spec = s.spec /\ s'.rows = s.rows
        /\ s'.at \in {"validate", "end"}
    BY <1>0, <1>2 DEF Start, Fields
  <2>2. QED
    BY <2>1, QuietLedger DEF LedgerInv
<1>3. CASE handle_reject
  BY <1>1, <1>3 DEF handle_reject
<1>4. CASE LoadGate
  <2>1. CASE s' = [s EXCEPT !.at = "history"]
    <3>1. s.at = "validate" /\ s'.env = s.env /\ s'.spec = s.spec /\ s'.rows = s.rows /\ s'.at = "history"
      BY <1>0, <1>4, <2>1 DEF LoadGate, Fields
    <3>2. QED
      BY <3>1, QuietLedger DEF LedgerInv
  <2>2. QED
    BY <1>1, <1>4, <2>1 DEF LoadGate
<1>5. CASE CheckHistory
  <2>1. CASE s' = [s EXCEPT !.at = "walk", !.month = FirstMonth]
    <3>1. s.at = "history" /\ s'.env = s.env /\ s'.spec = s.spec /\ s'.rows = s.rows /\ s'.at = "walk"
      BY <1>0, <1>5, <2>1 DEF CheckHistory, Fields
    <3>2. QED
      BY <3>1, QuietLedger
  <2>2. QED
    BY <1>1, <1>5, <2>1 DEF CheckHistory
<1>6. CASE WalkEvent
  <2>1. PICK e \in Events, x \in Symbols :
          LET ev == [bars |-> e.bars, side |-> e.side, pre |-> e.pre, hours |-> e.hours,
                     volume |-> e.volume, raw |-> e.raw, notional |-> e.notional,
                     symbol |-> x, month |-> s.month]
          IN s' = [s EXCEPT !.rows = @ \o RowsOf(s.spec, ev, s.env.metrics), !.seen = @ + 1]
    BY <1>6 DEF WalkEvent
  <2> DEFINE ev == [bars |-> e.bars, side |-> e.side, pre |-> e.pre, hours |-> e.hours,
                    volume |-> e.volume, raw |-> e.raw, notional |-> e.notional,
                    symbol |-> x, month |-> s.month]
  <2>2. s.at = "walk" /\ s.month \in Int
    BY <1>6, CalendarAssumption DEF WalkEvent
  <2>3. e \in Tape
    BY EventsAssumption
  <2>4. ev \in LedgerEvents
    BY <2>2, <2>3 DEF LedgerEvents, Tape
  <2> DEFINE added == RowsOf(s.spec, ev, s.env.metrics)
  <2>5. added \in Seq(LedgerOf(s.spec, s.env))
    BY <2>4, RowsOfEvent
  <2>6. s' = [s EXCEPT !.rows = @ \o added, !.seen = @ + 1]
    BY <2>1
  <2> HIDE DEF added
  <2>7. s'.at = "walk" /\ s'.env = s.env /\ s'.spec = s.spec /\ s'.rows = s.rows \o added
    BY <1>0, <2>2, <2>6 DEF Fields
  <2>8. s.rows \o added \in Seq(LedgerOf(s.spec, s.env))
    BY <2>5 DEF LedgerInv
  <2>9. LedgerOf(s.spec, s.env)' = LedgerOf(s.spec, s.env)
    BY <2>7 DEF LedgerOf
  <2>10. QED
    BY <2>7, <2>8, <2>9 DEF LedgerInv
<1>7. CASE WalkMonth \/ WriteLedger
  <2>1. s'.at \in {"walk", "summary"} /\ s'.env = s.env /\ s'.spec = s.spec /\ s'.rows = s.rows
    BY <1>0, <1>7 DEF WalkMonth, WriteLedger, Fields
  <2>2. QED
    BY <2>1, QuietLedger
<1>8. CASE WriteSummary
  <2> DEFINE report == build_summary(s.rows, s.baseRows)
             verdict == check(s.rows, report)
  <2>1. s' = [s EXCEPT !.at = "attribution", !.files = write_summary,
                       !.summary = [report |-> report, violations |-> verdict]]
    BY <1>8 DEF WriteSummary
  <2> HIDE DEF report, verdict
  <2>2. /\ s'.at = "attribution" /\ s'.env = s.env /\ s'.spec = s.spec /\ s'.rows = s.rows
        /\ s'.baseRows = s.baseRows /\ s'.summary.report = report /\ s'.summary.violations = verdict
    BY <1>0, <2>1 DEF Fields
  <2>3. LedgerOf(s.spec, s.env)' = LedgerOf(s.spec, s.env)
    BY <2>2 DEF LedgerOf
  <2>4. build_summary(s.rows, s.baseRows)' = report
    BY <2>2 DEF report
  <2>5. check(s.rows, s.summary.report)' = verdict
    BY <2>2 DEF verdict
  <2>6. QED
    BY <2>2, <2>3, <2>4, <2>5 DEF LedgerInv
<1>9. CASE WriteAttribution
  <2>1. s'.at \in {"snapshot", "end"} /\ s'.env = s.env /\ s'.spec = s.spec /\ s'.rows = s.rows
    BY <1>0, <1>9 DEF WriteAttribution, Fields
  <2>2. QED
    BY <2>1, QuietLedger
<1>10. CASE WriteSnapshot
  BY <1>1, <1>10 DEF WriteSnapshot
<1>11. CASE NextCandidate
  <2>1. s.at = "next" /\ s'.at \in {"next", "validate", "end"} /\ s'.rows = s.rows
    BY <1>0, <1>11 DEF NextCandidate, Fields
  <2>2. s'.rows = << >>
    BY <2>1 DEF LedgerInv
  <2>3. QED
    BY <2>1, <2>2 DEF LedgerInv
<1>12. CASE Finish
  <2>1. s'.at = "end" /\ s'.env = s.env /\ s'.spec = s.spec /\ s'.rows = s.rows
    BY <1>0, <1>12 DEF Finish, Fields
  <2>2. QED
    BY <2>1, QuietLedger
<1>13. CASE UNCHANGED s
  BY <1>13 DEF LedgerInv
<1>14. QED
  BY <1>2, <1>3, <1>4, <1>5, <1>6, <1>7, <1>8, <1>9, <1>10, <1>11, <1>12, <1>13 DEF Next

LEMMA EntryInvAlways == EntrySpec => [](DiskInv /\ LedgerInv)
<1>1. DiskInv /\ LedgerInv /\ [Next]_s => (DiskInv /\ LedgerInv)'
  BY DiskInvStep, LedgerInvStep
<1>2. Init => DiskInv /\ LedgerInv
  BY DiskInvInit, LedgerInvInit
<1>3. QED
  BY <1>1, <1>2, PTL DEF EntrySpec

------------------------------------------------------------------------------
(* No row looks ahead                                                       *)

\* The tapes of the instances are tapes.
LEMMA BarsAreSeconds == Bars \subseteq Second
BY DEF Bars, Below, At, Cross, Above, Second

\* A row of a ledger whose candidate validates: entered between its trigger and
\* the end of the delay, and the same whatever came later.
LEMMA RowIsCausal ==
  ASSUME NEW spec \in EntryCandidateSpec, validate(spec) = "ok", NEW env, NEW r \in LedgerOf(spec, env)
  PROVE  /\ r.trigger <= r.entry /\ r.entry <= r.trigger + spec.D
         /\ \A bars \in [DOMAIN r.event.bars -> Bars] :
              LET other == Later(r.event, bars, r.trigger + spec.D)
              IN /\ Decided(spec, other)
                 /\ [Row(spec, other, env.metrics, r.gate_mode) EXCEPT !.event = r.event] = r
<1>1. PICK ev \in LedgerEvents, mode \in Modes :
           /\ Decided(spec, ev) /\ r = Row(spec, ev, env.metrics, mode)
           /\ r.event = ev /\ r.gate_mode = mode /\ r.trigger = detect(ev)
           /\ r.entry = resolve(spec, ev, detect(ev)).ts
  BY RowOfLedger
<1>2. Agree(ev, ev, detect(ev) + spec.D)
  BY DEF Agree
<1>3. /\ detect(ev) \in Nat /\ detect(ev) <= resolve(spec, ev, detect(ev)).ts
      /\ resolve(spec, ev, detect(ev)).ts <= detect(ev) + spec.D
  BY <1>1, <1>2, DecisionSame
<1>4. detect(ev) + spec.D \in Int
  BY <1>3, HorizonWithinDelay
<1>5. ASSUME NEW bars \in [DOMAIN ev.bars -> Bars]
      PROVE  LET other == Later(ev, bars, detect(ev) + spec.D)
             IN Decided(spec, other) /\ [Row(spec, other, env.metrics, mode) EXCEPT !.event = ev] = r
  <2> DEFINE n == detect(ev) + spec.D
             other == Later(ev, bars, n)
  <2>1. bars \in [DOMAIN ev.bars -> Second]
    BY BarsAreSeconds
  <2>2. n \in Int
    BY <1>4
  <2> HIDE DEF n
  <2>3. other \in LedgerEvents /\ Agree(ev, other, n)
    BY <2>1, <2>2, LaterEvent
  <2> HIDE DEF other
  <2>4. Agree(ev, other, detect(ev) + spec.D)
    BY <2>3 DEF n
  <2>5. /\ Decided(spec, other) /\ detect(other) = detect(ev)
        /\ resolve(spec, other, detect(ev)) = resolve(spec, ev, detect(ev))
    BY <1>1, <2>3, <2>4, DecisionSame
  <2>6. [Row(spec, other, env.metrics, mode) EXCEPT !.event = ev] = Row(spec, ev, env.metrics, mode)
    BY <2>3, <2>5, RowSame
  <2>7. QED
    BY <1>1, <2>5, <2>6 DEF other, n
<1>6. QED
  BY <1>1, <1>3, <1>5

\* Every row of every ledger was decided on what was known D seconds after its
\* trigger: for any later bars the candidate decides the same and books the same
\* row.  Confirmation, post-touch gate and pull-back limit read windows of their
\* own; a candidate whose horizon exceeds its delay never gets this far.
THEOREM NothingIsForeseen == EntrySpec => []NoLookAhead
<1>1. ASSUME DiskInv, LedgerInv, s.at = "summary", NEW i \in DOMAIN s.rows
      PROVE  LET r == s.rows[i]
                 last == r.trigger + s.spec.D
             IN /\ r.trigger <= r.entry /\ r.entry <= last
                /\ \A bars \in [DOMAIN r.event.bars -> Bars] :
                     LET other == Later(r.event, bars, last)
                     IN /\ Decided(s.spec, other)
                        /\ [Row(s.spec, other, s.env.metrics, r.gate_mode) EXCEPT !.event = r.event] = r
  <2>1. s.spec \in EntryCandidateSpec /\ validate(s.spec) = "ok"
    BY <1>1 DEF DiskInv, RecordInv, ProgressInv, Status
  <2>2. s.rows[i] \in LedgerOf(s.spec, s.env)
    BY <1>1 DEF LedgerInv
  <2>3. QED
    BY <2>1, <2>2, RowIsCausal
<1>2. DiskInv /\ LedgerInv => NoLookAhead
  BY <1>1 DEF NoLookAhead
<1>3. QED
  BY <1>2, EntryInvAlways, PTL

------------------------------------------------------------------------------
(* Counters, assertions and report                                          *)

\* The figures of a summary that the checks read.
LEMMA SummaryEffect ==
  ASSUME NEW rows, NEW baseRows, NEW m \in Modes
  PROVE  LET f == build_summary(rows, baseRows).metrics[m]
             I == OfMode(rows, DOMAIN rows, m)
         IN /\ f.trade_count = Cardinality(I)
            /\ f.quality = IF I = {} THEN << >> ELSE <<Total(rows, I, Realistic), Cardinality(I)>>
            /\ f.active = Cardinality(Silos(rows, I)) /\ f.empty = TotalSilos - Cardinality(Silos(rows, I))
            /\ f.finite = Finite(rows, I)
<1>1. build_summary(rows, baseRows).metrics = aggregate(rows, DOMAIN rows, TotalSilos)
  BY DEF build_summary
<1>2. aggregate(rows, DOMAIN rows, TotalSilos)[m]
        = compute_metrics(rows, OfMode(rows, DOMAIN rows, m), TotalSilos)
  BY DEF aggregate
<1> DEFINE I == OfMode(rows, DOMAIN rows, m)
<1> HIDE DEF I
<1>3. build_summary(rows, baseRows).metrics[m] = compute_metrics(rows, I, TotalSilos)
  BY <1>1, <1>2 DEF I
<1>4. QED
  BY <1>3 DEF compute_metrics, I

\* A counter that counts a set is zero when nothing is in it.
LEMMA CountZero ==
  ASSUME NEW S, IsFiniteSet(S)
  PROVE  Cardinality(S) \in Nat /\ (Cardinality(S) = 0 <=> S = {})
BY FS_CardinalityType, FS_EmptySet

\* A set of rows of a ledger is finite.
LEMMA RowSets ==
  ASSUME NEW S, NEW rows \in Seq(S), NEW I \in SUBSET DOMAIN rows
  PROVE  IsFiniteSet(I)
<1>1. DOMAIN rows = 1..Len(rows) /\ Len(rows) \in Nat
  OBVIOUS
<1>2. IsFiniteSet(DOMAIN rows)
  BY <1>1, FS_Interval
<1>3. QED
  BY <1>2, FS_Subset

\* The groups of P3 and the silos of P12 are as many as their rows at most.
LEMMA GroupSets ==
  ASSUME NEW S, NEW rows \in Seq(S), NEW I \in SUBSET DOMAIN rows
  PROVE  IsFiniteSet(BarGroups(rows)) /\ IsFiniteSet(Silos(rows, I))
<1>1. IsFiniteSet(I) /\ IsFiniteSet(DOMAIN rows)
  BY RowSets
<1> DEFINE bar == [i \in DOMAIN rows |-> <<rows[i].month, rows[i].symbol, rows[i].gate_mode>>]
           silo == [i \in I |-> <<rows[i].symbol, rows[i].month>>]
<1>2. bar \in Surjection(DOMAIN rows, BarGroups(rows))
  BY DEF Surjection, BarGroups
<1>3. silo \in Surjection(I, Silos(rows, I))
  BY DEF Surjection, Silos
<1>4. QED
  BY <1>1, <1>2, <1>3, FS_Surjection

\* What P4, P9 and P11 read of a row.
LEMMA RowTypes ==
  ASSUME NEW spec \in EntryCandidateSpec, validate(spec) = "ok", NEW env, NEW r \in LedgerOf(spec, env)
  PROVE  /\ r.pnl.raw \in Int /\ r.pnl.slip \in Int /\ r.pnl.realistic \in Int /\ r.pnl.taker_both \in Int
         /\ r.entry # 0
<1>1. PICK ev \in LedgerEvents, mode \in Modes :
           /\ Decided(spec, ev) /\ r.entry = resolve(spec, ev, detect(ev)).ts
           /\ r.pnl = apply(ev.raw, ev.notional)
  BY RowOfLedger
<1>2. ev.raw \in Int /\ ev.notional \in Nat
  BY EventTypes
<1>3. /\ r.pnl.raw \in Int /\ r.pnl.slip \in Int /\ r.pnl.realistic \in Int /\ r.pnl.taker_both \in Int
  BY <1>1, <1>2 DEF apply, SLIP, MAKER, TAKER
<1>4. Agree(ev, ev, detect(ev) + spec.D)
  BY DEF Agree
<1>5. detect(ev) \in Nat /\ detect(ev) # 0 /\ detect(ev) <= resolve(spec, ev, detect(ev)).ts
  BY <1>1, <1>4, DecisionSame
<1>6. r.entry # 0
  BY <1>1, <1>5
<1>7. QED
  BY <1>3, <1>6

\* P3: the counter is zero when the assertion holds.
LEMMA AgreeP3 ==
  ASSUME NEW S, NEW rows \in Seq(S)
  PROVE  check_p3(rows) \in Nat /\ (check_p3(rows) = 0 <=> assert_invariant_P3(rows))
<1> DEFINE over == {g \in BarGroups(rows) : GroupSize(rows, g) > MaxTradesPerBar}
<1>1. IsFiniteSet(BarGroups(rows))
  BY GroupSets
<1>2. IsFiniteSet(over)
  BY <1>1, FS_Subset
<1>3. check_p3(rows) = Cardinality(over)
  BY DEF check_p3
<1>4. \A g : GroupSize(rows, g) \in Nat
  <2>1. TAKE g
  <2> DEFINE I == {i \in DOMAIN rows : <<rows[i].month, rows[i].symbol, rows[i].gate_mode>> = g}
  <2>2. IsFiniteSet(I)
    BY RowSets
  <2>3. QED
    BY <2>2, CountZero DEF GroupSize
<1>5. over = {} <=> assert_invariant_P3(rows)
  BY <1>4, LimitAssumption DEF assert_invariant_P3
<1> HIDE DEF over
<1>6. QED
  BY <1>2, <1>3, <1>5, CountZero

\* P4: the counter negates the chain, the assertion lists its breaches.
LEMMA AgreeP4 ==
  ASSUME NEW spec \in EntryCandidateSpec, validate(spec) = "ok", NEW env,
         NEW rows \in Seq(LedgerOf(spec, env))
  PROVE  check_p4(rows) \in Nat /\ (check_p4(rows) = 0 <=> assert_invariant_P4(rows))
<1> DEFINE bad == {i \in DOMAIN rows : ~monotonicity_holds(rows[i].pnl)}
<1>1. IsFiniteSet(bad)
  BY RowSets
<1>2. check_p4(rows) = Cardinality(bad)
  BY DEF check_p4
<1>3. \A i \in DOMAIN rows : /\ rows[i].pnl.raw \in Int /\ rows[i].pnl.slip \in Int
                             /\ rows[i].pnl.realistic \in Int /\ rows[i].pnl.taker_both \in Int
  <2>1. \A i \in DOMAIN rows : rows[i] \in LedgerOf(spec, env)
    OBVIOUS
  <2>2. QED
    BY <2>1, RowTypes
<1>4. bad = {} <=> assert_invariant_P4(rows)
  BY <1>3 DEF assert_invariant_P4, monotonicity_holds
<1> HIDE DEF bad
<1>5. QED
  BY <1>1, <1>2, <1>4, CountZero

\* P9: with no notional of zero every row of a mode is priced, and the checker
\* and the assertion recompute the same mean.
LEMMA AgreeP9 ==
  ASSUME NEW S, NEW rows \in Seq(S), NEW baseRows
  PROVE  LET r == build_summary(rows, baseRows)
         IN check_p9(rows, r) \in Nat /\ (check_p9(rows, r) = 0 <=> assert_invariant_P9(rows, r))
<1> DEFINE r == build_summary(rows, baseRows)
           zero == {i \in DOMAIN rows : rows[i].notional = 0}
           I(m) == OfMode(rows, DOMAIN rows, m)
           priced(m) == Priced(rows, I(m))
           q(m) == r.metrics[m].quality
           far(m) == IF r.metrics[m].finite
                       THEN q(m)[1] * Cardinality(priced(m))
                              # Total(rows, priced(m), Realistic) * q(m)[2]
                       ELSE r.metrics[m].infinite
           odd == {m \in Modes : IF r.metrics[m].trade_count = 0 THEN q(m) # << >>
                                 ELSE q(m) = << >> \/ (priced(m) # {} /\ far(m))}
<1>1. check_p9(rows, r) = Cardinality(zero) + Cardinality(odd)
  BY DEF check_p9
<1>2. IsFiniteSet(zero)
  BY RowSets
<1>3. IsFiniteSet(odd)
  <2>1. IsFiniteSet(Modes)
    <3>1. Modes = {"nogate"} \cup {"gate001"}
      BY DEF Modes
    <3>2. QED
      BY <3>1, FS_Singleton, FS_Union
  <2>2. QED
    BY <2>1, FS_Subset
<1>4. CASE zero # {}
  <2>1. ~assert_invariant_P9(rows, r)
    <3>1. ~(\A i \in DOMAIN rows : rows[i].notional # 0)
      BY <1>4
    <3>2. QED
      BY <3>1 DEF assert_invariant_P9
  <2> HIDE DEF zero, odd
  <2>2. Cardinality(zero) \in Nat /\ Cardinality(zero) # 0 /\ Cardinality(odd) \in Nat
    BY <1>2, <1>3, <1>4, CountZero
  <2>3. QED
    BY <1>1, <2>1, <2>2
<1>5. CASE zero = {}
  <2>1. ASSUME NEW m \in Modes
        PROVE  /\ r.metrics[m].finite = TRUE
               /\ priced(m) = I(m) /\ (r.metrics[m].trade_count = 0 <=> I(m) = {})
               /\ q(m) = IF I(m) = {} THEN << >>
                         ELSE <<Total(rows, priced(m), Realistic), Cardinality(priced(m))>>
    <3>1. priced(m) = I(m)
      BY <1>5 DEF Priced, OfMode
    <3>2. I(m) \in SUBSET DOMAIN rows
      BY DEF OfMode
    <3>3. IsFiniteSet(I(m))
      BY <3>2, RowSets
    <3>4. Cardinality(I(m)) = 0 <=> I(m) = {}
      BY <3>3, CountZero
    <3>5. /\ r.metrics[m].trade_count = Cardinality(I(m))
          /\ q(m) = IF I(m) = {} THEN << >> ELSE <<Total(rows, I(m), Realistic), Cardinality(I(m))>>
      BY SummaryEffect
    <3>6. r.metrics[m].finite = TRUE
      BY <3>1, SummaryEffect DEF Finite
    <3>7. QED
      BY <3>1, <3>4, <3>5, <3>6
  <2>2. ASSUME NEW m \in Modes
        PROVE  /\ m \notin odd
               /\ (r.metrics[m].trade_count = 0) <=> (q(m) = << >>)
               /\ q(m) # << >> /\ priced(m) # {} =>
                    q(m)[1] * Cardinality(priced(m)) = Total(rows, priced(m), Realistic) * q(m)[2]
    <3> DEFINE T == Total(rows, priced(m), Realistic)
               N == Cardinality(priced(m))
    <3>1. /\ r.metrics[m].trade_count = 0 <=> I(m) = {}
          /\ q(m) = IF I(m) = {} THEN << >> ELSE <<T, N>>
          /\ r.metrics[m].finite = TRUE
      BY <2>1
    <3> HIDE DEF T, N
    <3>2. <<T, N>> # << >> /\ <<T, N>>[1] = T /\ <<T, N>>[2] = N
      OBVIOUS
    <3>3. /\ r.metrics[m].trade_count = 0 <=> q(m) = << >>
          /\ q(m) # << >> => q(m)[1] * N = T * q(m)[2]
      BY <3>1, <3>2
    <3>4. QED
      BY <3>1, <3>3 DEF T, N
  <2>3. odd = {}
    BY <2>2
  <2>4. assert_invariant_P9(rows, r)
    <3>1. \A i \in DOMAIN rows : rows[i].notional # 0
      BY <1>5
    <3>2. QED
      BY <2>2, <3>1 DEF assert_invariant_P9
  <2> HIDE DEF zero, odd
  <2>5. Cardinality(zero) = 0 /\ Cardinality(odd) = 0
    BY <1>2, <1>3, <1>5, <2>3, CountZero
  <2>6. QED
    BY <1>1, <2>4, <2>5
<1>6. QED
  BY <1>4, <1>5

\* P12: active and empty silos add up to the silos of the calendar.
LEMMA AgreeP12 ==
  ASSUME NEW S, NEW rows \in Seq(S), NEW baseRows
  PROVE  LET r == build_summary(rows, baseRows)
         IN check_p12(r) = 0 /\ assert_invariant_P12(r)
<1> DEFINE r == build_summary(rows, baseRows)
           odd == {m \in Modes : r.metrics[m].active + r.metrics[m].empty # TotalSilos}
<1>1. TotalSilos \in Nat
  BY CalendarAssumption, CountZero DEF TotalSilos
<1>2. ASSUME NEW m \in Modes
      PROVE  /\ r.metrics[m].active \in Nat
             /\ r.metrics[m].empty = TotalSilos - r.metrics[m].active
  <2> DEFINE I == OfMode(rows, DOMAIN rows, m)
  <2>1. I \in SUBSET DOMAIN rows
    BY DEF OfMode
  <2>2. Cardinality(Silos(rows, I)) \in Nat
    BY <2>1, GroupSets, CountZero
  <2>3. /\ r.metrics[m].active = Cardinality(Silos(rows, I))
        /\ r.metrics[m].empty = TotalSilos - Cardinality(Silos(rows, I))
    BY SummaryEffect
  <2>4. QED
    BY <2>2, <2>3
<1> HIDE DEF r
<1>3. odd = {}
  BY <1>1, <1>2
<1>4. Cardinality({}) = 0
  BY FS_EmptySet
<1>5. check_p12(r) = 0
  BY <1>3, <1>4 DEF check_p12
<1>6. assert_invariant_P12(r)
  BY <1>1, <1>2 DEF assert_invariant_P12
<1>7. QED
  BY <1>5, <1>6 DEF r

\* The counters v of a summary r, which never claims a live output.
Counted(rows, r, v) ==
  /\ v.live = FALSE
  /\ v.count["P3"] = check_p3(rows) /\ v.count["P4"] = check_p4(rows)
  /\ v.count["P9"] = check_p9(rows, r) /\ v.count["P12"] = check_p12(r)
  /\ \A c \in Counters \ {"P3", "P4", "P9", "P12"} : v.count[c] = 0

LEMMA CountersEffect ==
  ASSUME NEW rows, NEW baseRows, NEW r, NEW v, r = build_summary(rows, baseRows), v = check(rows, r)
  PROVE  Counted(rows, r, v)
<1>1. r.live = FALSE
  BY DEF build_summary
<1>2. v.live = FALSE
  BY <1>1 DEF check
<1>3. v.count = [c \in Counters |->
        CASE c = "P3" -> check_p3(rows)
          [] c = "P4" -> check_p4(rows)
          [] c = "P9" -> check_p9(rows, r)
          [] c = "P12" -> check_p12(r)
          [] c = "P10" -> (IF r.live THEN 1 ELSE 0)
          [] OTHER -> 0]
  BY DEF check
<1>4. v.count["P3"] = check_p3(rows)
  BY <1>3 DEF Counters
<1>5. v.count["P4"] = check_p4(rows)
  BY <1>3 DEF Counters
<1>6. v.count["P9"] = check_p9(rows, r)
  BY <1>3 DEF Counters
<1>7. v.count["P12"] = check_p12(r)
  BY <1>3 DEF Counters
<1>8. \A c \in Counters \ {"P3", "P4", "P9", "P12"} : v.count[c] = 0
  BY <1>1, <1>3
<1>9. QED
  BY <1>2, <1>4, <1>5, <1>6, <1>7, <1>8 DEF Counted

\* P6: the windows of a split are apart, whatever the month.
LEMMA SplitsApart == \A x \in iter_splits : WindowsApart(x)
<1>1. ASSUME NEW m \in Months
      PROVE  WindowsApart(Split(m))
  <2>1. m \in Int
    BY CalendarAssumption
  <2>2. QED
    BY <2>1 DEF WindowsApart, Split, Apart, TRAIN, VALIDATION
<1>2. QED
  BY <1>1 DEF iter_splits

\* The counters of the checker, the assertions of the test suite and the report of
\* violations tell the same story of every summary, for every ledger a candidate
\* can book: what the one finds the other finds, and a summary without a counter
\* has every assertion behind it.
THEOREM ChecksTellTheSame == EntrySpec => []ChecksAgree
<1>1. ASSUME DiskInv, LedgerInv, s.at = "attribution" PROVE ChecksAgree
  <2> DEFINE r == build_summary(s.rows, s.baseRows)
             v == check(s.rows, r)
  <2>1. s.summary.report = r /\ s.summary.violations = v
    BY <1>1 DEF LedgerInv
  <2>2. s.spec \in EntryCandidateSpec /\ validate(s.spec) = "ok"
    BY <1>1 DEF DiskInv, RecordInv, ProgressInv, Status
  <2>3. s.rows \in Seq(LedgerOf(s.spec, s.env))
    BY <1>1 DEF LedgerInv
  <2>4. check_p3(s.rows) \in Nat /\ (check_p3(s.rows) = 0 <=> assert_invariant_P3(s.rows))
    BY <2>3, AgreeP3
  <2>5. check_p4(s.rows) \in Nat /\ (check_p4(s.rows) = 0 <=> assert_invariant_P4(s.rows))
    BY <2>2, <2>3, AgreeP4
  <2>6. check_p9(s.rows, r) \in Nat /\ (check_p9(s.rows, r) = 0 <=> assert_invariant_P9(s.rows, r))
    BY <2>3, AgreeP9
  <2>7. check_p12(r) = 0 /\ assert_invariant_P12(r)
    BY <2>3, AgreeP12
  <2>8. /\ v.live = FALSE
        /\ v.count["P3"] = check_p3(s.rows) /\ v.count["P4"] = check_p4(s.rows)
        /\ v.count["P9"] = check_p9(s.rows, r) /\ v.count["P12"] = check_p12(r)
        /\ \A c \in Counters \ {"P3", "P4", "P9", "P12"} : v.count[c] = 0
    <3>1. r = build_summary(s.rows, s.baseRows) /\ v = check(s.rows, r)
      OBVIOUS
    <3> HIDE DEF v, r
    <3>2. Counted(s.rows, r, v)
      BY <3>1, CountersEffect, Zenon
    <3>3. QED
      BY <3>2 DEF Counted
  <2> HIDE DEF v, r
  <2>9. \A c \in Counters : v.count[c] \in Nat
    BY <2>4, <2>5, <2>6, <2>7, <2>8
  <2>10. v.count["P1_missing"] = 0 /\ v.count["P1_spurious"] = 0 /\ v.count["P7"] = 0
         /\ v.count["P11"] = 0 /\ v.count["P6"] = 0 /\ v.count["P8"] = 0
    BY <2>8 DEF Counters
  <2>11. assert_invariant_P1(v) /\ assert_invariant_P7(v) /\ assert_invariant_P11(s.rows, v)
    <3>1. \A i \in DOMAIN s.rows : s.rows[i] \in LedgerOf(s.spec, s.env)
      BY <2>3
    <3>2. \A i \in DOMAIN s.rows : s.rows[i].entry # 0
      BY <2>2, <3>1, RowTypes
    <3>3. QED
      BY <2>10, <3>2 DEF assert_invariant_P1, assert_invariant_P7, assert_invariant_P11
  <2>12. assert_invariant_P6(r, v) /\ assert_invariant_P8(v)
    <3>1. "walkforward_splits" \notin DOMAIN r
      BY DEF build_summary, r
    <3>2. QED
      BY <2>10, <3>1 DEF assert_invariant_P6, assert_invariant_P8, walkforward_splits
  <2>13. has_violations(v) <=> collect_violations(v) # {}
    BY <2>8 DEF has_violations, collect_violations
  <2>14. has_violations(v) <=> assert_no_violations(v) # {}
    BY <2>8, <2>9 DEF has_violations, assert_no_violations
  <2>15. QED
    BY <2>1, <2>4, <2>5, <2>6, <2>7, <2>8, <2>11, <2>12, <2>13, <2>14, SplitsApart DEF ChecksAgree
<1>2. DiskInv /\ LedgerInv => ChecksAgree
  BY <1>1 DEF ChecksAgree
<1>3. QED
  BY <1>2, EntryInvAlways, PTL
===============================================================================
