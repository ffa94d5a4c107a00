---------------------- MODULE LiveSessionControlProofs ----------------------
(***************************************************************************)
(* Proofs about LiveSessionControl, for any number of clients, signal      *)
(* evaluations and crashes, one process or two.                            *)
(***************************************************************************)
EXTENDS LiveSessionControl, SequenceTheorems, TLAPS

-----------------------------------------------------------------------------
(* Facts about the operators. *)

\* The goroutines by name.
LEMMA ActorNames ==
    /\ "scanner" \in Actors /\ "recovery" \in Actors
    /\ "runner" \in Processes
    /\ \A c \in Clients : c \in Actors /\ c # "scanner" /\ c # "recovery"
    /\ \A e \in Evaluations : e \in Actors /\ e # "scanner" /\ e # "recovery"
    /\ \A a \in Actors : ProcessOf(a) \in Processes
BY ClientsAssumption DEF Actors, Processes, ProcessOf

\* A session's own actual status is a desired status: never ERROR.
LEMMA ActualStatusType ==
    ASSUME NEW s \in Session
    PROVE  ActualStatusFromSession(s) \in DesiredStatus \ {""}
BY DEF ActualStatusFromSession, Session, ControlState, DesiredStatus,
       ActualStatus, SessionStatus

\* What a request writes is a control state, whatever the command.
LEMMA RequestedStateType ==
    ASSUME NEW s \in Session, NEW what, asked \in Seq(Request)
    PROVE  /\ DesiredBy(s, what) \in DesiredStatus
           /\ ForceBy(what) \in ForceFlag
           /\ RequestedState(s, what) \in ControlState
<1>1. DesiredBy(s, what) \in DesiredStatus
  BY ActualStatusType DEF DesiredBy, DesiredStatus, ActualStatus
<1>2. ActualStatusFromSession(s) \in ActualStatus
  BY ActualStatusType DEF DesiredStatus
<1>3. Len(asked) \in Nat /\ s.state \in ControlState
  BY LenProperties DEF Session
<1>4. ForceBy(what) \in ForceFlag
  BY DEF ForceBy, ForceFlag
<1> QED
  BY <1>1, <1>2, <1>3, <1>4 DEF RequestedState, ControlState

\* The two ways of writing the row keep it a session.
LEMMA RowType ==
    ASSUME row \in Session
    PROVE  /\ \A s \in ControlState :
                UpdateState(s) => /\ row' \in Session
                                  /\ row'.state = s
                                  /\ row'.status = row.status
           /\ \A status \in SessionStatus :
                UpdateStatus(status) => /\ row' \in Session
                                        /\ row'.state = row.state
BY DEF UpdateState, UpdateStatus, Session

\* A goroutine that moves leaves the others where they are.
LEMMA MoveType ==
    ASSUME pc \in [Actors -> Places], copy \in [Actors -> Session],
           row \in Session, NEW a \in Actors, NEW where \in Places,
           Goto(a, where) \/ Read(a, where) \/ Leave(a, where)
    PROVE  /\ pc' \in [Actors -> Places]
           /\ copy' \in [Actors -> Session]
           /\ pc'[a] = where
           /\ \A b \in Actors : b # a => pc'[b] = pc[b] /\ copy'[b] = copy[b]
           /\ \A b \in Actors : copy'[b] \in {copy[b], row, NoSession}
<1>1. NoSession \in Session
  BY DEF NoSession, Session, SessionStatus, ControlState, Uncontrolled,
         DesiredStatus, ActualStatus, ForceFlag
<1> QED
  BY <1>1 DEF Goto, Read, Leave

\* Taking and releasing the control lock keeps its type.
LEMMA LockType ==
    ASSUME lock \in [Processes -> Actors \cup {"nobody"}], NEW a \in Actors,
           TryLock(a) \/ Release(a) \/ UNCHANGED lock
    PROVE  lock' \in [Processes -> Actors \cup {"nobody"}]
BY ActorNames DEF TryLock, Release

\* What the scanner serves and reports is a task.
LEMMA TaskType ==
    ASSUME task \in Tasks
    PROVE  /\ NoTask \in Tasks
           /\ \A what \in ActualStatus :
                \A held \in ForceFlag :
                  [task EXCEPT !.report = what, !.held = held] \in Tasks
           /\ \A s \in Session : FirstReport(s) \in ActualStatus
<1>1. NoTask \in Tasks
  BY DEF Tasks, NoTask, ActualStatus, DesiredStatus, ForceFlag
<1>2. ASSUME NEW what \in ActualStatus, NEW held \in ForceFlag
      PROVE  [task EXCEPT !.report = what, !.held = held] \in Tasks
  BY DEF Tasks
<1>3. \A s \in Session : FirstReport(s) \in ActualStatus
  BY DEF FirstReport, ActualStatus
<1> QED
  BY <1>1, <1>2, <1>3

\* The states the scanner writes are control states.
LEMMA ScannerStateType ==
    ASSUME task \in Tasks, NEW s \in ControlState, asked \in Seq(Request)
    PROVE  /\ MarkedState(s) \in ControlState
           /\ [s EXCEPT !.id = Len(asked) + 1, !.version = @ + 1]
                \in ControlState
           /\ [desired |-> s.desired, force |-> s.force] \in Request
<1>1. Len(asked) \in Nat
  BY LenProperties
<1>2. /\ task.report \in ActualStatus
      /\ (IF task.report = "ERROR" THEN task.id ELSE 0) \in Nat
  BY DEF Tasks
<1>3. MarkedState(s) \in ControlState
  <2>1. \A a \in ActualStatus, f \in ForceFlag, e \in Nat :
          [s EXCEPT !.actual = a, !.force = f, !.error = e] \in ControlState
    BY DEF ControlState
  <2>2. (IF s.force = "" THEN task.held ELSE s.force) \in ForceFlag
    BY DEF ControlState, Tasks
  <2> QED
    BY <1>2, <2>1, <2>2 DEF MarkedState
<1>4. [s EXCEPT !.id = Len(asked) + 1, !.version = @ + 1] \in ControlState
  <2>1. \A i, v \in Nat : [s EXCEPT !.id = i, !.version = v] \in ControlState
    BY DEF ControlState
  <2>2. Len(asked) + 1 \in Nat /\ s.version + 1 \in Nat
    BY <1>1 DEF ControlState
  <2> QED
    BY <2>1, <2>2
<1>5. [desired |-> s.desired, force |-> s.force] \in Request
  BY DEF ControlState, Request
<1> QED
  BY <1>3, <1>4, <1>5

-----------------------------------------------------------------------------
(* Type correctness. *)

\* What a move means for the type of the program counters and the copies.
Moved(a) ==
    /\ pc' \in [Actors -> Places]
    /\ copy' \in [Actors -> Session]
    /\ \A b \in Actors : b # a => pc'[b] = pc[b] /\ copy'[b] = copy[b]
    /\ \A b \in Actors : copy'[b] \in {copy[b], row, NoSession}

\* The lemmas above, for every goroutine and place at once.
LEMMA Moves ==
    ASSUME TypeOK
    PROVE  /\ \A a \in Actors, where \in Places :
                /\ Goto(a, where) => Moved(a) /\ pc'[a] = where /\ copy' = copy
                /\ Read(a, where) =>
                     Moved(a) /\ pc'[a] = where /\ copy'[a] = row
                /\ Leave(a, where) =>
                     Moved(a) /\ pc'[a] = where /\ copy'[a] = NoSession
           /\ \A a \in Actors : TryLock(a) \/ Release(a) \/ lock' = lock =>
                lock' \in [Processes -> Actors \cup {"nobody"}]
           /\ row \in Session /\ row.state \in ControlState
           /\ \A a \in Actors : /\ pc[a] \in Places
                                /\ copy[a] \in Session
                                /\ copy[a].state \in ControlState
<1>1. ASSUME NEW a \in Actors, NEW where \in Places,
             Goto(a, where) \/ Read(a, where) \/ Leave(a, where)
      PROVE  Moved(a) /\ pc'[a] = where
  BY <1>1, MoveType DEF TypeOK, Moved
<1>2. ASSUME NEW a \in Actors, NEW where \in Places
      PROVE  /\ Goto(a, where) => copy' = copy
             /\ Read(a, where) => copy'[a] = row
             /\ Leave(a, where) => copy'[a] = NoSession
  BY DEF Goto, Read, Leave, TypeOK
<1>3. ASSUME NEW a \in Actors, TryLock(a) \/ Release(a) \/ lock' = lock
      PROVE  lock' \in [Processes -> Actors \cup {"nobody"}]
  BY <1>3, LockType DEF TypeOK
<1>4. row \in Session /\ row.state \in ControlState
  BY DEF TypeOK, Session
<1>5. ASSUME NEW a \in Actors
      PROVE  pc[a] \in Places /\ copy[a] \in Session
             /\ copy[a].state \in ControlState
  BY DEF TypeOK, Session
<1> QED
  BY <1>1, <1>2, <1>3, <1>4, <1>5

\* Each step of a client keeps the types.
LEMMA ClientType ==
    ASSUME TypeOK, NEW c \in Clients, ClientStep(c)
    PROVE  TypeOK'
<1>0. tries \in [Clients -> Nat] /\ \A b \in Clients : tries[b] + 1 \in Nat
  <2>1. tries \in [Clients -> Nat]
    BY DEF TypeOK
  <2>2. \A n \in Nat : n + 1 \in Nat
    OBVIOUS
  <2> QED
    BY <2>1, <2>2
<1>1. c \in Actors
  BY ActorNames
<1> USE <1>1, Moves, RowType
<1>2. ASSUME NEW what \in Commands, LoadForRequest(c, what)
      PROVE  TypeOK'
  <2>1. Moved(c)
    BY <1>2 DEF LoadForRequest, Places
  <2>2. command' \in [Clients -> Commands \cup {""}]
    BY <1>2 DEF LoadForRequest, TypeOK
  <2>3. tries' \in [Clients -> Nat]
    BY <1>2, <1>0 DEF LoadForRequest
  <2> QED
    BY <1>2, <2>1, <2>2, <2>3 DEF LoadForRequest, TypeOK, Moved
<1>3. ASSUME NEW what \in Commands, LoadForControl(c, what)
      PROVE  TypeOK'
  <2>1. Moved(c)
    BY <1>3 DEF LoadForControl, Places
  <2> QED
    BY <1>3, <2>1 DEF LoadForControl, TypeOK, Moved
<1>4. CASE AcceptRequest(c)
  <2>1. Moved(c)
    BY <1>4 DEF AcceptRequest, Places
  <2>2. /\ RequestedState(copy[c], command[c]) \in ControlState
        /\ DesiredBy(copy[c], command[c]) \in DesiredStatus
        /\ ForceBy(command[c]) \in ForceFlag
    BY RequestedStateType DEF TypeOK
  <2>3. row' \in Session
    BY <1>4, <2>2 DEF AcceptRequest
  <2>4. asked' \in Seq(Request)
    <3>1. [desired |-> DesiredBy(copy[c], command[c]),
           force |-> ForceBy(command[c])] \in Request
      BY <2>2 DEF Request
    <3> QED
      BY <1>4, <3>1, AppendProperties DEF AcceptRequest, TypeOK
  <2> QED
    BY <1>4, <2>1, <2>3, <2>4 DEF AcceptRequest, TypeOK, Moved
<1>5. CASE RetryRequest(c)
  <2>1. Moved(c)
    BY <1>5 DEF RetryRequest, Places
  <2> QED
    BY <1>5, <2>1 DEF RetryRequest, TypeOK, Moved
<1>6. CASE ClientLock(c)
  <2>1. Moved(c)
    BY <1>6 DEF ClientLock, Places
  <2>2. lock' \in [Processes -> Actors \cup {"nobody"}]
    BY <1>6 DEF ClientLock
  <2> QED
    BY <1>6, <2>1, <2>2 DEF ClientLock, TypeOK, Moved
<1>7. CASE ClientRefused(c)
  <2>1. Moved(c)
    BY <1>7 DEF ClientRefused, Places
  <2> QED
    BY <1>7, <2>1 DEF ClientRefused, TypeOK, Moved
<1>8. CASE ClientStopRuntime(c)
  <2>1. Moved(c)
    BY <1>8 DEF ClientStopRuntime, Places
  <2>2. row' \in Session
    BY <1>8 DEF ClientStopRuntime
  <2> QED
    BY <1>8, <2>1, <2>2 DEF ClientStopRuntime, TypeOK, Moved
<1>9. CASE FlowStop(c)
  <2>1. Moved(c) /\ row' \in Session
    BY <1>9 DEF FlowStop, Places, SessionStatus
  <2> QED
    BY <1>9, <2>1 DEF FlowStop, TypeOK, Moved
<1>10. CASE DeleteClear(c)
  <2>1. [Uncontrolled("STOPPED") EXCEPT !.actual = "STOPPED"] \in ControlState
    BY DEF Uncontrolled, ControlState, DesiredStatus, ActualStatus, ForceFlag
  <2>2. Moved(c) /\ row' \in Session
    BY <1>10, <2>1 DEF DeleteClear, Places
  <2> QED
    BY <1>10, <2>2 DEF DeleteClear, TypeOK, Moved
<1>11. CASE DeleteMark(c)
  <2>1. Moved(c) /\ row' \in Session
    BY <1>11 DEF DeleteMark, Places, SessionStatus
  <2> QED
    BY <1>11, <2>1 DEF DeleteMark, TypeOK, Moved
<1> QED
  BY <1>2, <1>3, <1>4, <1>5, <1>6, <1>7, <1>8, <1>9, <1>10, <1>11
     DEF ClientStep

\* Reporting and serving give the scanner a task.
LEMMA ScannerTasks ==
    ASSUME TypeOK
    PROVE  /\ ScannerIdle => Moved("scanner") /\ task' \in Tasks
           /\ \A what \in ActualStatus :
                Report(what) => Moved("scanner") /\ task' \in Tasks
           /\ \A s \in Session :
                Serve(s) => Moved("scanner") /\ task' \in Tasks
           /\ task \in Tasks
<1>1. task \in Tasks
  BY DEF TypeOK
<1>2. "scanner" \in Actors /\ {"idle", "mark"} \subseteq Places
  BY ActorNames DEF Places
<1>3. ScannerIdle => Moved("scanner") /\ task' \in Tasks
  BY <1>1, <1>2, Moves, TaskType DEF ScannerIdle
<1>4. ASSUME NEW what \in ActualStatus, Report(what)
      PROVE  Moved("scanner") /\ task' \in Tasks
  <2>1. (IF what = "ERROR" THEN task.force ELSE row.state.force) \in ForceFlag
    BY <1>1, Moves DEF Tasks, ControlState
  <2> QED
    BY <1>1, <1>2, <1>4, <2>1, Moves, TaskType DEF Report
<1>5. ASSUME NEW s \in Session, Serve(s)
      PROVE  Moved("scanner") /\ task' \in Tasks
  <2>1. Moved("scanner")
    BY <1>2, <1>5, Moves DEF Serve
  <2>2. FirstReport(s) \in ActualStatus
    BY <1>1, TaskType
  <2>3. [id |-> s.state.id, version |-> s.state.version,
         desired |-> s.state.desired, force |-> s.state.force,
         report |-> FirstReport(s), held |-> s.state.force] \in Tasks
    BY <2>2 DEF Tasks, Session, ControlState
  <2> QED
    BY <1>1, <1>5, <2>1, <2>3 DEF Serve
<1> QED
  BY <1>1, <1>3, <1>4, <1>5

\* Each step of a start or a recovery keeps the types.
LEMMA OperationType ==
    ASSUME TypeOK, NEW a \in {"scanner", "recovery"}, OperationStep(a)
    PROVE  TypeOK'
<1>1. a \in Actors /\ "scanner" \in Actors
  BY ActorNames
<1>2. {"RUNNING", "ERROR"} \subseteq ActualStatus
  BY DEF ActualStatus
<1> USE <1>1, Moves, RowType
<1>3. ASSUME NEW outcome \in ActualStatus, NEW updated \in BOOLEAN,
             Conclude(a, outcome, updated)
      PROVE  /\ Moved(a) /\ task' \in Tasks
             /\ lock' \in [Processes -> Actors \cup {"nobody"}]
  BY <1>3, ScannerTasks DEF Conclude, Places
<1>4. CASE PrepareStart(a)
  <2>1. Moved(a) /\ row' \in Session
    BY <1>4 DEF PrepareStart, Places
  <2> QED
    BY <1>4, <2>1 DEF PrepareStart, TypeOK, Moved
<1>5. CASE SyncRuntime(a)
  <2>1. Moved(a) /\ row' \in Session
    BY <1>5 DEF SyncRuntime, Places
  <2> QED
    BY <1>5, <2>1 DEF SyncRuntime, TypeOK, Moved
<1>6. CASE EnsureRuntime(a)
  <2>1. Moved(a) /\ row' \in Session
    BY <1>6 DEF EnsureRuntime, Places
  <2> QED
    BY <1>6, <2>1 DEF EnsureRuntime, TypeOK, Moved
<1>7. CASE Block(a)
  <2>1. Moved(a) /\ row' \in Session
    BY <1>7 DEF Block, Places
  <2> QED
    BY <1>7, <2>1 DEF Block, TypeOK, Moved
<1>8. CASE MarkBlocked(a)
  <2>1. row' \in Session
    BY <1>8 DEF MarkBlocked, SessionStatus
  <2> QED
    BY <1>2, <1>3, <1>8, <2>1 DEF MarkBlocked, TypeOK, Moved
<1>9. CASE OperationFails(a)
  BY <1>2, <1>3, <1>9 DEF OperationFails, TypeOK, Moved
<1>10. CASE StartStatus(a)
  <2>1. row' \in Session
    BY <1>10 DEF StartStatus, SessionStatus
  <2> QED
    BY <1>2, <1>3, <1>10, <2>1 DEF StartStatus, TypeOK, Moved
<1> QED
  BY <1>4, <1>5, <1>6, <1>7, <1>8, <1>9, <1>10 DEF OperationStep

\* Each step of the scanner keeps the types.
LEMMA ScannerType ==
    ASSUME TypeOK, ScannerStep
    PROVE  TypeOK'
<1>1. "scanner" \in Actors
  BY ActorNames
<1>2. {"RUNNING", "STOPPED", "ERROR"} \subseteq ActualStatus
  BY DEF ActualStatus
<1>3. task \in Tasks
  BY ScannerTasks
<1> USE <1>1, Moves, RowType, ScannerTasks
<1>4. CASE ScanSession
  <2>1. Moved("scanner") /\ task' \in Tasks
    BY <1>4 DEF ScanSession, Places
  <2> QED
    BY <1>4, <2>1 DEF ScanSession, TypeOK, Moved
<1>5. CASE InitializeLegacyRequest
  <2> DEFINE old == copy["scanner"].state
             next == [old EXCEPT !.id = Len(asked) + 1, !.version = @ + 1]
  <2>1. /\ next \in ControlState
        /\ [desired |-> next.desired, force |-> next.force] \in Request
    <3>1. old \in ControlState /\ asked \in Seq(Request)
      BY DEF TypeOK
    <3>2. next \in ControlState
      BY <1>3, <3>1, ScannerStateType
    <3> HIDE DEF next
    <3> QED
      BY <1>3, <3>1, <3>2, ScannerStateType
  <2> HIDE DEF next
  <2>2. [status |-> row.status, state |-> next] \in Session
    BY <2>1 DEF Session
  <2>3. \/ /\ UpdateState(next)
           /\ asked' = Append(asked, [desired |-> next.desired,
                                      force |-> next.force])
           /\ Serve([status |-> row.status, state |-> next])
        \/ ScannerIdle /\ UNCHANGED <<row, asked>>
    BY <1>5 DEF InitializeLegacyRequest, next
  <2>4. Moved("scanner") /\ task' \in Tasks /\ row' \in Session
    BY <2>1, <2>2, <2>3
  <2>5. asked' \in Seq(Request)
    <3>1. asked \in Seq(Request)
      BY DEF TypeOK
    <3>2. \A r \in Request : Append(asked, r) \in Seq(Request)
      BY <3>1, AppendProperties
    <3> QED
      BY <2>1, <2>3, <3>1, <3>2
  <2> QED
    BY <1>5, <2>4, <2>5
       DEF InitializeLegacyRequest, TypeOK, Moved
<1>6. CASE MarkLoad
  <2>1. Moved("scanner") /\ task' \in Tasks
    BY <1>6 DEF MarkLoad, Places
  <2> QED
    BY <1>6, <2>1 DEF MarkLoad, TypeOK, Moved
<1>7. CASE MarkCommit
  <2>1. Moved("scanner") /\ task' \in Tasks
    BY <1>7 DEF MarkCommit, Places
  <2>2. MarkedState(copy["scanner"].state) \in ControlState
    BY <1>3, ScannerStateType DEF TypeOK
  <2>3. row' \in Session
    BY <1>7, <2>2 DEF MarkCommit
  <2> QED
    BY <1>7, <2>1, <2>3 DEF MarkCommit, TypeOK, Moved
<1>8. CASE MarkStale
  <2>1. Moved("scanner")
    BY <1>8 DEF MarkStale, Places
  <2> QED
    BY <1>8, <2>1 DEF MarkStale, TypeOK, Moved
<1>9. CASE LoadStale
  <2>1. Moved("scanner") /\ task' \in Tasks
    BY <1>9 DEF LoadStale, Places
  <2> QED
    BY <1>9, <2>1 DEF LoadStale, TypeOK, Moved
<1>10. CASE RecordStaleDiscard
  <2>1. Moved("scanner") /\ task' \in Tasks /\ row' \in Session
    BY <1>10 DEF RecordStaleDiscard
  <2> QED
    BY <1>10, <2>1 DEF RecordStaleDiscard, TypeOK, Moved
<1>11. CASE LoadForOperation
  <2>1. Moved("scanner")
    BY <1>11 DEF LoadForOperation, Places
  <2> QED
    BY <1>11, <2>1 DEF LoadForOperation, TypeOK, Moved
<1>12. CASE OperationRefused
  <2>1. Moved("scanner") /\ task' \in Tasks
    BY <1>2, <1>12 DEF OperationRefused
  <2> QED
    BY <1>12, <2>1 DEF OperationRefused, TypeOK, Moved
<1>13. CASE OperationLocked
  <2>1. Moved("scanner")
    BY <1>13 DEF OperationLocked, Places
  <2> QED
    BY <1>13, <2>1 DEF OperationLocked, TypeOK, Moved
<1>14. CASE StopRuntime
  <2>1. Moved("scanner") /\ row' \in Session
    BY <1>14 DEF StopRuntime, Places
  <2> QED
    BY <1>14, <2>1 DEF StopRuntime, TypeOK, Moved
<1>15. CASE StopStatus
  <2>1. Moved("scanner") /\ row' \in Session /\ task' \in Tasks
    BY <1>2, <1>15 DEF StopStatus, SessionStatus
  <2> QED
    BY <1>15, <2>1 DEF StopStatus, TypeOK, Moved
<1>16. CASE OperationStep("scanner")
  BY <1>16, OperationType
<1> QED
  BY <1>4, <1>5, <1>6, <1>7, <1>8, <1>9, <1>10, <1>11, <1>12, <1>13, <1>14,
     <1>15, <1>16 DEF ScannerStep

\* Each step of recovery keeps the types.
LEMMA RecoveryType ==
    ASSUME TypeOK, RecoveryStep
    PROVE  TypeOK'
<1>1. "recovery" \in Actors
  BY ActorNames
<1> USE <1>1, Moves, RowType
<1>2. CASE RecoveryList
  <2>1. Moved("recovery")
    BY <1>2 DEF RecoveryList, Places
  <2> QED
    BY <1>2, <2>1 DEF RecoveryList, TypeOK, Moved
<1>3. CASE RecoveryLock
  <2>1. /\ Moved("recovery")
        /\ lock' \in [Processes -> Actors \cup {"nobody"}]
    BY <1>3 DEF RecoveryLock, Places
  <2> QED
    BY <1>3, <2>1 DEF RecoveryLock, TypeOK, Moved
<1>4. CASE RecoveryNote
  <2>1. /\ Moved("recovery") /\ row' \in Session
        /\ lock' \in [Processes -> Actors \cup {"nobody"}]
    BY <1>4 DEF RecoveryNote, Places
  <2> QED
    BY <1>4, <2>1 DEF RecoveryNote, TypeOK, Moved
<1>5. CASE OperationStep("recovery")
  BY <1>5, OperationType
<1> QED
  BY <1>2, <1>3, <1>4, <1>5 DEF RecoveryStep

\* Signal evaluations and crashes keep the types.
LEMMA RunnerType ==
    ASSUME TypeOK,
           \/ \E e \in Evaluations : EvaluationLoad(e) \/ EvaluationWrite(e)
           \/ Crash
    PROVE  TypeOK'
<1> USE Moves, RowType
<1>1. ASSUME NEW e \in Evaluations, EvaluationLoad(e)
      PROVE  TypeOK'
  <2>1. Moved(e)
    BY <1>1, ActorNames DEF EvaluationLoad, Places
  <2> QED
    BY <1>1, <2>1 DEF EvaluationLoad, TypeOK, Moved
<1>2. ASSUME NEW e \in Evaluations, EvaluationWrite(e)
      PROVE  TypeOK'
  <2>1. Moved(e) /\ row' \in Session
    BY <1>2, ActorNames DEF EvaluationWrite, Places
  <2> QED
    BY <1>2, <2>1 DEF EvaluationWrite, TypeOK, Moved
<1>3. CASE Crash
  <2>1. NoSession \in Session
    BY DEF NoSession, Session, SessionStatus, ControlState, Uncontrolled,
           DesiredStatus, ActualStatus, ForceFlag
  <2>2. pc' \in [Actors -> Places]
    BY <1>3 DEF Crash, Places, TypeOK
  <2>3. copy' \in [Actors -> Session]
    BY <1>3, <2>1 DEF Crash, TypeOK
  <2>4. lock' \in [Processes -> Actors \cup {"nobody"}]
    BY <1>3, ActorNames DEF Crash, TypeOK
  <2>5. task' \in Tasks /\ crashes' \in Nat
    <3>1. crashes \in Nat
      BY DEF TypeOK
    <3>2. crashes' \in Nat
      BY <1>3, <3>1 DEF Crash
    <3>3. task' \in Tasks
      BY <1>3, ScannerTasks, TaskType DEF Crash
    <3> QED
      BY <3>2, <3>3
  <2> QED
    BY <1>3, <2>2, <2>3, <2>4, <2>5 DEF Crash, TypeOK
<1> QED
  BY <1>1, <1>2, <1>3

\* Every initial state is well typed.
LEMMA InitType == Init => TypeOK
<1> SUFFICES ASSUME Init
             PROVE  TypeOK
  OBVIOUS
<1>1. /\ \A d \in DesiredStatus : Uncontrolled(d) \in ControlState
      /\ NoSession \in Session
  BY DEF NoSession, Session, SessionStatus, ControlState, Uncontrolled,
         DesiredStatus, ActualStatus, ForceFlag
<1>2. row \in Session
  <2>1. Legacy \cup {""} \subseteq DesiredStatus
    BY LegacyAssumption DEF DesiredStatus, ActualStatus
  <2>2. {Uncontrolled(d) : d \in Legacy \cup {""}} \subseteq ControlState
    BY <1>1, <2>1
  <2> QED
    BY <2>2 DEF Init, InitialSessions, Session, SessionStatus
<1>3. NoTask \in Tasks
  BY DEF Tasks, NoTask, ActualStatus, DesiredStatus, ForceFlag
<1>4. pc \in [Actors -> Places] /\ copy \in [Actors -> Session]
  BY <1>1 DEF Init, Places
<1>5. asked \in Seq(Request)
  BY EmptySeq DEF Init
<1> QED
  BY <1>2, <1>3, <1>4, <1>5 DEF Init, TypeOK

\* No step leaves the types.
LEMMA StepType == TypeOK /\ [Next]_vars => TypeOK'
<1> SUFFICES ASSUME TypeOK, [Next]_vars
             PROVE  TypeOK'
  OBVIOUS
<1>1. CASE UNCHANGED vars
  BY <1>1 DEF vars, TypeOK
<1> QED
  BY <1>1, ClientType, ScannerType, RecoveryType, RunnerType DEF Next

\* The session row, every copy of it and what the scanner serves stay
\* well formed: no handler writes ERROR as a desired status, whatever actual
\* status it found, and the scanner reports none outside the six it knows.
THEOREM TypeCorrect == Spec => []TypeOK
BY InitType, StepType, PTL DEF Spec

-----------------------------------------------------------------------------
(* The inductive invariant: what a session row, or any copy of it, says    *)
(* about its request is what the request with that id asked for, so no     *)
(* stale write can mix the keys of two requests.                           *)

\* A request id is backed by the log of accepted requests.
Backed(id, desired, force, version, log) ==
    /\ id \in 1..Len(log)
    /\ desired = log[id].desired
    /\ log[id].force # "" => force = log[id].force
    /\ version > 0

Faithful(s, log) ==
    /\ s.id # 0 => Backed(s.id, s.desired, s.force, s.version, log)
    /\ s.actual = "ERROR" => s.id # 0 /\ s.error = s.id

RowsFaithful ==
    Faithful(row.state, asked) /\ \A a \in Actors : Faithful(copy[a].state, asked)

\* The scanner serves a request that was asked for and reports what it does.
TaskFaithful ==
    /\ pc["scanner"] \notin {"idle", "legacy"} =>
         /\ Backed(task.id, task.desired, task.force, task.version, asked)
         /\ task.report = "STARTING" => task.desired = "RUNNING"
         /\ task.report = "STOPPING" => task.desired = "STOPPED"
    /\ pc["scanner"] \in {"load", "lock"} =>
         task.report \in {"STARTING", "STOPPING"}
    /\ pc["scanner"] \in {"start", "sync", "ensure", "ready", "block"} =>
         task.report = "STARTING"
    /\ pc["scanner"] \in {"stop", "status"} => task.report = "STOPPING"
    /\ pc["scanner"] = "commit" => copy["scanner"].state.id = task.id
    /\ pc["scanner"] = "legacy" => copy["scanner"].state.id = 0

IInv == TypeOK /\ RowsFaithful /\ TaskFaithful

\* The log of accepted requests is only added to.
Grows ==
    /\ asked' \in Seq(Request)
    /\ Len(asked) \in Nat /\ Len(asked') \in Nat
    /\ Len(asked) <= Len(asked')
    /\ \A i \in 1..Len(asked) : asked'[i] = asked[i]

\* Facts about the log survive an accepted request.
LEMMA LogGrows ==
    ASSUME TypeOK,
           \/ asked' = asked
           \/ \E r \in Request : asked' = Append(asked, r)
    PROVE  Grows
<1>1. asked \in Seq(Request) /\ Len(asked) \in Nat
  BY LenProperties DEF TypeOK
<1>2. CASE asked' = asked
  BY <1>1, <1>2 DEF Grows
<1>3. ASSUME NEW r \in Request, asked' = Append(asked, r)
      PROVE  Grows
  <2>1. /\ asked' \in Seq(Request)
        /\ Len(asked') = Len(asked) + 1
        /\ \A i \in 1..Len(asked) : asked'[i] = asked[i]
    BY <1>1, <1>3, AppendProperties
  <2> QED
    BY <1>1, <2>1 DEF Grows
<1> QED
  BY <1>2, <1>3

\* A state that matched the log matches the longer one.
LEMMA FaithfulGrows ==
    ASSUME Grows
    PROVE  /\ \A s \in ControlState : Faithful(s, asked) => Faithful(s, asked')
           /\ \A id, version \in Nat : \A desired, force :
                Backed(id, desired, force, version, asked)
                => Backed(id, desired, force, version, asked')
<1>1. \A id, version \in Nat : \A desired, force :
        Backed(id, desired, force, version, asked)
        => Backed(id, desired, force, version, asked')
  <2> SUFFICES ASSUME NEW id \in Nat, NEW version \in Nat, NEW desired,
                      NEW force, Backed(id, desired, force, version, asked)
               PROVE  Backed(id, desired, force, version, asked')
    OBVIOUS
  <2>1. id \in 1..Len(asked') /\ asked'[id] = asked[id]
    <3>1. id \in 1..Len(asked)
      BY DEF Backed
    <3> QED
      BY <3>1 DEF Grows
  <2> QED
    BY <2>1 DEF Backed
<1>2. ASSUME NEW s \in ControlState, Faithful(s, asked)
      PROVE  Faithful(s, asked')
  <2>1. s.id \in Nat /\ s.version \in Nat
    BY DEF ControlState
  <2> QED
    BY <1>1, <1>2, <2>1 DEF Faithful
<1> QED
  BY <1>1, <1>2

\* A step that writes a faithful state and moves one goroutine keeps every
\* row faithful.
LEMMA RowsStep ==
    ASSUME TypeOK, RowsFaithful, Grows,
           Faithful(row'.state, asked'),
           \A b \in Actors : copy'[b] \in {copy[b], row, NoSession}
    PROVE  RowsFaithful'
<1>1. /\ Faithful(row.state, asked')
      /\ \A a \in Actors : Faithful(copy[a].state, asked')
  BY Moves, FaithfulGrows DEF RowsFaithful
<1>2. Faithful(NoSession.state, asked')
  BY DEF Faithful, NoSession, Uncontrolled
<1>3. \A a \in Actors : Faithful(copy'[a].state, asked')
  BY <1>1, <1>2
<1> QED
  BY <1>3 DEF RowsFaithful

\* The writes of a goroutine that leaves the log alone: the row itself, or a
\* copy of it.
LEMMA WritesFaithful ==
    ASSUME TypeOK, RowsFaithful, Grows
    PROVE  /\ UNCHANGED row => Faithful(row'.state, asked')
           /\ \A status \in SessionStatus :
                UpdateStatus(status) => Faithful(row'.state, asked')
           /\ \A a \in Actors :
                UpdateState(copy[a].state) => Faithful(row'.state, asked')
BY Moves, RowType, FaithfulGrows DEF RowsFaithful

\* Steps of the other goroutines leave the scanner alone.
LEMMA TaskStep ==
    ASSUME TypeOK, TaskFaithful, Grows, UNCHANGED task,
           pc'["scanner"] = pc["scanner"],
           copy'["scanner"] = copy["scanner"]
    PROVE  TaskFaithful'
<1>1. task.id \in Nat /\ task.version \in Nat
  BY DEF TypeOK, Tasks
<1> QED
  BY <1>1, FaithfulGrows DEF TaskFaithful

\* A request that is accepted is logged with what it writes.
LEMMA AcceptFaithful ==
    ASSUME TypeOK, NEW c \in Clients, AcceptRequest(c)
    PROVE  Grows /\ Faithful(row'.state, asked')
<1> DEFINE next == RequestedState(copy[c], command[c])
           r == [desired |-> DesiredBy(copy[c], command[c]),
                 force |-> ForceBy(command[c])]
<1>1. copy[c] \in Session /\ copy[c].state \in ControlState
  BY Moves, ActorNames
<1>2. asked \in Seq(Request) /\ Len(asked) \in Nat
  BY LenProperties DEF TypeOK
<1>3. next \in ControlState /\ r \in Request
  BY <1>1, <1>2, RequestedStateType DEF Request
<1>4. row'.state = next /\ asked' = Append(asked, r)
  <2> HIDE DEF next
  <2>1. UpdateState(next) /\ asked' = Append(asked, r)
    BY DEF AcceptRequest, next
  <2> QED
    BY <1>3, <2>1, Moves, RowType
<1>5. /\ Len(asked') = Len(asked) + 1
      /\ asked'[Len(asked) + 1] = r
  BY <1>2, <1>3, <1>4, AppendProperties
<1>6. /\ next.id = Len(asked) + 1
      /\ next.desired = r.desired /\ next.force = r.force
      /\ next.version = copy[c].state.version + 1
      /\ next.actual # "ERROR"
  BY <1>1, ActualStatusType DEF RequestedState, DesiredStatus
<1>7. copy[c].state.version \in Nat
  BY <1>1 DEF ControlState
<1>8. Grows
  BY <1>3, <1>4, LogGrows
<1> HIDE DEF next, r
<1>9. Backed(next.id, next.desired, next.force, next.version, asked')
  <2>1. next.id \in 1..Len(asked') /\ next.version > 0
    BY <1>2, <1>5, <1>6, <1>7
  <2>2. asked'[next.id] = r
    BY <1>5, <1>6
  <2> QED
    BY <1>6, <2>1, <2>2 DEF Backed
<1> QED
  BY <1>4, <1>6, <1>8, <1>9 DEF Faithful

\* Each step of a client keeps the rows and the scanner's task faithful.
LEMMA ClientFaithful ==
    ASSUME IInv, NEW c \in Clients, ClientStep(c)
    PROVE  RowsFaithful' /\ TaskFaithful'
<1>1. c \in Actors /\ c # "scanner" /\ "scanner" \in Actors
  BY ActorNames
<1>2. TypeOK /\ RowsFaithful /\ TaskFaithful
  BY DEF IInv
<1>3. ASSUME Moved(c), UNCHANGED task, Grows, Faithful(row'.state, asked')
      PROVE  RowsFaithful' /\ TaskFaithful'
  BY <1>1, <1>2, <1>3, RowsStep, TaskStep DEF Moved
<1>4. CASE AcceptRequest(c)
  <2>1. Moved(c) /\ UNCHANGED task
    BY <1>1, <1>2, <1>4, Moves DEF AcceptRequest, Places
  <2> QED
    BY <1>2, <1>3, <1>4, <2>1, AcceptFaithful
<1>5. CASE ~AcceptRequest(c)
  <2>1. Moved(c) /\ UNCHANGED <<task, asked>>
    BY <1>1, <1>2, <1>5, Moves
       DEF ClientStep, LoadForRequest, LoadForControl, RetryRequest,
           ClientLock, ClientRefused, ClientStopRuntime, FlowStop,
           DeleteClear, DeleteMark, Places
  <2>2. Grows
    BY <1>2, <2>1, LogGrows
  <2>3. CASE DeleteClear(c)
    <3> DEFINE cleared == [Uncontrolled("STOPPED") EXCEPT !.actual = "STOPPED"]
    <3>1. cleared \in ControlState
      BY DEF Uncontrolled, ControlState, DesiredStatus, ActualStatus, ForceFlag
    <3>2. Faithful(cleared, asked')
      BY DEF Faithful, Uncontrolled
    <3>3. UpdateState(cleared)
      BY <2>3 DEF DeleteClear
    <3> HIDE DEF cleared
    <3>4. row'.state = cleared
      BY <1>2, <3>1, <3>3, Moves, RowType
    <3> QED
      BY <1>3, <2>1, <2>2, <3>2, <3>4
  <2>4. CASE ~DeleteClear(c)
    <3>1. \/ UNCHANGED row
          \/ UpdateState(copy[c].state)
          \/ \E status \in SessionStatus : UpdateStatus(status)
      BY <1>5, <2>4
         DEF ClientStep, LoadForRequest, LoadForControl, RetryRequest,
             ClientLock, ClientRefused, ClientStopRuntime, FlowStop,
             DeleteMark, SessionStatus
    <3>2. Faithful(row'.state, asked')
      BY <1>1, <1>2, <2>2, <3>1, WritesFaithful
    <3> QED
      BY <1>3, <2>1, <2>2, <3>2
  <2> QED
    BY <2>3, <2>4
<1> QED
  BY <1>4, <1>5

\* Recovery, evaluations and crashes keep them faithful.
LEMMA RunnerFaithful ==
    ASSUME IInv,
           \/ RecoveryStep
           \/ \E e \in Evaluations : EvaluationLoad(e) \/ EvaluationWrite(e)
    PROVE  RowsFaithful' /\ TaskFaithful'
<1>1. TypeOK /\ RowsFaithful /\ TaskFaithful
  BY DEF IInv
<1>2. PICK a \in Actors :
        /\ a # "scanner"
        /\ Moved(a) /\ UNCHANGED <<task, asked>>
        /\ \/ UNCHANGED row
           \/ UpdateState(copy[a].state)
           \/ \E status \in SessionStatus : UpdateStatus(status)
  <2>1. "recovery" \in Actors /\ "recovery" # "scanner"
    BY ActorNames
  <2>2. CASE RecoveryStep
    <3>1. Moved("recovery") /\ UNCHANGED <<task, asked>>
      BY <1>1, <2>1, <2>2, Moves
         DEF RecoveryStep, RecoveryList, RecoveryLock, RecoveryNote,
             OperationStep, PrepareStart, SyncRuntime, EnsureRuntime, Block,
             MarkBlocked, OperationFails, StartStatus, Conclude, Places
    <3>2. \/ UNCHANGED row
          \/ UpdateState(copy["recovery"].state)
          \/ \E status \in SessionStatus : UpdateStatus(status)
      BY <2>2
         DEF RecoveryStep, RecoveryList, RecoveryLock, RecoveryNote,
             OperationStep, PrepareStart, SyncRuntime, EnsureRuntime, Block,
             MarkBlocked, OperationFails, StartStatus, SessionStatus
    <3> QED
      BY <2>1, <3>1, <3>2
  <2>3. ASSUME NEW e \in Evaluations, EvaluationLoad(e) \/ EvaluationWrite(e)
        PROVE  /\ e \in Actors /\ e # "scanner"
               /\ Moved(e) /\ UNCHANGED <<task, asked>>
               /\ UNCHANGED row \/ UpdateState(copy[e].state)
    BY <1>1, <2>3, ActorNames, Moves
       DEF EvaluationLoad, EvaluationWrite, Places
  <2> QED
    BY <2>2, <2>3
<1>3. Grows
  BY <1>1, <1>2, LogGrows
<1>4. Faithful(row'.state, asked')
  BY <1>1, <1>2, <1>3, WritesFaithful
<1> QED
  BY <1>1, <1>2, <1>3, <1>4, ActorNames, RowsStep, TaskStep DEF Moved

\* After a crash the scanner serves nothing.
LEMMA CrashFaithful ==
    ASSUME IInv, Crash
    PROVE  RowsFaithful' /\ TaskFaithful'
<1>1. TypeOK /\ RowsFaithful
  BY DEF IInv
<1>2. Grows
  BY <1>1, LogGrows DEF Crash
<1>3. Faithful(row'.state, asked')
  BY <1>1, <1>2, WritesFaithful DEF Crash
<1>4. \A b \in Actors : copy'[b] \in {copy[b], row, NoSession}
  BY DEF Crash
<1>5. pc'["scanner"] = "idle"
  BY ActorNames DEF Crash
<1>6. TaskFaithful'
  BY <1>5 DEF TaskFaithful
<1> QED
  BY <1>1, <1>2, <1>3, <1>4, <1>6, RowsStep

\* The scanner takes its task from a session that has a request.
LEMMA ServeFaithful ==
    ASSUME TypeOK, NEW s \in Session, Serve(s), s.state.id # 0,
           Faithful(s.state, asked')
    PROVE  TaskFaithful'
<1>1. "scanner" \in Actors /\ {"idle", "mark"} \subseteq Places
  BY ActorNames DEF Places
<1>2. CASE s.state.desired \in {"RUNNING", "STOPPED"}
  <2>1. /\ pc'["scanner"] = "mark"
        /\ task' = [id |-> s.state.id, version |-> s.state.version,
                    desired |-> s.state.desired, force |-> s.state.force,
                    report |-> FirstReport(s), held |-> s.state.force]
    BY <1>1, <1>2, Moves DEF Serve
  <2>2. Backed(task'.id, task'.desired, task'.force, task'.version, asked')
    BY <2>1 DEF Faithful
  <2>3. /\ task'.report = "STARTING" => task'.desired = "RUNNING"
        /\ task'.report = "STOPPING" => task'.desired = "STOPPED"
    BY <1>2, <2>1 DEF FirstReport
  <2> QED
    BY <2>1, <2>2, <2>3 DEF TaskFaithful
<1>3. CASE s.state.desired \notin {"RUNNING", "STOPPED"}
  <2>1. pc'["scanner"] = "idle"
    BY <1>1, <1>3, Moves DEF Serve
  <2> QED
    BY <2>1 DEF TaskFaithful
<1> QED
  BY <1>2, <1>3

\* A request made up for an older session is logged with what it writes.
LEMMA LegacyFaithful ==
    ASSUME IInv, InitializeLegacyRequest
    PROVE  RowsFaithful' /\ TaskFaithful'
<1> DEFINE old == copy["scanner"].state
           next == [old EXCEPT !.id = Len(asked) + 1, !.version = @ + 1]
           r == [desired |-> next.desired, force |-> next.force]
<1>1. TypeOK /\ RowsFaithful /\ "scanner" \in Actors
  BY ActorNames DEF IInv
<1>2. /\ old \in ControlState /\ old.id = 0 /\ old.actual # "ERROR"
      /\ old.version \in Nat
  <2>1. old \in ControlState /\ Faithful(old, asked) /\ old.id = 0
    BY <1>1, Moves DEF IInv, TaskFaithful, RowsFaithful,
                       InitializeLegacyRequest
  <2> QED
    BY <2>1 DEF Faithful, ControlState
<1>3. asked \in Seq(Request) /\ Len(asked) \in Nat
  BY <1>1, LenProperties DEF TypeOK
<1>4. next \in ControlState
  BY <1>1, <1>2, <1>3, ScannerTasks, ScannerStateType
<1>5. /\ next.id = Len(asked) + 1 /\ next.version = old.version + 1
      /\ next.actual # "ERROR"
  <2>1. \A i, v \in Nat :
          LET n == [old EXCEPT !.id = i, !.version = v] IN
          n.id = i /\ n.version = v /\ n.actual = old.actual
    BY <1>2 DEF ControlState
  <2>2. Len(asked) + 1 \in Nat /\ old.version + 1 \in Nat
    BY <1>2, <1>3
  <2> QED
    BY <1>2, <2>1, <2>2
<1> HIDE DEF next
<1>6. \/ /\ UpdateState(next)
         /\ asked' = Append(asked, r)
         /\ Serve([status |-> row.status, state |-> next])
      \/ ScannerIdle /\ UNCHANGED <<row, asked>>
  BY DEF InitializeLegacyRequest, next
<1>7. r \in Request
  BY <1>1, <1>3, <1>4, ScannerTasks, ScannerStateType
<1>8. Grows
  BY <1>1, <1>6, <1>7, LogGrows
<1>9. Moved("scanner")
  <2>1. [status |-> row.status, state |-> next] \in Session
    BY <1>1, <1>4, Moves DEF Session
  <2> QED
    BY <1>1, <1>6, <2>1, ScannerTasks
<1>10. CASE UpdateState(next) /\ asked' = Append(asked, r)
            /\ Serve([status |-> row.status, state |-> next])
  <2>1. row'.state = next
    BY <1>1, <1>4, <1>10, Moves, RowType
  <2>2. Len(asked') = Len(asked) + 1 /\ asked'[Len(asked) + 1] = r
    BY <1>3, <1>7, <1>10, AppendProperties
  <2>3. Backed(next.id, next.desired, next.force, next.version, asked')
    BY <1>2, <1>3, <1>5, <2>2 DEF Backed
  <2>4. Faithful(next, asked') /\ next.id # 0
    BY <1>3, <1>5, <2>3 DEF Faithful
  <2>5. RowsFaithful'
    BY <1>1, <1>8, <1>9, <2>1, <2>4, RowsStep DEF Moved
  <2>6. [status |-> row.status, state |-> next] \in Session
    BY <1>1, <1>4, Moves DEF Session
  <2>7. TaskFaithful'
    BY <1>1, <1>10, <2>4, <2>6, ServeFaithful
  <2> QED
    BY <2>5, <2>7
<1>11. CASE ScannerIdle /\ UNCHANGED <<row, asked>>
  <2>1. pc'["scanner"] = "idle"
    BY <1>1, <1>11, Moves DEF ScannerIdle, Places
  <2>2. TaskFaithful'
    BY <2>1 DEF TaskFaithful
  <2>3. Faithful(row'.state, asked')
    BY <1>1, <1>8, <1>11, WritesFaithful
  <2> QED
    BY <1>1, <1>8, <1>9, <2>2, <2>3, RowsStep DEF Moved
<1> QED
  BY <1>6, <1>10, <1>11

\* The report of the actual status is about the request it was written for.
LEMMA MarkFaithful ==
    ASSUME IInv, MarkCommit
    PROVE  Faithful(row'.state, asked)
<1>1. TypeOK /\ "scanner" \in Actors /\ task \in Tasks
  BY ActorNames, ScannerTasks DEF IInv
<1> DEFINE s == copy["scanner"].state
<1>2. /\ s \in ControlState /\ s.id = task.id
      /\ s.id # 0 /\ Backed(s.id, s.desired, s.force, s.version, asked)
  <2>1. /\ s \in ControlState /\ Faithful(s, asked) /\ s.id = task.id
        /\ task.id \in 1..Len(asked)
    BY <1>1, Moves DEF IInv, TaskFaithful, RowsFaithful, MarkCommit, Backed
  <2> QED
    BY <2>1 DEF Faithful
<1>3. MarkedState(s) \in ControlState
  BY <1>1, <1>2, ScannerStateType DEF TypeOK
<1>4. row'.state = MarkedState(s)
  BY <1>1, <1>3, Moves, RowType DEF MarkCommit
<1> DEFINE n == MarkedState(s)
<1>5. /\ n.id = s.id /\ n.desired = s.desired
      /\ s.force # "" => n.force = s.force
      /\ n.version = s.version
      /\ n.actual = "ERROR" => n.error = task.id
  <2>1. PICK f : /\ s.force # "" => f = s.force
                 /\ n = [s EXCEPT !.actual = task.report, !.force = f,
                          !.error = IF task.report = "ERROR" THEN task.id
                                    ELSE 0]
    BY DEF MarkedState
  <2> HIDE DEF n
  <2> QED
    BY <1>2, <2>1 DEF ControlState
<1> HIDE DEF n
<1>6. Backed(n.id, n.desired, n.force, n.version, asked)
  BY <1>2, <1>5 DEF Backed
<1> QED
  BY <1>2, <1>4, <1>5, <1>6 DEF Faithful, n

\* Each step of the scanner keeps the rows and its task faithful.
LEMMA ScannerFaithful ==
    ASSUME IInv, ScannerStep
    PROVE  RowsFaithful' /\ TaskFaithful'
<1>1. TypeOK /\ RowsFaithful /\ TaskFaithful /\ "scanner" \in Actors
  BY ActorNames DEF IInv
<1>2. ASSUME UNCHANGED asked, Moved("scanner"), Faithful(row'.state, asked)
      PROVE  RowsFaithful'
  <2>1. Grows
    BY <1>1, <1>2, LogGrows
  <2> QED
    BY <1>1, <1>2, <2>1, RowsStep DEF Moved
<1>3. ASSUME UNCHANGED asked,
             \/ UNCHANGED row
             \/ UpdateState(copy["scanner"].state)
             \/ \E status \in SessionStatus : UpdateStatus(status)
      PROVE  Faithful(row'.state, asked)
  <2>1. Grows
    BY <1>1, <1>3, LogGrows
  <2> QED
    BY <1>1, <1>3, <2>1, WritesFaithful
<1>4. ASSUME ScannerIdle
      PROVE  Moved("scanner") /\ TaskFaithful'
  <2>1. pc'["scanner"] = "idle" /\ Moved("scanner")
    BY <1>1, <1>4, Moves DEF ScannerIdle, Places
  <2> QED
    BY <2>1 DEF TaskFaithful
<1>5. ASSUME UNCHANGED asked, pc["scanner"] \notin {"idle", "legacy"},
             NEW what \in {"RUNNING", "STOPPED", "ERROR"}, Report(what)
      PROVE  Moved("scanner") /\ TaskFaithful'
  <2>1. /\ pc'["scanner"] = "mark" /\ Moved("scanner")
        /\ task' = [task EXCEPT
                    !.report = what,
                    !.held = IF what = "ERROR" THEN task.force
                             ELSE row.state.force]
    BY <1>1, <1>5, Moves DEF Report, Places
  <2>2. /\ task'.id = task.id /\ task'.desired = task.desired
        /\ task'.force = task.force /\ task'.version = task.version
        /\ task'.report = what
    BY <1>1, <2>1 DEF TypeOK, Tasks
  <2> QED
    BY <1>1, <1>5, <2>1, <2>2 DEF TaskFaithful
<1>6. CASE ScanSession
  <2>1. Faithful(row'.state, asked) /\ UNCHANGED <<row, asked>>
    BY <1>3, <1>6 DEF ScanSession
  <2>2. CASE HasRequest(row.state)
    <3>1. Serve(row) /\ row \in Session
      BY <1>1, <1>6, <2>2, Moves DEF ScanSession
    <3>2. TaskFaithful'
      BY <1>1, <2>1, <2>2, <3>1, ServeFaithful DEF HasRequest
    <3> QED
      BY <1>1, <1>2, <2>1, <3>1, <3>2, ScannerTasks
  <2>3. CASE ~HasRequest(row.state)
    <3>1. Read("scanner", "legacy")
      BY <1>6, <2>3 DEF ScanSession
    <3>2. /\ Moved("scanner") /\ pc'["scanner"] = "legacy"
          /\ copy'["scanner"] = row
      BY <1>1, <3>1, Moves DEF Places
    <3>3. row.state.id = 0
      BY <1>1, <2>3 DEF HasRequest, RowsFaithful, Faithful, Backed
    <3>4. TaskFaithful'
      BY <3>2, <3>3 DEF TaskFaithful
    <3> QED
      BY <1>2, <2>1, <3>2, <3>4
  <2> QED
    BY <2>2, <2>3
<1>7. CASE InitializeLegacyRequest
  BY <1>7, LegacyFaithful
<1>8. CASE MarkLoad
  <2>1. Faithful(row'.state, asked) /\ UNCHANGED asked
    BY <1>3, <1>8 DEF MarkLoad
  <2>2. CASE ScannerIdle
    BY <1>2, <1>4, <2>1, <2>2
  <2>3. CASE ~ScannerIdle
    <3>1. /\ UNCHANGED task
          /\ \/ Read("scanner", "commit") /\ RequestMatches(row.state, task)
             \/ Read("scanner", "discard")
      BY <1>8, <2>3 DEF MarkLoad
    <3>2. /\ Moved("scanner") /\ copy'["scanner"] = row
          /\ pc'["scanner"] \in {"commit", "discard"}
          /\ pc'["scanner"] = "commit" => RequestMatches(row.state, task)
      BY <1>1, <3>1, Moves DEF Places
    <3>3. TaskFaithful'
      BY <1>1, <1>8, <2>1, <3>1, <3>2
         DEF TaskFaithful, MarkLoad, RequestMatches
    <3> QED
      BY <1>2, <2>1, <3>2, <3>3
  <2> QED
    BY <2>2, <2>3
<1>9. CASE MarkCommit
  <2>1. Faithful(row'.state, asked) /\ UNCHANGED asked
    BY <1>9, MarkFaithful DEF MarkCommit
  <2>2. CASE ScannerIdle
    BY <1>2, <1>4, <2>1, <2>2
  <2>3. CASE ~ScannerIdle
    <3>1. /\ Leave("scanner", "load") /\ UNCHANGED task
          /\ task.report \in {"STARTING", "STOPPING"}
      BY <1>9, <2>3 DEF MarkCommit
    <3>2. Moved("scanner") /\ pc'["scanner"] = "load"
      BY <1>1, <3>1, Moves DEF Places
    <3>3. TaskFaithful'
      BY <1>1, <1>9, <2>1, <3>1, <3>2 DEF TaskFaithful, MarkCommit
    <3> QED
      BY <1>2, <2>1, <3>2, <3>3
  <2> QED
    BY <2>2, <2>3
<1>10. CASE MarkStale
  <2>1. Faithful(row'.state, asked) /\ UNCHANGED <<asked, task>>
    BY <1>3, <1>10 DEF MarkStale
  <2>2. Moved("scanner") /\ pc'["scanner"] = "stale"
    BY <1>1, <1>10, Moves DEF MarkStale, Places
  <2>3. TaskFaithful'
    BY <1>1, <1>10, <2>1, <2>2 DEF TaskFaithful, MarkStale
  <2> QED
    BY <1>2, <2>1, <2>2, <2>3
<1>11. CASE LoadStale
  <2>1. Faithful(row'.state, asked) /\ UNCHANGED asked
    BY <1>3, <1>11 DEF LoadStale
  <2>2. CASE ScannerIdle
    BY <1>2, <1>4, <2>1, <2>2
  <2>3. CASE ~ScannerIdle
    <3>1. Read("scanner", "discard") /\ UNCHANGED task
      BY <1>11, <2>3 DEF LoadStale
    <3>2. Moved("scanner") /\ pc'["scanner"] = "discard"
      BY <1>1, <3>1, Moves DEF Places
    <3>3. TaskFaithful'
      BY <1>1, <1>11, <2>1, <3>1, <3>2 DEF TaskFaithful, LoadStale
    <3> QED
      BY <1>2, <2>1, <3>2, <3>3
  <2> QED
    BY <2>2, <2>3
<1>12. CASE RecordStaleDiscard
  <2>1. Faithful(row'.state, asked) /\ UNCHANGED asked
    BY <1>3, <1>12 DEF RecordStaleDiscard
  <2> QED
    BY <1>2, <1>4, <1>12, <2>1 DEF RecordStaleDiscard
<1>13. CASE LoadForOperation
  <2>1. Faithful(row'.state, asked) /\ UNCHANGED <<asked, task>>
    BY <1>3, <1>13 DEF LoadForOperation
  <2>2. Moved("scanner") /\ pc'["scanner"] = "lock"
    BY <1>1, <1>13, Moves DEF LoadForOperation, Places
  <2>3. TaskFaithful'
    BY <1>1, <1>13, <2>1, <2>2 DEF TaskFaithful, LoadForOperation
  <2> QED
    BY <1>2, <2>1, <2>2, <2>3
<1>14. CASE OperationRefused
  <2>1. Faithful(row'.state, asked) /\ UNCHANGED asked
    BY <1>3, <1>14 DEF OperationRefused
  <2> QED
    BY <1>2, <1>5, <1>14, <2>1 DEF OperationRefused
<1>15. CASE OperationLocked
  <2>1. Faithful(row'.state, asked) /\ UNCHANGED <<asked, task>>
    BY <1>3, <1>15 DEF OperationLocked
  <2>2. /\ Moved("scanner")
        /\ pc'["scanner"] = IF task.report = "STARTING" THEN "start"
                            ELSE "stop"
    BY <1>1, <1>15, Moves DEF OperationLocked, Places
  <2>3. TaskFaithful'
    BY <1>1, <1>15, <2>1, <2>2 DEF TaskFaithful, OperationLocked
  <2> QED
    BY <1>2, <2>1, <2>2, <2>3
<1>16. CASE StopRuntime
  <2>1. Faithful(row'.state, asked) /\ UNCHANGED <<asked, task>>
    BY <1>3, <1>16 DEF StopRuntime
  <2>2. Moved("scanner") /\ pc'["scanner"] = "status"
    BY <1>1, <1>16, Moves DEF StopRuntime, Places
  <2>3. TaskFaithful'
    BY <1>1, <1>16, <2>1, <2>2 DEF TaskFaithful, StopRuntime
  <2> QED
    BY <1>2, <2>1, <2>2, <2>3
<1>17. CASE StopStatus
  <2>1. Faithful(row'.state, asked) /\ UNCHANGED asked
    BY <1>3, <1>17 DEF StopStatus, SessionStatus
  <2> QED
    BY <1>2, <1>5, <1>17, <2>1 DEF StopStatus
<1>18. CASE OperationStep("scanner")
  <2>1. UNCHANGED asked
    BY <1>18 DEF OperationStep, PrepareStart, SyncRuntime, EnsureRuntime,
                 Block, MarkBlocked, OperationFails, StartStatus
  <2>2. Faithful(row'.state, asked)
    BY <1>3, <1>18, <2>1
       DEF OperationStep, PrepareStart, SyncRuntime, EnsureRuntime, Block,
           MarkBlocked, OperationFails, StartStatus, SessionStatus
  <2>3. CASE MarkBlocked("scanner") \/ OperationFails("scanner")
             \/ StartStatus("scanner")
    <3>1. /\ Report("ERROR") \/ Report("RUNNING")
          /\ pc["scanner"] \notin {"idle", "legacy"}
      BY <2>3 DEF MarkBlocked, OperationFails, StartStatus, Conclude
    <3> QED
      BY <1>2, <1>5, <2>1, <2>2, <3>1
  <2>4. CASE PrepareStart("scanner") \/ SyncRuntime("scanner")
             \/ EnsureRuntime("scanner") \/ Block("scanner")
    <3>1. /\ UNCHANGED task
          /\ pc["scanner"] \in {"start", "sync", "ensure"}
          /\ Moved("scanner")
          /\ pc'["scanner"] \in {"sync", "ensure", "ready", "block"}
      BY <1>1, <2>4, Moves
         DEF PrepareStart, SyncRuntime, EnsureRuntime, Block, Places
    <3>2. TaskFaithful'
      BY <1>1, <2>1, <3>1 DEF TaskFaithful
    <3> QED
      BY <1>2, <2>1, <2>2, <3>1, <3>2
  <2> QED
    BY <1>18, <2>3, <2>4 DEF OperationStep
<1> QED
  BY <1>6, <1>7, <1>8, <1>9, <1>10, <1>11, <1>12, <1>13, <1>14, <1>15, <1>16,
     <1>17, <1>18 DEF ScannerStep

\* The invariant holds at first.
LEMMA InitInductive == Init => IInv
<1> SUFFICES ASSUME Init
             PROVE  IInv
  OBVIOUS
<1>1. TypeOK
  BY InitType
<1>2. row.state.id = 0 /\ row.state.actual = ""
  <2>1. \A d : Uncontrolled(d).id = 0 /\ Uncontrolled(d).actual = ""
    BY DEF Uncontrolled
  <2>2. row.state \in {Uncontrolled(d) : d \in Legacy \cup {""}}
    BY DEF Init, InitialSessions
  <2> QED
    BY <2>1, <2>2
<1>3. \A a \in Actors : copy[a].state.id = 0 /\ copy[a].state.actual = ""
  BY DEF Init, NoSession, Uncontrolled
<1>4. RowsFaithful
  BY <1>2, <1>3 DEF RowsFaithful, Faithful
<1>5. pc["scanner"] = "idle"
  BY ActorNames DEF Init
<1>6. TaskFaithful
  BY <1>5 DEF TaskFaithful
<1> QED
  BY <1>1, <1>4, <1>6 DEF IInv

\* The invariant is preserved by every step, stuttering included.
LEMMA InductiveStep == IInv /\ [Next]_vars => IInv'
<1> SUFFICES ASSUME IInv, [Next]_vars
             PROVE  IInv'
  OBVIOUS
<1>1. TypeOK'
  BY StepType DEF IInv
<1>2. RowsFaithful' /\ TaskFaithful'
  <2>1. CASE UNCHANGED vars
    BY <2>1 DEF IInv, RowsFaithful, TaskFaithful, vars
  <2> QED
    BY <2>1, ClientFaithful, ScannerFaithful, RunnerFaithful, CrashFaithful
       DEF Next
<1> QED
  BY <1>1, <1>2 DEF IInv

\* Whatever overwrites the session's state between the request and the
\* operation, the scanner starts, stops and forces only as one accepted
\* request asked (executeLiveSessionControlStart, ...Stop).
THEOREM OperationsAsRequested == Spec => []OperationMatchesRequest
<1>1. IInv => OperationMatchesRequest
  BY DEF IInv, TaskFaithful, OperationMatchesRequest, Operating, Backed
<1> QED
  BY <1>1, InitInductive, InductiveStep, PTL DEF Spec

\* A failed operation is not retried and its error never shows against a
\* later request (liveSessionControlErrorCurrent).
THEOREM ErrorsAreCurrent == Spec => []ErrorStopsRetries
<1>1. IInv => ErrorStopsRetries
  BY DEF IInv, RowsFaithful, Faithful, Backed, ErrorStopsRetries,
         ControlErrorCurrent, HasRequest
<1> QED
  BY <1>1, InitInductive, InductiveStep, PTL DEF Spec
=============================================================================
