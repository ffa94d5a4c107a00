------------------------- MODULE LiveSessionControl -------------------------
(***************************************************************************)
(* Starting and stopping one live session: the control requests of         *)
(* internal/service/live_session_control.go, the start, stop, delete and   *)
(* startup recovery of live.go, the account stop of live_account_flow.go,  *)
(* and the session row of the in-memory store.                             *)
(*                                                                         *)
(* An HTTP handler writes the desired status with a compare-and-swap on    *)
(* the control request; the scanner of the runner process reads it, starts *)
(* or stops the session and reports the actual status with the same        *)
(* compare-and-swap.  Every other writer of the session state (start,      *)
(* stop, recovery, the evaluation of a signal) replaces the whole state    *)
(* with the copy it read, the control keys included.                       *)
(***************************************************************************)
EXTENDS Integers, Sequences

CONSTANTS
    Clients,      \* HTTP requests, one command each
    Commands,     \* the commands they may send
    Evaluations,  \* signal evaluations, each one triggerLiveSessionFromSignal
    MaxCrashes,   \* crashes of the runner process
    Monolith,     \* TRUE: HTTP handlers and scanner share one process
    Legacy        \* desired statuses older code left without a request id

ASSUME ClientsAssumption ==
    /\ Clients \cap Evaluations = {}
    /\ {"scanner", "recovery", "nobody"} \cap (Clients \cup Evaluations) = {}
ASSUME CommandsAssumption ==
    Commands \subseteq {"start", "stop", "force", "reset", "delete", "flow"}
ASSUME LegacyAssumption == Legacy \subseteq {"RUNNING", "STOPPED"}
ASSUME CrashAssumption == MaxCrashes \in Nat /\ Monolith \in BOOLEAN

VARIABLES
    row,      \* the session row: status and the control keys of its state
    pc,       \* where each goroutine is
    copy,     \* the session row each goroutine read last
    command,  \* the command of each client
    tries,    \* compare-and-swap attempts of each client
    task,     \* the request the scanner serves, the status it reports and the
              \* force flag of the session it reports it for
    lock,     \* the control operation lock of each process
    crashes,
    asked     \* history: every accepted control request, in order

vars == <<row, pc, copy, command, tries, task, lock, crashes, asked>>

Actors == Clients \cup Evaluations \cup {"scanner", "recovery"}
Processes == {"api", "runner"}

ProcessOf(a) == IF a \in Clients /\ ~Monolith THEN "api" ELSE "runner"

-----------------------------------------------------------------------------
SessionStatus == {"READY", "RUNNING", "STOPPED", "BLOCKED", "DELETED"}
ActualStatus == {"", "RUNNING", "STOPPED", "STARTING", "STOPPING", "ERROR"}
DesiredStatus == ActualStatus \ {"ERROR"}

\* desiredStopForce: false, true, or no such key.
ForceFlag == {"no", "yes", ""}

\* The control keys of a session's state.  Request ids are positions in
\* "asked"; 0 stands for a missing key.  error is lastControlErrorRequestId.
ControlState ==
    [desired : DesiredStatus, actual : ActualStatus, id : Nat, version : Nat,
     force : ForceFlag, error : Nat]

Session == [status : SessionStatus, state : ControlState]

Request == [desired : DesiredStatus, force : ForceFlag]

Tasks == [id : Nat, version : Nat, desired : DesiredStatus, force : ForceFlag,
          report : ActualStatus, held : ForceFlag]

Uncontrolled(desired) ==
    [desired |-> desired, actual |-> "", id |-> 0, version |-> 0,
     force |-> "", error |-> 0]

\* A local variable that is out of scope.
NoSession == [status |-> "READY", state |-> Uncontrolled("")]
NoTask == [id |-> 0, version |-> 0, desired |-> "", force |-> "",
           report |-> "", held |-> ""]

\* Sessions that exist before the first request of the control API: created,
\* launched or stopped, some with a desired status written by older code.
InitialSessions ==
    [status : {"READY", "RUNNING", "STOPPED"},
     state : {Uncontrolled(d) : d \in Legacy \cup {""}}]

Init ==
    /\ row \in InitialSessions
    /\ pc = [a \in Actors |-> IF a = "recovery" THEN "list" ELSE "idle"]
    /\ copy = [a \in Actors |-> NoSession]
    /\ command = [c \in Clients |-> ""]
    /\ tries = [c \in Clients |-> 0]
    /\ task = NoTask
    /\ lock = [p \in Processes |-> "nobody"]
    /\ crashes = 0
    /\ asked = <<>>

-----------------------------------------------------------------------------
(* The store and the request keys. *)

HasRequest(s) == s.id # 0 /\ s.version > 0

\* liveSessionControlRequestMatches
RequestMatches(s, r) == HasRequest(s) /\ s.id = r.id /\ s.version = r.version

\* The condition of UpdateLiveSessionStateIfControlRequest.
Unchanged(s) == row.state.id = s.id /\ row.state.version = s.version

UpdateState(s) == row' = [row EXCEPT !.state = s]
UpdateStatus(status) == row' = [row EXCEPT !.status = status]

\* A goroutine moves on, reads the row, or is through with what it read.
Goto(a, where) == pc' = [pc EXCEPT ![a] = where] /\ UNCHANGED copy
Read(a, where) ==
    pc' = [pc EXCEPT ![a] = where] /\ copy' = [copy EXCEPT ![a] = row]
Leave(a, where) ==
    pc' = [pc EXCEPT ![a] = where] /\ copy' = [copy EXCEPT ![a] = NoSession]

TryLock(a) ==
    /\ lock[ProcessOf(a)] = "nobody"
    /\ lock' = [lock EXCEPT ![ProcessOf(a)] = a]

LockBusy(a) == lock[ProcessOf(a)] # "nobody"

Release(a) == lock' = [lock EXCEPT ![ProcessOf(a)] = "nobody"]

\* Fault: an error stays the actual status of the next request.
ActualStatusWithError(s) ==
    IF s.status \in {"RUNNING", "STOPPED"} THEN s.status
    ELSE IF s.state.actual # "" THEN s.state.actual ELSE "STOPPED"

\* liveSessionActualStatusFromSession
ActualStatusFromSession(s) ==
    IF s.status \in {"RUNNING", "STOPPED"} THEN s.status
    ELSE IF s.state.actual \notin {"", "ERROR"} THEN s.state.actual
    ELSE "STOPPED"

\* Fault: in-flight requests count as handled.
ControlErrorOrInFlight(s) == s.actual \in {"ERROR", "STARTING", "STOPPING"}

\* liveSessionControlErrorCurrent.  An error is recorded after the request
\* it answers, so the timestamps decide nothing once the ids agree.
ControlErrorCurrent(s) ==
    /\ s.id # 0 /\ s.error # 0 => s.error = s.id
    /\ s.actual = "ERROR"

-----------------------------------------------------------------------------
(* HTTP handlers: start, stop (without and with force) and reset. *)

RequestCommands == {"start", "stop", "force", "reset"}

\* Fault: reset takes over whatever the actual status says.
DesiredByRawActual(s, what) ==
    CASE what = "start" -> "RUNNING"
      [] what = "reset" -> s.state.actual
      [] OTHER -> "STOPPED"

\* The desired status a command asks for.
DesiredBy(s, what) ==
    CASE what = "start" -> "RUNNING"
      [] what = "reset" -> ActualStatusFromSession(s)
      [] OTHER -> "STOPPED"

\* The force flag it writes; start and reset delete the key.
ForceBy(what) ==
    CASE what = "stop" -> "no" [] what = "force" -> "yes" [] OTHER -> ""

\* Fault: a stop request keeps the force flag of the request before it.
RequestedStateKeepsForce(s, what) ==
    [desired |-> DesiredBy(s, what), actual |-> ActualStatusFromSession(s),
     id |-> Len(asked) + 1, version |-> s.state.version + 1,
     force |-> IF s.state.force = "yes" THEN "yes" ELSE ForceBy(what),
     error |-> 0]

\* The state requestLiveSessionDesiredStatus and ResetLiveSessionControlState
\* write for a session they read as s.
RequestedState(s, what) ==
    [desired |-> DesiredBy(s, what), actual |-> ActualStatusFromSession(s),
     id |-> Len(asked) + 1, version |-> s.state.version + 1,
     force |-> ForceBy(what), error |-> 0]

\* GetLiveSession at the head of an attempt.  A reset is refused without
\* confirmation and reason, for a session that is deleted, and for one that
\* came back from that with its deletedAt.
LoadForRequest(c, what) ==
    /\ \/ pc[c] = "idle"
       \/ pc[c] = "reload" /\ command[c] = what
    /\ what \in Commands \cap RequestCommands
    /\ command' = [command EXCEPT ![c] = what]
    /\ tries' = [tries EXCEPT ![c] = @ + 1]
    /\ \/ what = "reset" /\ Leave(c, "done")
       \/ (what = "reset" => row.status # "DELETED") /\ Read(c, "swap")
    /\ UNCHANGED <<row, task, lock, crashes, asked>>

AcceptRequest(c) ==
    LET next == RequestedState(copy[c], command[c]) IN
    /\ pc[c] = "swap"
    /\ Unchanged(copy[c].state)
    /\ UpdateState(next)
    /\ asked' = Append(asked, [desired |-> DesiredBy(copy[c], command[c]),
                               force |-> ForceBy(command[c])])
    /\ Leave(c, "done")
    /\ UNCHANGED <<command, tries, task, lock, crashes>>

\* The request changed meanwhile: three attempts, then an error.
RetryRequest(c) ==
    /\ pc[c] = "swap"
    /\ ~Unchanged(copy[c].state)
    /\ Leave(c, IF tries[c] < 3 THEN "reload" ELSE "done")
    /\ UNCHANGED <<row, command, tries, task, lock, crashes, asked>>

-----------------------------------------------------------------------------
(* DeleteLiveSessionWithForce and StopLiveFlowWithForce. *)

\* An account stop only touches sessions it lists as RUNNING.
LoadForControl(c, what) ==
    /\ pc[c] = "idle"
    /\ what \in Commands \ RequestCommands
    /\ command' = [command EXCEPT ![c] = what]
    /\ IF what = "flow" /\ row.status # "RUNNING" THEN Leave(c, "done")
       ELSE Read(c, "lock")
    /\ UNCHANGED <<row, tries, task, lock, crashes, asked>>

ClientLock(c) ==
    /\ pc[c] = "lock"
    /\ \/ TryLock(c) /\ Goto(c, "stop")
       \/ LockBusy(c) /\ Leave(c, "done") /\ UNCHANGED lock
    /\ UNCHANGED <<row, command, tries, task, crashes, asked>>

\* ensureNoActivePositionsOrOrders objects, or the linked signal runtime
\* cannot be stopped.
ClientRefused(c) ==
    /\ pc[c] = "stop"
    /\ Release(c) /\ Leave(c, "done")
    /\ UNCHANGED <<row, command, tries, task, crashes, asked>>

\* stopLinkedLiveSignalRuntime: writes the state read before the lock, unless
\* the session has no linked runtime.
ClientStopRuntime(c) ==
    /\ pc[c] = "stop"
    /\ UpdateState(copy[c].state) \/ UNCHANGED row
    /\ Leave(c, IF command[c] = "flow" THEN "status" ELSE "clear")
    /\ UNCHANGED <<command, tries, task, lock, crashes, asked>>

\* stopLiveSessionWithForceLocked sets the status and not the desired status.
FlowStop(c) ==
    /\ pc[c] = "status" /\ command[c] = "flow"
    /\ UpdateStatus("STOPPED")
    /\ Release(c) /\ Goto(c, "done")
    /\ UNCHANGED <<command, tries, task, crashes, asked>>

\* Every control key is overwritten, so the read before it does not matter.
DeleteClear(c) ==
    /\ pc[c] = "clear"
    /\ UpdateState([Uncontrolled("STOPPED") EXCEPT !.actual = "STOPPED"])
    /\ Goto(c, "status")
    /\ UNCHANGED <<command, tries, task, lock, crashes, asked>>

DeleteMark(c) ==
    /\ pc[c] = "status" /\ command[c] = "delete"
    /\ UpdateStatus("DELETED")
    /\ Release(c) /\ Goto(c, "done")
    /\ UNCHANGED <<command, tries, task, crashes, asked>>

ClientStep(c) ==
    \/ \E what \in Commands : LoadForRequest(c, what) \/ LoadForControl(c, what)
    \/ AcceptRequest(c) \/ RetryRequest(c)
    \/ ClientLock(c) \/ ClientRefused(c) \/ ClientStopRuntime(c)
    \/ FlowStop(c) \/ DeleteClear(c) \/ DeleteMark(c)

-----------------------------------------------------------------------------
(* The scanner: scanLiveSessionControlRequestsOnce for this session. *)

\* The switch on the desired status: what is reported first.
FirstReport(s) ==
    IF s.state.desired = "RUNNING"
    THEN IF s.status = "RUNNING" THEN "RUNNING" ELSE "STARTING"
    ELSE IF s.status = "STOPPED" THEN "STOPPED" ELSE "STOPPING"

\* Serve session s as the scanner holds it.
Serve(s) ==
    IF s.state.desired \in {"RUNNING", "STOPPED"}
    THEN /\ Leave("scanner", "mark")
         /\ task' = [id |-> s.state.id, version |-> s.state.version,
                     desired |-> s.state.desired, force |-> s.state.force,
                     report |-> FirstReport(s), held |-> s.state.force]
    ELSE Leave("scanner", "idle") /\ UNCHANGED task

ScannerIdle == Leave("scanner", "idle") /\ task' = NoTask

ScanSession ==
    /\ pc["scanner"] = "idle"
    /\ row.status # "DELETED"
    /\ row.state.desired # ""
    /\ ~ControlErrorCurrent(row.state)
    /\ IF HasRequest(row.state) THEN Serve(row)
       ELSE Read("scanner", "legacy") /\ UNCHANGED task
    /\ UNCHANGED <<row, command, tries, lock, crashes, asked>>

\* initializeLegacyLiveSessionControlRequest
InitializeLegacyRequest ==
    LET old == copy["scanner"].state
        next == [old EXCEPT !.id = Len(asked) + 1, !.version = @ + 1] IN
    /\ pc["scanner"] = "legacy"
    /\ \/ /\ Unchanged(old)
          /\ UpdateState(next)
          /\ asked' = Append(asked, [desired |-> next.desired,
                                     force |-> next.force])
          /\ Serve([status |-> row.status, state |-> next])
       \/ /\ ~Unchanged(old)
          /\ ScannerIdle
          /\ UNCHANGED <<row, asked>>
    /\ UNCHANGED <<command, tries, lock, crashes>>

\* The state markLiveSessionControlActual writes over the latest state s: a
\* missing force key is taken over from the session it was handed.
MarkedState(s) ==
    [s EXCEPT !.actual = task.report,
              !.force = IF @ = "" THEN task.held ELSE @,
              !.error = IF task.report = "ERROR" THEN task.id ELSE 0]

\* markLiveSessionControlActual reads the latest row.
MarkLoad ==
    /\ pc["scanner"] = "mark"
    /\ \/ /\ RequestMatches(row.state, task)
          /\ Read("scanner", "commit") /\ UNCHANGED task
       \/ /\ ~RequestMatches(row.state, task)
          /\ IF HasRequest(row.state)
             THEN Read("scanner", "discard") /\ UNCHANGED task
             ELSE ScannerIdle
    /\ UNCHANGED <<row, command, tries, lock, crashes, asked>>

MarkCommit ==
    /\ pc["scanner"] = "commit"
    /\ Unchanged(task)
    /\ UpdateState(MarkedState(copy["scanner"].state))
    /\ IF task.report \in {"STARTING", "STOPPING"}
       THEN Leave("scanner", "load") /\ UNCHANGED task
       ELSE ScannerIdle
    /\ UNCHANGED <<command, tries, lock, crashes, asked>>

MarkStale ==
    /\ pc["scanner"] = "commit"
    /\ ~Unchanged(task)
    /\ Leave("scanner", "stale")
    /\ UNCHANGED <<row, command, tries, task, lock, crashes, asked>>

LoadStale ==
    /\ pc["scanner"] = "stale"
    /\ IF HasRequest(row.state)
       THEN Read("scanner", "discard") /\ UNCHANGED task
       ELSE ScannerIdle
    /\ UNCHANGED <<row, command, tries, lock, crashes, asked>>

\* recordLiveSessionControlStaleDiscard adds an audit event to the state it
\* was handed, if that request is still the current one.
RecordStaleDiscard ==
    /\ pc["scanner"] = "discard"
    /\ IF Unchanged(copy["scanner"].state)
       THEN UpdateState(copy["scanner"].state) ELSE UNCHANGED row
    /\ ScannerIdle
    /\ UNCHANGED <<command, tries, lock, crashes, asked>>

\* StartLiveSession and StopLiveSessionWithForce read the session before they
\* try the lock.
LoadForOperation ==
    /\ pc["scanner"] = "load"
    /\ Read("scanner", "lock")
    /\ UNCHANGED <<row, command, tries, task, lock, crashes, asked>>

\* What comes of an operation is reported for the session it returned, an
\* error for the session that was scanned.
Report(what) ==
    /\ Leave("scanner", "mark")
    /\ task' = [task EXCEPT
                  !.report = what,
                  !.held = IF what = "ERROR" THEN task.force
                           ELSE row.state.force]

\* The lock is busy, or the session was deleted when it was read.
OperationRefused ==
    /\ pc["scanner"] = "lock"
    /\ \/ LockBusy("scanner")
       \/ task.report = "STARTING" /\ copy["scanner"].status = "DELETED"
    /\ Report("ERROR")
    /\ UNCHANGED <<row, command, tries, lock, crashes, asked>>

OperationLocked ==
    /\ pc["scanner"] = "lock"
    /\ task.report = "STARTING" => copy["scanner"].status # "DELETED"
    /\ TryLock("scanner")
    /\ Goto("scanner", IF task.report = "STARTING" THEN "start" ELSE "stop")
    /\ UNCHANGED <<row, command, tries, task, crashes, asked>>

\* stopLiveSessionWithForceLocked
StopRuntime ==
    /\ pc["scanner"] = "stop"
    /\ UpdateState(copy["scanner"].state) \/ UNCHANGED row
    /\ Leave("scanner", "status")
    /\ UNCHANGED <<command, tries, task, lock, crashes, asked>>

StopStatus ==
    /\ pc["scanner"] = "status"
    /\ UpdateStatus("STOPPED")
    /\ Release("scanner") /\ Report("STOPPED")
    /\ UNCHANGED <<command, tries, crashes, asked>>

-----------------------------------------------------------------------------
(* startLiveSessionLocked and recoverRunningLiveSession. *)

\* The latest order and recovered metadata, written if there are any.
PrepareStart(a) ==
    /\ pc[a] = "start"
    /\ UpdateState(copy[a].state) \/ UNCHANGED row
    /\ Goto(a, "sync")
    /\ UNCHANGED <<command, tries, task, lock, crashes, asked>>

\* syncLiveSessionRuntime, the write no start goes without.
SyncRuntime(a) ==
    /\ pc[a] = "sync"
    /\ UpdateState(copy[a].state)
    /\ Goto(a, "ensure")
    /\ UNCHANGED <<command, tries, task, lock, crashes, asked>>

\* ensureLiveSessionSignalRuntimeStarted: status and readiness of the signal
\* runtime, if the strategy needs one.
EnsureRuntime(a) ==
    /\ pc[a] = "ensure"
    /\ UpdateState(copy[a].state) \/ UNCHANGED row
    /\ Goto(a, "ready")
    /\ UNCHANGED <<command, tries, task, lock, crashes, asked>>

\* Close-only takeover or a blocking reconcile gate: state, then status.
\* Only recovery still falls back to it when the runtime is unavailable.
Block(a) ==
    /\ \/ pc[a] \in {"start", "sync"}
       \/ a = "recovery" /\ pc[a] \in {"ensure", "ready"}
    /\ UpdateState(copy[a].state)
    /\ Goto(a, "block")
    /\ UNCHANGED <<command, tries, task, lock, crashes, asked>>

\* Where a goroutine goes with the outcome of its operation.  Recovery notes
\* it, before it gives up the lock, in the state that the update of the
\* status returned, or else in the one it started from.
Conclude(a, outcome, updated) ==
    IF a = "scanner" THEN Release(a) /\ Report(outcome)
    ELSE /\ IF updated THEN Read(a, "note") ELSE Goto(a, "note")
         /\ UNCHANGED <<lock, task>>

MarkBlocked(a) ==
    /\ pc[a] = "block"
    /\ UpdateStatus("BLOCKED")
    /\ Conclude(a, "ERROR", TRUE)
    /\ UNCHANGED <<command, tries, crashes, asked>>

\* Account, adapter, runtime, readiness or position checks fail.
OperationFails(a) ==
    /\ \/ pc[a] \in {"start", "sync", "ensure", "ready"}
       \/ a = "scanner" /\ pc[a] = "stop"
    /\ Conclude(a, "ERROR", FALSE)
    /\ UNCHANGED <<row, command, tries, crashes, asked>>

StartStatus(a) ==
    /\ pc[a] = "ready"
    /\ UpdateStatus("RUNNING")
    /\ Conclude(a, "RUNNING", TRUE)
    /\ UNCHANGED <<command, tries, crashes, asked>>

OperationStep(a) ==
    \/ PrepareStart(a) \/ SyncRuntime(a) \/ EnsureRuntime(a) \/ Block(a)
    \/ MarkBlocked(a) \/ OperationFails(a) \/ StartStatus(a)

ScannerStep ==
    \/ ScanSession \/ InitializeLegacyRequest \/ MarkLoad \/ MarkCommit
    \/ MarkStale \/ LoadStale \/ RecordStaleDiscard \/ LoadForOperation
    \/ OperationRefused \/ OperationLocked \/ StopRuntime \/ StopStatus
    \/ OperationStep("scanner")

-----------------------------------------------------------------------------
(* RecoverLiveTradingOnStartup, a goroutine beside the scanner. *)

RecoveryList ==
    /\ pc["recovery"] = "list"
    /\ IF row.status # "RUNNING" THEN Leave("recovery", "over")
       ELSE Read("recovery",
                 IF row.state.desired = "STOPPED" THEN "note" ELSE "lock")
    /\ UNCHANGED <<row, command, tries, task, lock, crashes, asked>>

RecoveryLock ==
    /\ pc["recovery"] = "lock"
    /\ \/ TryLock("recovery") /\ Goto("recovery", "start")
       \/ LockBusy("recovery") /\ Leave("recovery", "over") /\ UNCHANGED lock
    /\ UNCHANGED <<row, command, tries, task, crashes, asked>>

\* lastRecoveryStatus or lastRecoveryError, and the lock if it is held.
RecoveryNote ==
    /\ pc["recovery"] = "note"
    /\ UpdateState(copy["recovery"].state)
    /\ IF lock["runner"] = "recovery" THEN Release("recovery")
       ELSE UNCHANGED lock
    /\ Leave("recovery", "over")
    /\ UNCHANGED <<command, tries, task, crashes, asked>>

RecoveryStep ==
    RecoveryList \/ RecoveryLock \/ RecoveryNote \/ OperationStep("recovery")

-----------------------------------------------------------------------------
(* Signal evaluations and crashes. *)

\* triggerLiveSessionFromSignal
EvaluationLoad(e) ==
    /\ pc[e] = "idle"
    /\ row.status = "RUNNING"
    /\ Read(e, "write")
    /\ UNCHANGED <<row, command, tries, task, lock, crashes, asked>>

\* No control key is among the facts that
\* updateLiveSessionStatePreservingNonRegressiveFacts keeps.  The further
\* writes of an evaluation carry the same control keys as this one.
EvaluationWrite(e) ==
    /\ pc[e] = "write"
    /\ UpdateState(copy[e].state)
    /\ Leave(e, "done")
    /\ UNCHANGED <<command, tries, task, lock, crashes, asked>>

\* The goroutines of the runner process end; it restarts with recovery.
Crash ==
    LET ends(a) == ProcessOf(a) = "runner" /\ pc[a] # "idle" IN
    /\ crashes < MaxCrashes
    /\ crashes' = crashes + 1
    /\ pc' = [a \in Actors |-> IF a = "scanner" THEN "idle"
                               ELSE IF a = "recovery" THEN "list"
                               ELSE IF ends(a) THEN "done" ELSE pc[a]]
    /\ copy' = [a \in Actors |-> IF ends(a) THEN NoSession ELSE copy[a]]
    /\ task' = NoTask
    /\ lock' = [lock EXCEPT !["runner"] = "nobody"]
    /\ UNCHANGED <<row, command, tries, asked>>

Next ==
    \/ \E c \in Clients : ClientStep(c)
    \/ ScannerStep
    \/ RecoveryStep
    \/ \E e \in Evaluations : EvaluationLoad(e) \/ EvaluationWrite(e)
    \/ Crash

Spec == Init /\ [][Next]_vars

\* The scanner ticks every five seconds and no goroutine blocks for ever: the
\* lock is only tried, exchange calls time out.  A client need not come.
Fairness ==
    /\ WF_vars(ScannerStep)
    /\ WF_vars(RecoveryStep)
    /\ \A c \in Clients : WF_vars(pc[c] # "idle" /\ ClientStep(c))
    /\ \A e \in Evaluations : WF_vars(EvaluationWrite(e))

FairSpec == Spec /\ Fairness

-----------------------------------------------------------------------------
Places ==
    {"idle", "reload", "swap", "lock", "stop", "status", "clear", "done",
     "mark", "legacy", "commit", "stale", "discard", "load", "start",
     "sync", "ensure", "ready", "block", "list", "note", "over", "write"}

TypeOK ==
    /\ row \in Session
    /\ pc \in [Actors -> Places]
    /\ copy \in [Actors -> Session]
    /\ command \in [Clients -> Commands \cup {""}]
    /\ tries \in [Clients -> Nat]
    /\ task \in Tasks
    /\ lock \in [Processes -> Actors \cup {"nobody"}]
    /\ crashes \in Nat
    /\ asked \in Seq(Request)

\* The scanner is starting or stopping the session.
Operating ==
    pc["scanner"] \in {"start", "sync", "ensure", "ready", "block", "stop",
                       "status"}

\* What the scanner does to a session is what one accepted request asked for:
\* it starts it for a start, stops it for a stop, and goes by the force flag
\* of that request (executeLiveSessionControlStop skips the check for open
\* positions and orders on it), however many requests, deletes, evaluations
\* and restarts overwrote the session's state since.
OperationMatchesRequest ==
    Operating =>
        /\ task.id \in 1..Len(asked)
        /\ asked[task.id].force \in {"", task.force}
        /\ asked[task.id].desired =
              (IF pc["scanner"] \in {"stop", "status"} THEN "STOPPED"
               ELSE "RUNNING")

\* An ERROR that a session shows is the error of its current request, so
\* that scanLiveSessionControlRequestsOnce leaves it alone until the next
\* request: no retry of a failed start, no error carried into a new request.
ErrorStopsRetries ==
    row.state.actual = "ERROR" =>
        /\ ControlErrorCurrent(row.state)
        /\ row.state.error = row.state.id
        /\ HasRequest(row.state)

\* Once requests stop, the scanner brings the session to the desired status
\* and says so, or reports an error of the current request: whatever was in
\* flight when the runner crashed, a request that was overwritten, a start
\* refused because recovery holds the lock.
Settled ==
    \/ row.status = "DELETED"
    \/ row.state.desired \notin {"RUNNING", "STOPPED"}
    \/ row.state.actual = "ERROR"
    \/ row.status = row.state.desired /\ row.state.actual = row.state.desired

ScannerConverges == <>[]Settled

-----------------------------------------------------------------------------
(* What tests, comments and docs say and the code does not keep. *)

\* A control request is only replaced by a newer one
\* (TestLiveSessionControlStaleRequestCannotOverwriteNewerRequest).
NewerRequestRemains ==
    [][row'.state.id \notin {0, row.state.id}
           => row'.state.version > row.state.version]_vars

=============================================================================
