--------------------------- MODULE FillSettlement ---------------------------
(***************************************************************************)
(* Settlement of live orders: internal/service/order.go together with the  *)
(* Binance adapter (live_registry.go) that feeds it, the reconciliation    *)
(* plan (fill_reconcile.go) and the in-memory store, whose settlement      *)
(* transaction is one critical section.                                    *)
(*                                                                         *)
(* Several goroutines ("workers": the live session loop, the HTTP sync and *)
(* cancel endpoints, the recovery workbench, order submission) read an     *)
(* order, talk to the exchange, and write back the copy they read.         *)
(*                                                                         *)
(* Quantities are counted in lots.  The trades of order o are the numbers  *)
(* 1..Qty[o], one lot each: a trade of n lots is n trades that the         *)
(* exchange happens to report together.  Prices and fees do not appear.    *)
(***************************************************************************)
EXTENDS Integers, FiniteSets

CONSTANTS
    Orders,       \* live orders of one account on one symbol
    Workers,      \* goroutines that submit, sync or cancel orders
    Qty,          \* [Orders -> lots]: normalized order quantity
    Side,         \* [Orders -> {"BUY", "SELL"}]
    ReduceOnly,   \* orders whose quantity the exchange may trim
    EmptyTradeLimit, \* syncs that may find a FILLED order without trades
                     \* before a synthetic fill stands in (3 in the code)
    ForeignTrades    \* lots of other orders of the symbol that a request for
                     \* trades without an exchange order id may return

ASSUME QtyAssumption == Qty \in [Orders -> Nat \ {0}]
ASSUME LimitAssumption == EmptyTradeLimit \in Nat
ASSUME ForeignAssumption == ForeignTrades \in Nat
ASSUME SideAssumption == Side \in [Orders -> {"BUY", "SELL"}]

VARIABLES
    order,        \* the orders table: what UpdateOrder last wrote
    real,         \* trade ids of the stored fills with source "real"
    placeholder,  \* stored synthetic and remainder quantity, by fingerprint
    position,     \* the position row of the account and symbol
    exchange,     \* the exchange's own record of each order
    worker        \* local variables of each goroutine

vars == <<order, real, placeholder, position, exchange, worker>>

-----------------------------------------------------------------------------
\* "ABSENT" stands for an order that has no row yet.
OrderStatus == {"ABSENT", "NEW", "ACCEPTED", "PARTIALLY_FILLED", "FILLED",
                "CANCELLED", "REJECTED"}

\* The order row. submitted: metadata.adapterSubmission and exchangeOrderId
\* are present (applyLiveSubmissionResult sets them together);
\* submissionFilled: its executedQty when the submission came back FILLED.
OrderRow(o) ==
    [status : OrderStatus, quantity : 1..Qty[o], filledQuantity : Nat,
     attempts : 0..EmptyTradeLimit, retryRequired : BOOLEAN,
     syncRequired : BOOLEAN, submitted : BOOLEAN,
     submissionFilled : 0..Qty[o]]

NoOrder(o) ==
    [status |-> "ABSENT", quantity |-> Qty[o], filledQuantity |-> 0,
     attempts |-> 0, retryRequired |-> FALSE, syncRequired |-> FALSE,
     submitted |-> FALSE, submissionFilled |-> 0]

\* Fingerprints of the placeholder fills of an order: the fallback made from
\* a FILLED submission, the one made from the order query, the remainder.
PlaceholderKinds == {"submission", "query", "remainder"}

NoPlaceholder == [k \in PlaceholderKinds |-> 0]

ExchangeStatus == {"NONE", "LIVE", "FILLED", "CANCELED"}

\* The lots of order o itself, then those of other orders.
LastTrade(o) == Qty[o] + ForeignTrades
Foreign(o) == (Qty[o] + 1)..LastTrade(o)
Trades(o) == 1..LastTrade(o)

\* LiveOrderSync: trades are the real fill reports, synthetic the quantity of
\* a synthetic report; only the reply of SyncOrder carries the retry keys.
Reply(o) ==
    [kind : {"sync", "cancel", "submission"},
     status : OrderStatus \ {"ABSENT"}, executed : 0..Qty[o],
     trades : SUBSET Trades(o), synthetic : 0..Qty[o],
     retryRequired : BOOLEAN]

NoReply(kind) ==
    [kind |-> kind, status |-> "NEW", executed |-> 0, trades |-> {},
     synthetic |-> 0, retryRequired |-> FALSE]

Busy(o) ==
    [pc : {"submit", "accepted", "refused", "query", "trades", "cancel",
           "apply", "refresh", "retry"},
     o : {o}, local : OrderRow(o), reply : Reply(o),
     creator : BOOLEAN]

Idle == [pc |-> "idle"]

-----------------------------------------------------------------------------
Total(p) == p["submission"] + p["query"] + p["remainder"]

\* TotalFilledQuantityForOrder
Filled(o) == Cardinality(real[o]) + Total(placeholder[o])

\* The position row as a signed quantity.
Net(p) == IF p.side = "LONG" THEN p.quantity ELSE 0 - p.quantity

Sign(o) == IF Side[o] = "BUY" THEN 1 ELSE -1

LeastOf(a, b) == IF a < b THEN a ELSE b
AtLeastZero(a) == IF a < 0 THEN 0 ELSE a

IsTerminal(status) == status \in {"FILLED", "CANCELLED", "REJECTED"}

\* Fault: an order covered by a placeholder counts as settled.
ShouldBackfillByQuantity(o) ==
    order[o].status = "FILLED" /\ order[o].filledQuantity < order[o].quantity

\* shouldBackfillTerminalFilledLiveOrder, the cooldown left out.
ShouldBackfill(o) ==
    /\ order[o].status = "FILLED"
    /\ \/ Total(placeholder[o]) > 0
       \/ order[o].filledQuantity < order[o].quantity

\* When the live session loop syncs its order.
NeedsSync(o) == ~ IsTerminal(order[o].status) \/ ShouldBackfill(o)

-----------------------------------------------------------------------------
(* Pure steps of the handlers. *)

NoPosition == [side |-> "LONG", quantity |-> 0]

\* Fault: a fill larger than the opposite position only closes it.
ApplyFillWithoutFlip(p, side, q) ==
    LET target == IF side = "BUY" THEN "LONG" ELSE "SHORT" IN
    IF p.quantity = 0 \/ p.side = target
      THEN [side |-> IF q = 0 THEN p.side ELSE target, quantity |-> p.quantity + q]
      ELSE [p EXCEPT !.quantity = AtLeastZero(@ - q)]

\* applyExecutionFillWithStore for q lots: open, add, reduce, close, flip.
ApplyFill(p, side, q) ==
    LET target == IF side = "BUY" THEN "LONG" ELSE "SHORT" IN
    CASE q = 0             -> p
      [] q > 0 /\ p.quantity = 0 -> [side |-> target, quantity |-> q]
      [] q > 0 /\ p.quantity > 0 /\ p.side = target ->
             [p EXCEPT !.quantity = @ + q]
      [] q > 0 /\ q < p.quantity /\ p.side # target ->
             [p EXCEPT !.quantity = @ - q]
      [] q > 0 /\ q = p.quantity /\ p.side # target -> NoPosition
      [] q > p.quantity /\ p.quantity > 0 /\ p.side # target ->
             [side |-> target, quantity |-> q - p.quantity]

\* mapBinanceOrderStatus applied to what the exchange answers.
MappedStatus(x) ==
    CASE x.status = "FILLED"   -> "FILLED"
      [] x.status = "CANCELED" -> "CANCELLED"
      [] x.status \notin {"FILLED", "CANCELED"} ->
             IF x.executed > 0 THEN "PARTIALLY_FILLED" ELSE "ACCEPTED"

\* applyLiveSyncResult up to the settlement: the copy of the order the caller
\* read, with the reply written over it.  The quantity starts again from the
\* normalized submission and is then trimmed for a FILLED reduce-only order.
Synced(o, row, r) ==
    LET normalized == IF row.submitted THEN Qty[o] ELSE row.quantity
        trimmed == /\ r.status = "FILLED" /\ o \in ReduceOnly
                   /\ 0 < r.executed /\ r.executed < normalized
    IN [row EXCEPT
          !.status = r.status,
          !.quantity = IF trimmed THEN r.executed ELSE normalized,
          !.attempts = IF r.kind = "sync"
                         THEN LeastOf(@ + 1, EmptyTradeLimit) ELSE @,
          !.retryRequired = IF r.kind = "sync" THEN r.retryRequired ELSE @]

\* buildTerminalFilledFallbackReport: the quantity a FILLED reply without
\* reports still owes, going by the copy's filledQuantity; 0 for no report.
FallbackQty(row, r) ==
    IF r.status = "FILLED" /\ ~ r.retryRequired
      THEN LET filled == IF r.executed > 0 THEN r.executed ELSE row.quantity
           IN AtLeastZero(LeastOf(filled, row.quantity) - row.filledQuantity)
      ELSE 0

SyntheticKind(r) == IF r.synthetic > 0 THEN "query" ELSE "submission"

SyntheticQty(row, r) ==
    IF r.synthetic > 0 THEN r.synthetic ELSE FallbackQty(row, r)

\* Fault: a FILLED reply is taken to mean that all fills are stored.
FinalizedByStatus(row, filled) ==
    [row EXCEPT !.filledQuantity = IF row.status = "FILLED" THEN row.quantity
                                   ELSE filled]

\* The end of finalizeExecutedOrder: status and metadata from the stored total.
Finalized(row, filled) ==
    LET complete == filled >= row.quantity
        closed == complete \/ row.status \in {"CANCELLED", "REJECTED"}
    IN [row EXCEPT
          !.filledQuantity = filled,
          !.status = IF complete THEN "FILLED"
                     ELSE IF ~ closed /\ filled > 0 THEN "PARTIALLY_FILLED"
                     ELSE @,
          !.syncRequired = @ /\ ~ (closed /\ ~ row.retryRequired)]

\* BuildFillReconciliationPlan for a new synthetic report of q lots: what is
\* added under its fingerprint (nothing when the fingerprint is known).
SyntheticPlan(o, row, kind, q) ==
    IF placeholder[o][kind] > 0 THEN 0
    ELSE AtLeastZero(LeastOf(q, row.quantity - Filled(o)))

\* ... and for new trades: at most the quantity real fills do not cover yet.
RealPlan(o, row, trades) ==
    LET new == trades \ real[o]
        room == AtLeastZero(row.quantity - Cardinality(real[o]))
    IN {taken \in SUBSET new :
            Cardinality(taken) = LeastOf(Cardinality(new), room)}

\* Faults: the placeholders stay beside the trades, the remainder is dropped,
\* or it is not clamped; all trades are new to the position.
UpgradedKeepsPlaceholders(p, taken) == p

UpgradedDropsRemainder(p, taken) == IF taken = {} THEN p ELSE NoPlaceholder

UpgradedUnclamped(p, taken) ==
    [NoPlaceholder EXCEPT !["remainder"] = Total(p) - Cardinality(taken)]

NewToPositionIgnoresPlaceholders(p, taken) == Cardinality(taken)

\* Real fills replace every placeholder; what they do not cover stays as
\* the remainder, what exceeds the placeholders is new to the position.
Upgraded(p, taken) ==
    IF taken = {} THEN p
    ELSE [NoPlaceholder EXCEPT
            !["remainder"] = AtLeastZero(Total(p) - Cardinality(taken))]

NewToPosition(p, taken) == AtLeastZero(Cardinality(taken) - Total(p))

\* markLiveSettlementSyncRetry
MarkRetry(row) ==
    [row EXCEPT !.syncRequired =
        ~ (row.filledQuantity >= row.quantity /\ ~ row.retryRequired)]

-----------------------------------------------------------------------------
Init ==
    /\ order = [o \in Orders |-> NoOrder(o)]
    /\ real = [o \in Orders |-> {}]
    /\ placeholder = [o \in Orders |-> NoPlaceholder]
    /\ position = NoPosition
    /\ exchange = [o \in Orders |-> [status |-> "NONE", executed |-> 0]]
    /\ worker = [w \in Workers |-> Idle]

Books == <<order, real, placeholder, position>>

\* A handler starts: it reads the order and keeps its own copy.
Start(w, o, pc, reply) ==
    /\ worker[w] = Idle
    /\ order[o].status # "ABSENT"
    /\ worker' = [worker EXCEPT ![w] =
                    [pc |-> pc, o |-> o, local |-> order[o],
                     reply |-> reply, creator |-> FALSE]]
    /\ UNCHANGED <<Books, exchange>>

Goto(w, pc) == worker' = [worker EXCEPT ![w].pc = pc]

Done(w) == worker' = [worker EXCEPT ![w] = Idle]

At(w, pc) == worker[w].pc = pc

-----------------------------------------------------------------------------
(* Submission: submitLiveOrder and applyLiveSubmissionResult. *)

\* CreateOrder stores the row as NEW and its goroutine submits it, once.
CreateOrder(w, o) ==
    /\ worker[w] = Idle
    /\ order[o].status = "ABSENT"
    /\ order' = [order EXCEPT ![o].status = "NEW"]
    /\ worker' = [worker EXCEPT ![w] =
                    [pc |-> "submit", o |-> o, local |-> order'[o],
                     reply |-> NoReply("submission"), creator |-> TRUE]]
    /\ UNCHANGED <<real, placeholder, position, exchange>>

\* The exchange takes the order: it rests, fills at once, or expires.  The
\* answer reaches the caller, or is lost.
PlaceOrder(w) ==
    /\ At(w, "submit")
    /\ LET o == worker[w].o IN
       \E executed \in 0..Qty[o], expired \in BOOLEAN, answered \in BOOLEAN :
         LET x == [status |-> IF executed = Qty[o] THEN "FILLED"
                              ELSE IF expired THEN "CANCELED" ELSE "LIVE",
                   executed |-> executed]
         IN /\ exchange' = [exchange EXCEPT ![o] = x]
            /\ worker' = [worker EXCEPT
                   ![w].pc = IF answered THEN "accepted" ELSE "refused",
                   ![w].reply.status = MappedStatus(x),
                   ![w].reply.executed = executed]
    /\ UNCHANGED Books

\* The exchange does not get the order, or turns it down.
PlaceOrderFails(w) ==
    /\ At(w, "submit")
    /\ Goto(w, "refused")
    /\ UNCHANGED <<Books, exchange>>

\* No adapter, or the runtime session is not ready: submitLiveOrder returns
\* before it writes anything; or the store refuses the result of the
\* submission.  The row stays NEW.
SubmissionAborted(w) ==
    /\ worker[w].pc \in {"submit", "accepted", "refused"}
    /\ Done(w)
    /\ UNCHANGED <<Books, exchange>>

\* submitErr # nil: REJECTED, whatever the exchange did with the order.
ApplySubmissionError(w) ==
    /\ At(w, "refused")
    /\ order' = [order EXCEPT ![worker[w].o] =
                   [worker[w].local EXCEPT !.status = "REJECTED"]]
    /\ Done(w)
    /\ UNCHANGED <<real, placeholder, position, exchange>>

\* The accepted submission is stored; a FILLED one is settled right away.
ApplySubmission(w) ==
    /\ At(w, "accepted")
    /\ LET o == worker[w].o
           r == worker[w].reply
           row == [worker[w].local EXCEPT
                     !.status = r.status,
                     !.submitted = TRUE,
                     !.submissionFilled =
                         IF r.status = "FILLED" THEN r.executed ELSE 0]
       IN /\ order' = [order EXCEPT ![o] = row]
          /\ worker' = [worker EXCEPT ![w] =
                          IF r.status = "FILLED"
                            THEN [@ EXCEPT !.pc = "apply", !.local = row]
                            ELSE Idle]
    /\ UNCHANGED <<real, placeholder, position, exchange>>

\* applyLiveSubmissionResult after settleImmediatelyFilledLiveOrder: all is
\* well, or the copy in hand is written back with the retry mark.  That copy
\* is the settled order when only the account refresh failed, and the order
\* as submitted when the settlement returned an error (pc "retry").
FinishSubmission(w, ok) ==
    /\ worker[w].pc \in IF ok THEN {"refresh"} ELSE {"refresh", "retry"}
    /\ order' = IF ok THEN order
                ELSE [order EXCEPT ![worker[w].o] = MarkRetry(worker[w].local)]
    /\ Done(w)
    /\ UNCHANGED <<real, placeholder, position, exchange>>

\* liveSettlementPendingOrderSymbols settles from the stored submission.
RetryPendingSettlement(w, o) ==
    /\ order[o].syncRequired
    /\ order[o].filledQuantity < order[o].quantity
    /\ order[o].submissionFilled > 0
    /\ Start(w, o, "apply",
             [NoReply("submission") EXCEPT
                !.status = "FILLED", !.executed = order[o].submissionFilled])

-----------------------------------------------------------------------------
(* SyncLiveOrder and CancelLiveOrder. *)

SyncLiveOrder(w, o) == Start(w, o, "query", NoReply("sync"))

CancelLiveOrder(w, o) == Start(w, o, "cancel", NoReply("cancel"))

\* syncRESTOrder, first request: the order as the exchange knows it.
QueryOrder(w) ==
    /\ At(w, "query")
    /\ LET x == exchange[worker[w].o] IN
         /\ x.status # "NONE"
         /\ worker' = [worker EXCEPT ![w].pc = "trades",
                                     ![w].reply.status = MappedStatus(x),
                                     ![w].reply.executed = x.executed]
    /\ UNCHANGED <<Books, exchange>>

\* syncRESTOrder, second request: the trades of the order, as many of them as
\* the exchange shows by now.  A FILLED order must have some: when none is
\* shown, or the request fails (fetched = FALSE), either the caller is to
\* sync again or a synthetic fill of the executed quantity stands in.
AnswerTrades(w, visible, fetched) ==
    LET r == worker[w].reply
        owed == r.status = "FILLED" /\ visible = {} /\ r.executed > 0
        retry == /\ owed
                 /\ \/ ~ fetched
                    \/ worker[w].local.attempts < EmptyTradeLimit
    IN /\ worker' = [worker EXCEPT
                       ![w].pc = "apply",
                       ![w].reply.trades =
                           IF IsTerminal(r.status) THEN visible ELSE {},
                       ![w].reply.synthetic =
                           IF owed /\ ~ retry THEN r.executed ELSE 0,
                       ![w].reply.retryRequired = retry]
       /\ UNCHANGED <<Books, exchange>>

\* fetchRESTTradeReports asks by exchange order id when the copy has one, and
\* otherwise for the trades of the symbol, whoever they belong to.
Shown(w) ==
    LET o == worker[w].o IN
    1..exchange[o].executed
        \cup (IF worker[w].local.submitted THEN {} ELSE Foreign(o))

FetchTrades(w) ==
    /\ At(w, "trades")
    /\ \E visible \in SUBSET Shown(w) :
          AnswerTrades(w, visible, TRUE)

FetchTradesFails(w) ==
    /\ At(w, "trades")
    /\ AnswerTrades(w, {}, FALSE)

\* cancelRESTOrder: only a resting order can be cancelled, and the answer
\* carries neither fills nor quantities; it may be lost.
CancelOrder(w, answered) ==
    /\ At(w, "cancel")
    /\ exchange[worker[w].o].status = "LIVE"
    /\ exchange' = [exchange EXCEPT ![worker[w].o].status = "CANCELED"]
    /\ worker' = [worker EXCEPT ![w] =
                    IF answered THEN [@ EXCEPT !.pc = "apply",
                                               !.reply.status = "CANCELLED"]
                    ELSE Idle]
    /\ UNCHANGED Books

\* A request fails and the handler returns its error, nothing written.
RequestFails(w) ==
    /\ worker[w].pc \in {"query", "cancel"}
    /\ Done(w)
    /\ UNCHANGED <<Books, exchange>>

-----------------------------------------------------------------------------
(* applyLiveSyncResult: the reply meets the copy of the order. *)

\* Where the handler goes once the order is settled.
AfterApply(w) ==
    worker' = [worker EXCEPT ![w] =
                 IF @.creator
                   THEN [@ EXCEPT !.pc = "refresh", !.local = order'[worker[w].o]]
                   ELSE Idle]

\* captureAccountSnapshot may fail when the settlement is already committed:
\* the caller gets an error, and the creator keeps the copy it submitted.
AfterSettlement(w) ==
    \/ AfterApply(w)
    \/ worker[w].creator /\ Goto(w, "retry")

\* No fills: the copy is written over whatever the row holds by now.
UpdateOrderWithoutFills(w) ==
    /\ At(w, "apply")
    /\ LET o == worker[w].o
           r == worker[w].reply
           row == Synced(o, worker[w].local, r)
       IN /\ r.trades = {} /\ SyntheticQty(row, r) = 0
          /\ order' = [order EXCEPT ![o] = row]
    /\ AfterApply(w)
    /\ UNCHANGED <<real, placeholder, position, exchange>>

\* finalizeExecutedOrder with trades, one settlement transaction.
SettleRealFills(w) ==
    /\ At(w, "apply")
    /\ worker[w].reply.trades # {}
    /\ LET o == worker[w].o
           row == Synced(o, worker[w].local, worker[w].reply)
       IN \E taken \in RealPlan(o, row, worker[w].reply.trades) :
            /\ real' = [real EXCEPT ![o] = @ \cup taken]
            /\ placeholder' = [placeholder EXCEPT ![o] = Upgraded(@, taken)]
            /\ position' = ApplyFill(position, Side[o],
                                     NewToPosition(placeholder[o], taken))
            /\ order' = [order EXCEPT ![o] =
                           Finalized(row, Cardinality(real'[o])
                                            + Total(placeholder'[o]))]
    /\ AfterSettlement(w)
    /\ UNCHANGED exchange

\* finalizeExecutedOrder with a synthetic fill, one settlement transaction.
SettleSyntheticFill(w) ==
    /\ At(w, "apply")
    /\ LET o == worker[w].o
           r == worker[w].reply
           row == Synced(o, worker[w].local, r)
           kind == SyntheticKind(r)
           q == SyntheticPlan(o, row, kind, SyntheticQty(row, r))
       IN /\ r.trades = {} /\ SyntheticQty(row, r) > 0
          /\ placeholder' = [placeholder EXCEPT ![o][kind] = @ + q]
          /\ position' = ApplyFill(position, Side[o], q)
          /\ order' = [order EXCEPT ![o] =
                         Finalized(row, Cardinality(real[o])
                                          + Total(placeholder'[o]))]
    /\ AfterSettlement(w)
    /\ UNCHANGED <<real, exchange>>

\* The store refuses and the transaction rolls back: the creator goes on to
\* mark the order for another settlement, other callers report the error.
SettlementFails(w) ==
    /\ At(w, "apply")
    /\ IF worker[w].creator THEN Goto(w, "retry") ELSE Done(w)
    /\ UNCHANGED <<Books, exchange>>

-----------------------------------------------------------------------------
(* The exchange, and the process. *)

\* The exchange matches one more lot of a resting order.
Match(o) ==
    /\ exchange[o].status = "LIVE" /\ exchange[o].executed < Qty[o]
    /\ exchange' = [exchange EXCEPT ![o] =
                      [executed |-> @.executed + 1,
                       status |-> IF @.executed + 1 = Qty[o]
                                    THEN "FILLED" ELSE "LIVE"]]
    /\ UNCHANGED <<Books, worker>>

\* The exchange ends a resting order: expired, or for a reduce-only order
\* reported FILLED below its quantity because the position is closed.
Expire(o) ==
    /\ exchange[o].status = "LIVE"
    /\ exchange' = [exchange EXCEPT ![o].status = "CANCELED"]
    /\ UNCHANGED <<Books, worker>>

Trim(o) ==
    /\ o \in ReduceOnly
    /\ exchange[o].status = "LIVE"
    /\ exchange[o].executed > 0
    /\ exchange' = [exchange EXCEPT ![o].status = "FILLED"]
    /\ UNCHANGED <<Books, worker>>

\* The process stops and restarts: the tables stay, the goroutines do not.
Crash ==
    /\ \E w \in Workers : worker[w] # Idle
    /\ worker' = [w \in Workers |-> Idle]
    /\ UNCHANGED <<Books, exchange>>

-----------------------------------------------------------------------------
\* The handlers of submission and of its retries.
SubmissionStep(w) ==
    \/ \E o \in Orders : CreateOrder(w, o) \/ RetryPendingSettlement(w, o)
    \/ PlaceOrder(w)
    \/ PlaceOrderFails(w)
    \/ SubmissionAborted(w)
    \/ ApplySubmissionError(w)
    \/ ApplySubmission(w)
    \/ \E ok \in BOOLEAN : FinishSubmission(w, ok)

CancelStep(w) ==
    \/ \E o \in Orders : CancelLiveOrder(w, o)
    \/ \E answered \in BOOLEAN : CancelOrder(w, answered)

SyncStep(w) ==
    \/ \E o \in Orders : SyncLiveOrder(w, o)
    \/ QueryOrder(w)
    \/ FetchTrades(w)
    \/ FetchTradesFails(w)
    \/ RequestFails(w)

ApplyStep(w) ==
    \/ UpdateOrderWithoutFills(w)
    \/ SettleRealFills(w)
    \/ SettleSyntheticFill(w)
    \/ SettlementFails(w)

WorkerStep(w) ==
    SubmissionStep(w) \/ CancelStep(w) \/ SyncStep(w) \/ ApplyStep(w)

ExchangeStep(o) == Match(o) \/ Expire(o) \/ Trim(o)

Next ==
    \/ \E w \in Workers : WorkerStep(w)
    \/ \E o \in Orders : ExchangeStep(o)
    \/ Crash

Spec == Init /\ [][Next]_vars

(***************************************************************************)
(* Fairness of the live session loop (worker s): it runs again on every    *)
(* signal event (triggerLiveSessionFromSignal, syncActiveLiveSessions), so *)
(* an order that needs a sync is synced again and again.  Requests, the    *)
(* store and the process may fail any number of times, but not forever,    *)
(* and the exchange eventually shows all trades of an order it reports.    *)
(***************************************************************************)
CompleteTrades(w) == worker[w].reply.trades = 1..exchange[worker[w].o].executed

SessionFairness(s) ==
    /\ WF_vars(worker[s] # Idle /\ WorkerStep(s))
    /\ \A o \in Orders : SF_vars(NeedsSync(o) /\ SyncLiveOrder(s, o))
    /\ SF_vars(QueryOrder(s))
    /\ SF_vars(/\ At(s, "trades")
               /\ AnswerTrades(s, 1..exchange[worker[s].o].executed, TRUE))
    /\ SF_vars(SettleRealFills(s) /\ CompleteTrades(s))

-----------------------------------------------------------------------------
(* Properties. *)

OrdersOK == DOMAIN order = Orders /\ \A o \in Orders : order[o] \in OrderRow(o)

FillsOK ==
    /\ DOMAIN real = Orders /\ DOMAIN placeholder = Orders
    /\ \A o \in Orders : /\ real[o] \subseteq Trades(o)
                         /\ placeholder[o] \in [PlaceholderKinds -> Nat]
    /\ position \in [side : {"LONG", "SHORT"}, quantity : Nat]

ExchangeOK ==
    /\ DOMAIN exchange = Orders
    /\ \A o \in Orders :
         exchange[o] \in [status : ExchangeStatus, executed : 0..Qty[o]]

WorkersOK ==
    /\ DOMAIN worker = Workers
    /\ \A w \in Workers :
         worker[w] = Idle \/ \E o \in Orders : worker[w] \in Busy(o)

\* Every table and every local variable holds a value of its type.
TypeOK == OrdersOK /\ FillsOK /\ ExchangeOK /\ WorkersOK

\* Fills never exceed what the exchange executed: neither synthetic fills
\* built from stale copies of the order nor trades that arrive after them
\* are counted twice (fill-reconciliation-engine.md, rules 2 and 5).  Holds
\* as long as fetchRESTTradeReports is shown no other order's trades.
NoOverfill == \A o \in Orders : Filled(o) <= exchange[o].executed

PositionStep ==
    \/ position' = position /\ \A o \in Orders : Filled(o)' = Filled(o)
    \/ \E o \in Orders :
         /\ Net(position') - Net(position) = Sign(o) * (Filled(o)' - Filled(o))
         /\ \A p \in Orders \ {o} : Filled(p)' = Filled(p)

\* A settlement moves the position by exactly the lots it adds to the fills
\* of one order (live-safety-invariants.md, the order-fill-position triangle).
PositionFollowsFills == [][PositionStep]_vars

FillsOnlyGrow == \A o \in Orders : Filled(o)' >= Filled(o)

\* Replacing placeholders by trades never lowers the filled quantity
\* (fill-reconciliation-engine.md, rule 3).
FilledNeverFallsBack == [][FillsOnlyGrow]_vars

\* A stale copy may lose fills from the order row but never invents them: an
\* order marked FILLED with trades still missing is one the session loop
\* keeps syncing.
UnsettledIsRetried ==
    \A o \in Orders :
        order[o].status = "FILLED" /\ Filled(o) < exchange[o].executed
            => NeedsSync(o)

\* An order the exchange has FILLED, whose submission is not still in flight
\* and was not reported as failed, is eventually settled with its real trades
\* and nothing else, whatever copies other workers write over it meanwhile.
Owed(o) ==
    /\ exchange[o].status = "FILLED"
    /\ order[o].status \in {"ACCEPTED", "PARTIALLY_FILLED", "FILLED"}
    /\ \A w \in Workers : worker[w].pc \in {"accepted", "refused"}
                              => worker[w].o # o

FilledOrdersSettle ==
    \A o \in Orders :
        Owed(o) ~> /\ Cardinality(real[o]) = exchange[o].executed
                   /\ Total(placeholder[o]) = 0

\* The order book, the fills and the position seen as a ledger.
Ledger ==
    INSTANCE FillLedger WITH
        executed <- [o \in Orders |-> exchange[o].executed],
        filled <- [o \in Orders |-> Filled(o)],
        net <- Net(position)

\* Settlement implements the ledger: whatever copies, replies, placeholders
\* and crashes come between, every executed lot enters the fills and the
\* position at most once, one order at a time, and never leaves them.
ImplementsLedger == Ledger!Spec

=============================================================================
