----------------------- MODULE FillSettlementProofs -----------------------
(***************************************************************************)
(* Theorems about FillSettlement for any set of orders and workers, any    *)
(* order quantities and any retry limit.                                   *)
(***************************************************************************)
EXTENDS FillSettlement, FiniteSetTheorems, TLAPS

-----------------------------------------------------------------------------
(* The operators the handlers are built from. *)

\* A set of trades is finite and its size bounded by the largest trade.
LEMMA TradesFinite ==
    ASSUME NEW n \in Nat, NEW S \in SUBSET (1..n)
    PROVE  IsFiniteSet(S) /\ Cardinality(S) \in Nat /\ Cardinality(S) <= n
<1>1. IsFiniteSet(1..n) /\ Cardinality(1..n) = n
  BY FS_Interval
<1>. QED
  BY <1>1, FS_Subset, FS_CardinalityType

\* Sizes of trade sets that share no trade add up.
LEMMA TradesUnion ==
    ASSUME NEW n \in Nat, NEW S \in SUBSET (1..n), NEW T \in SUBSET (1..n),
           S \cap T = {}
    PROVE  Cardinality(S \cup T) = Cardinality(S) + Cardinality(T)
<1>1. IsFiniteSet(S) /\ IsFiniteSet(T)
  BY TradesFinite
<1>2. Cardinality(S \cap T) = 0
  BY FS_EmptySet
<1>3. Cardinality(S \cup T)
           = Cardinality(S) + Cardinality(T) - Cardinality(S \cap T)
  BY <1>1, FS_Union
<1>4. Cardinality(S) \in Nat /\ Cardinality(T) \in Nat
  BY TradesFinite
<1>. QED
  BY <1>2, <1>3, <1>4

\* There is a last trade.
LEMMA LastTradeNat ==
    ASSUME NEW o \in Orders
    PROVE  LastTrade(o) \in Nat
BY QtyAssumption, ForeignAssumption DEF LastTrade

\* mapBinanceOrderStatus answers one of the platform's statuses.
LEMMA MappedStatusType ==
    ASSUME NEW x
    PROVE  /\ MappedStatus(x) \in OrderStatus \ {"ABSENT"}
           /\ MappedStatus(x) = "FILLED" <=> x.status = "FILLED"
BY DEF MappedStatus, OrderStatus

\* applyLiveSyncResult turns a row and a reply into a row.
LEMMA SyncedType ==
    ASSUME NEW o \in Orders, NEW row \in OrderRow(o), NEW r \in Reply(o)
    PROVE  Synced(o, row, r) \in OrderRow(o)
<1>1. Qty[o] \in Nat /\ Qty[o] > 0 /\ EmptyTradeLimit \in Nat
  BY QtyAssumption, LimitAssumption
<1>2. /\ row.quantity \in 1..Qty[o] /\ row.attempts \in 0..EmptyTradeLimit
      /\ row.retryRequired \in BOOLEAN /\ row.submitted \in BOOLEAN
      /\ r.executed \in 0..Qty[o] /\ r.status \in OrderStatus
      /\ r.retryRequired \in BOOLEAN
  BY DEF OrderRow, Reply
<1>. DEFINE n == IF row.submitted THEN Qty[o] ELSE row.quantity
            q == IF /\ r.status = "FILLED" /\ o \in ReduceOnly
                    /\ 0 < r.executed /\ r.executed < n
                   THEN r.executed ELSE n
            a == IF r.kind = "sync"
                   THEN LeastOf(row.attempts + 1, EmptyTradeLimit)
                   ELSE row.attempts
            t == IF r.kind = "sync" THEN r.retryRequired
                   ELSE row.retryRequired
<1>3. n \in 1..Qty[o]
  <2>1. Qty[o] \in 1..Qty[o]
    BY <1>1
  <2>. QED
    BY <1>2, <2>1
<1>4. q \in 1..Qty[o]
  <2>. HIDE DEF n
  <2>. QED
    BY <1>1, <1>2, <1>3
<1>5. a \in 0..EmptyTradeLimit
  BY <1>1, <1>2 DEF LeastOf
<1>6. t \in BOOLEAN
  BY <1>2
<1>7. Synced(o, row, r) = [row EXCEPT !.status = r.status, !.quantity = q,
                                      !.attempts = a, !.retryRequired = t]
  BY Zenon DEF Synced
<1>. HIDE DEF q, a, t
<1>8. [row EXCEPT !.status = r.status, !.quantity = q, !.attempts = a,
                  !.retryRequired = t] \in OrderRow(o)
  BY <1>2, <1>4, <1>5, <1>6 DEF OrderRow
<1>. QED
  BY <1>7, <1>8

\* finalizeExecutedOrder turns a row and a total into a row.
LEMMA FinalizedType ==
    ASSUME NEW o \in Orders, NEW row \in OrderRow(o), NEW filled \in Nat
    PROVE  Finalized(row, filled) \in OrderRow(o)
BY QtyAssumption DEF Finalized, OrderRow, OrderStatus

\* markLiveSettlementSyncRetry keeps the row typed.
LEMMA MarkRetryType ==
    ASSUME NEW o \in Orders, NEW row \in OrderRow(o)
    PROVE  MarkRetry(row) \in OrderRow(o)
BY QtyAssumption DEF MarkRetry, OrderRow

\* buildTerminalFilledFallbackReport owes a quantity, never a negative one.
LEMMA FallbackQtyType ==
    ASSUME NEW o \in Orders, NEW row \in OrderRow(o), NEW r \in Reply(o)
    PROVE  SyntheticQty(row, r) \in 0..Qty[o]
BY QtyAssumption
   DEF SyntheticQty, FallbackQty, OrderRow, Reply, LeastOf, AtLeastZero

\* A fill moves the signed position by its quantity, on its own side.
LEMMA ApplyFillEffect ==
    ASSUME NEW p \in [side : {"LONG", "SHORT"}, quantity : Nat],
           NEW side \in {"BUY", "SELL"}, NEW q \in Nat
    PROVE  /\ ApplyFill(p, side, q) \in [side : {"LONG", "SHORT"}, quantity : Nat]
           /\ Net(ApplyFill(p, side, q)) - Net(p) = IF side = "BUY" THEN q ELSE 0 - q
BY DEF ApplyFill, Net, NoPosition

\* The total of the placeholders of an order.
LEMMA TotalType ==
    ASSUME NEW p \in [PlaceholderKinds -> Nat]
    PROVE  Total(p) \in Nat
BY DEF Total, PlaceholderKinds

\* Adding q lots under one fingerprint adds q lots to the total.
LEMMA TotalAdd ==
    ASSUME NEW p \in [PlaceholderKinds -> Nat], NEW k \in PlaceholderKinds,
           NEW q \in Nat
    PROVE  /\ [p EXCEPT ![k] = @ + q] \in [PlaceholderKinds -> Nat]
           /\ Total([p EXCEPT ![k] = @ + q]) = Total(p) + q
BY DEF Total, PlaceholderKinds

\* Upgrading keeps only a remainder: what the trades do not cover.
LEMMA UpgradedTotal ==
    ASSUME NEW p \in [PlaceholderKinds -> Nat], NEW n \in Nat,
           NEW taken \in SUBSET (1..n)
    PROVE  /\ Upgraded(p, taken) \in [PlaceholderKinds -> Nat]
           /\ Total(Upgraded(p, taken))
                = AtLeastZero(Total(p) - Cardinality(taken))
           /\ NewToPosition(p, taken) \in Nat
           /\ NewToPosition(p, taken) + Total(p)
                = Total(Upgraded(p, taken)) + Cardinality(taken)
<1>1. Total(p) \in Nat /\ Cardinality(taken) \in Nat
  BY TotalType, TradesFinite
<1>2. CASE taken = {}
  BY <1>1, <1>2, FS_EmptySet DEF Upgraded, NewToPosition, AtLeastZero
<1>3. CASE taken # {}
  <2>. DEFINE m == AtLeastZero(Total(p) - Cardinality(taken))
  <2>1. m \in Nat
    BY <1>1 DEF AtLeastZero
  <2>2. Upgraded(p, taken) = [NoPlaceholder EXCEPT !["remainder"] = m]
    BY <1>3 DEF Upgraded
  <2>. HIDE DEF m
  <2>3. /\ [NoPlaceholder EXCEPT !["remainder"] = m] \in [PlaceholderKinds -> Nat]
        /\ Total([NoPlaceholder EXCEPT !["remainder"] = m]) = m
    BY <2>1 DEF NoPlaceholder, PlaceholderKinds, Total
  <2>4. /\ NewToPosition(p, taken) \in Nat
        /\ NewToPosition(p, taken) + Total(p) = m + Cardinality(taken)
    BY <1>1 DEF NewToPosition, AtLeastZero, m
  <2>. QED
    BY <2>2, <2>3, <2>4 DEF m
<1>. QED
  BY <1>2, <1>3

\* The plan for new trades: some of the trades that are not stored yet, no
\* more of them than the real fills leave open.
LEMMA RealPlanType ==
    ASSUME FillsOK, NEW o \in Orders, NEW row \in OrderRow(o),
           NEW trades, trades \subseteq Trades(o),
           NEW taken, taken \in RealPlan(o, row, trades)
    PROVE  /\ taken \in SUBSET Trades(o)
           /\ taken \subseteq trades
           /\ real[o] \cap taken = {}
           /\ Cardinality(real[o] \cup taken)
                = Cardinality(real[o]) + Cardinality(taken)
           /\ Cardinality(real[o]) \in Nat
           /\ Cardinality(taken) \in Nat
<1>1. taken \in SUBSET (trades \ real[o])
  BY DEF RealPlan
<1>2. real[o] \in SUBSET Trades(o)
  BY DEF FillsOK
<1>3. LastTrade(o) \in Nat
  BY LastTradeNat
<1>. QED
  BY <1>1, <1>2, <1>3, TradesUnion, TradesFinite DEF Trades

\* The plan for a synthetic report: a quantity, and none beyond the row's.
LEMMA SyntheticPlanType ==
    ASSUME FillsOK, NEW o \in Orders, NEW row \in OrderRow(o),
           NEW kind \in PlaceholderKinds, NEW n \in Nat
    PROVE  /\ SyntheticPlan(o, row, kind, n) \in Nat
           /\ Filled(o) \in Nat
           /\ SyntheticPlan(o, row, kind, n) > 0 =>
                Filled(o) + SyntheticPlan(o, row, kind, n) <= row.quantity
<1>1. Cardinality(real[o]) \in Nat
  BY LastTradeNat, TradesFinite DEF FillsOK, Trades
<1>2. Total(placeholder[o]) \in Nat
  BY TotalType DEF FillsOK
<1>3. Filled(o) \in Nat
  BY <1>1, <1>2 DEF Filled
<1>4. row.quantity \in Nat
  BY QtyAssumption DEF OrderRow
<1>. QED
  BY <1>3, <1>4 DEF SyntheticPlan, AtLeastZero, LeastOf

-----------------------------------------------------------------------------
(* Type correctness. *)

\* A worker with a program counter other than "idle" holds an order.
LEMMA BusyType ==
    ASSUME WorkersOK, NEW w \in Workers, worker[w].pc # "idle"
    PROVE  worker[w].o \in Orders /\ worker[w] \in Busy(worker[w].o)
<1>1. worker[w] # Idle
  BY DEF Idle
<1>2. PICK o \in Orders : worker[w] \in Busy(o)
  BY <1>1 DEF WorkersOK
<1>3. worker[w].o = o
  BY <1>2 DEF Busy
<1>. QED
  BY <1>2, <1>3

\* Writing a row of the right type keeps the orders table typed.
LEMMA SetOrder ==
    ASSUME OrdersOK, NEW o \in Orders, NEW row \in OrderRow(o),
           order' = [order EXCEPT ![o] = row]
    PROVE  OrdersOK'
BY DEF OrdersOK

\* A worker that moves to a typed state keeps the workers typed.
LEMMA SetWorker ==
    ASSUME WorkersOK, NEW w \in Workers, NEW b,
           b = Idle \/ \E o \in Orders : b \in Busy(o),
           worker' = [worker EXCEPT ![w] = b]
    PROVE  WorkersOK'
BY DEF WorkersOK

\* A busy worker that only changes its program counter stays typed.
LEMMA GotoType ==
    ASSUME WorkersOK, NEW w \in Workers, worker[w].pc # "idle",
           NEW pc \in {"submit", "accepted", "refused", "query", "trades",
                       "cancel", "apply", "refresh", "retry"},
           Goto(w, pc)
    PROVE  WorkersOK'
<1>1. worker[w].o \in Orders /\ worker[w] \in Busy(worker[w].o)
  BY BusyType
<1>2. [worker[w] EXCEPT !.pc = pc] \in Busy(worker[w].o)
  BY <1>1 DEF Busy
<1>. QED
  BY <1>1, <1>2 DEF Goto, WorkersOK

\* So does one that finishes.
LEMMA DoneType ==
    ASSUME WorkersOK, NEW w \in Workers, Done(w)
    PROVE  WorkersOK'
BY DEF WorkersOK, Done

\* So does one that starts on a copy of its order.
LEMMA StartType ==
    ASSUME OrdersOK, WorkersOK, NEW w \in Workers, NEW o \in Orders,
           NEW pc \in {"query", "cancel", "apply"}, NEW reply \in Reply(o),
           Start(w, o, pc, reply)
    PROVE  WorkersOK'
<1>1. order[o] \in OrderRow(o)
  BY DEF OrdersOK
<1>. DEFINE b == [pc |-> pc, o |-> o, local |-> order[o], reply |-> reply,
                  creator |-> FALSE]
<1>2. b \in Busy(o)
  BY <1>1 DEF Busy
<1>3. worker' = [worker EXCEPT ![w] = b]
  BY DEF Start
<1>. HIDE DEF b
<1>. QED
  BY <1>2, <1>3, SetWorker

\* And one that leaves applyLiveSyncResult.
LEMMA AfterApplyType ==
    ASSUME WorkersOK, OrdersOK', NEW w \in Workers, worker[w].pc # "idle",
           AfterApply(w)
    PROVE  WorkersOK'
<1>1. worker[w].o \in Orders /\ worker[w] \in Busy(worker[w].o)
  BY BusyType
<1>2. order'[worker[w].o] \in OrderRow(worker[w].o)
  BY <1>1 DEF OrdersOK, OrderRow
<1>3. [worker[w] EXCEPT !.pc = "refresh", !.local = order'[worker[w].o]]
        \in Busy(worker[w].o)
  BY <1>1, <1>2 DEF Busy
<1>. DEFINE b == IF worker[w].creator
                   THEN [worker[w] EXCEPT !.pc = "refresh",
                                          !.local = order'[worker[w].o]]
                   ELSE Idle
<1>4. b = Idle \/ \E o \in Orders : b \in Busy(o)
  BY <1>1, <1>3
<1>5. worker' = [worker EXCEPT ![w] = b]
  BY DEF AfterApply, WorkersOK
<1>. HIDE DEF b
<1>. QED
  BY <1>4, <1>5, SetWorker

\* ... also when the snapshot after the settlement fails.
LEMMA AfterSettlementType ==
    ASSUME WorkersOK, OrdersOK', NEW w \in Workers, worker[w].pc # "idle",
           AfterSettlement(w)
    PROVE  WorkersOK'
BY AfterApplyType, GotoType DEF AfterSettlement

NoReplyType ==
    \A o \in Orders, k \in {"sync", "cancel", "submission"} :
        NoReply(k) \in Reply(o)

\* The empty reply a handler starts from is a reply.
LEMMA NoReplyLemma == NoReplyType
BY QtyAssumption DEF NoReplyType, NoReply, Reply, OrderStatus, Trades

\* Submission keeps every table and worker typed.
LEMMA SubmissionType ==
    ASSUME TypeOK, NEW w \in Workers, SubmissionStep(w)
    PROVE  TypeOK'
<1>. USE DEF TypeOK
<1>a. ASSUME NEW o \in Orders, CreateOrder(w, o)
      PROVE  TypeOK'
  <2>1. [order[o] EXCEPT !.status = "NEW"] \in OrderRow(o)
    BY DEF OrdersOK, OrderRow, OrderStatus
  <2>2. OrdersOK'
    BY <1>a, <2>1 DEF CreateOrder, OrdersOK
  <2>3. order'[o] \in OrderRow(o)
    BY <2>2 DEF OrdersOK, OrderRow
  <2>. DEFINE b == [pc |-> "submit", o |-> o, local |-> order'[o],
                    reply |-> NoReply("submission"), creator |-> TRUE]
  <2>4. b \in Busy(o)
    BY <2>3, NoReplyLemma DEF NoReplyType, Busy
  <2>5. worker' = [worker EXCEPT ![w] = b]
    BY <1>a DEF CreateOrder
  <2>. HIDE DEF b
  <2>6. WorkersOK'
    BY <2>4, <2>5, SetWorker
  <2>. QED
    BY <1>a, <2>2, <2>6 DEF CreateOrder, FillsOK, ExchangeOK
<1>b. ASSUME NEW o \in Orders, RetryPendingSettlement(w, o)
      PROVE  TypeOK'
  <2>. DEFINE r == [NoReply("submission") EXCEPT
                !.status = "FILLED", !.executed = order[o].submissionFilled]
  <2>1. order[o].submissionFilled \in 0..Qty[o]
    BY DEF OrdersOK, OrderRow
  <2>2. r \in Reply(o)
    BY <2>1, NoReplyLemma DEF NoReplyType, Reply, OrderStatus
  <2>3. Start(w, o, "apply", r)
    BY <1>b DEF RetryPendingSettlement
  <2>. HIDE DEF r
  <2>4. WorkersOK'
    BY <2>2, <2>3, StartType
  <2>. QED
    BY <2>3, <2>4 DEF Start, Books, OrdersOK, FillsOK, ExchangeOK
<1>c. CASE PlaceOrder(w)
  <2>. DEFINE o == worker[w].o
  <2>1. worker[w].pc # "idle"
    BY <1>c DEF PlaceOrder, At
  <2>2. o \in Orders /\ worker[w] \in Busy(o)
    BY <2>1, BusyType
  <2>3. PICK executed \in 0..Qty[o], expired \in BOOLEAN, answered \in BOOLEAN :
          LET x == [status |-> IF executed = Qty[o] THEN "FILLED"
                               ELSE IF expired THEN "CANCELED" ELSE "LIVE",
                    executed |-> executed]
          IN /\ exchange' = [exchange EXCEPT ![o] = x]
             /\ worker' = [worker EXCEPT
                    ![w].pc = IF answered THEN "accepted" ELSE "refused",
                    ![w].reply.status = MappedStatus(x),
                    ![w].reply.executed = executed]
    BY <1>c DEF PlaceOrder
  <2>. DEFINE x == [status |-> IF executed = Qty[o] THEN "FILLED"
                               ELSE IF expired THEN "CANCELED" ELSE "LIVE",
                    executed |-> executed]
  <2>4. x \in [status : ExchangeStatus, executed : 0..Qty[o]]
    BY DEF ExchangeStatus
  <2>5. ExchangeOK'
    BY <2>2, <2>3, <2>4 DEF ExchangeOK
  <2>6. MappedStatus(x) \in OrderStatus \ {"ABSENT"}
    BY MappedStatusType
  <2>7. worker' = [worker EXCEPT
                    ![w].pc = IF answered THEN "accepted" ELSE "refused",
                    ![w].reply.status = MappedStatus(x),
                    ![w].reply.executed = executed]
    BY <2>3
  <2>8. worker'[w] \in Busy(o)
    <3>. HIDE DEF x, o
    <3>. QED
      BY <2>2, <2>6, <2>7 DEF Busy, Reply, WorkersOK
  <2>9. WorkersOK'
    BY <2>2, <2>7, <2>8 DEF WorkersOK
  <2>. QED
    BY <1>c, <2>5, <2>9 DEF PlaceOrder, Books, OrdersOK, FillsOK
<1>d. CASE PlaceOrderFails(w)
  BY <1>d, GotoType
  DEF PlaceOrderFails, At, Books, OrdersOK, FillsOK, ExchangeOK
<1>e. CASE SubmissionAborted(w)
  BY <1>e, DoneType
  DEF SubmissionAborted, At, Books, OrdersOK, FillsOK, ExchangeOK
<1>f. CASE ApplySubmissionError(w)
  <2>1. worker[w].pc # "idle"
    BY <1>f DEF ApplySubmissionError, At
  <2>2. worker[w].o \in Orders /\ worker[w] \in Busy(worker[w].o)
    BY <2>1, BusyType
  <2>3. [worker[w].local EXCEPT !.status = "REJECTED"] \in OrderRow(worker[w].o)
    BY <2>2 DEF Busy, OrderRow, OrderStatus
  <2>4. OrdersOK'
    BY <1>f, <2>2, <2>3, SetOrder DEF ApplySubmissionError
  <2>. QED
    BY <1>f, <2>4, DoneType DEF ApplySubmissionError, FillsOK, ExchangeOK
<1>g. CASE ApplySubmission(w)
  <2>. DEFINE o == worker[w].o
              r == worker[w].reply
              row == [worker[w].local EXCEPT
                        !.status = r.status,
                        !.submitted = TRUE,
                        !.submissionFilled =
                            IF r.status = "FILLED" THEN r.executed ELSE 0]
  <2>1. worker[w].pc # "idle"
    BY <1>g DEF ApplySubmission, At
  <2>2. o \in Orders /\ worker[w] \in Busy(o)
    BY <2>1, BusyType
  <2>3. row \in OrderRow(o)
    <3>1. worker[w].local \in OrderRow(o) /\ r \in Reply(o)
      BY <2>2 DEF Busy
    <3>2. r.status \in OrderStatus /\ r.executed \in 0..Qty[o]
      BY <3>1 DEF Reply
    <3>3. (IF r.status = "FILLED" THEN r.executed ELSE 0) \in 0..Qty[o]
      BY <2>2, <3>2, QtyAssumption
    <3>. QED
      BY <3>1, <3>2, <3>3 DEF OrderRow
  <2>. DEFINE b == IF r.status = "FILLED"
                     THEN [worker[w] EXCEPT !.pc = "apply", !.local = row]
                     ELSE Idle
  <2>4. [worker[w] EXCEPT !.pc = "apply", !.local = row] \in Busy(o)
    BY <2>2, <2>3 DEF Busy
  <2>5. b = Idle \/ \E p \in Orders : b \in Busy(p)
    BY <2>2, <2>4
  <2>6. order' = [order EXCEPT ![o] = row] /\ worker' = [worker EXCEPT ![w] = b]
    BY <1>g DEF ApplySubmission, WorkersOK
  <2>. HIDE DEF b, row
  <2>7. OrdersOK' /\ WorkersOK'
    BY <2>2, <2>3, <2>5, <2>6, SetOrder, SetWorker
  <2>. QED
    BY <1>g, <2>7 DEF ApplySubmission, FillsOK, ExchangeOK
<1>h. ASSUME NEW ok \in BOOLEAN, FinishSubmission(w, ok)
      PROVE  TypeOK'
  <2>1. worker[w].pc # "idle"
    BY <1>h DEF FinishSubmission, At
  <2>2. worker[w].o \in Orders /\ worker[w] \in Busy(worker[w].o)
    BY <2>1, BusyType
  <2>3. MarkRetry(worker[w].local) \in OrderRow(worker[w].o)
    BY <2>2, MarkRetryType DEF Busy
  <2>4. OrdersOK'
    <3>1. CASE order' = order
      BY <3>1 DEF OrdersOK
    <3>2. CASE order' = [order EXCEPT ![worker[w].o] = MarkRetry(worker[w].local)]
      BY <2>2, <2>3, <3>2, SetOrder
    <3>. QED
      BY <1>h, <3>1, <3>2 DEF FinishSubmission
  <2>. QED
    BY <1>h, <2>4, DoneType DEF FinishSubmission, FillsOK, ExchangeOK
<1>. QED
  BY <1>a, <1>b, <1>c, <1>d, <1>e, <1>f, <1>g, <1>h DEF SubmissionStep

\* Sync and cancel requests keep every table and worker typed.
LEMMA RequestType ==
    ASSUME TypeOK, NEW w \in Workers, CancelStep(w) \/ SyncStep(w)
    PROVE  TypeOK'
<1>. USE DEF TypeOK
<1>a. ASSUME NEW o \in Orders, CancelLiveOrder(w, o) \/ SyncLiveOrder(w, o)
      PROVE  TypeOK'
  <2>1. PICK k \in {"sync", "cancel"}, pc \in {"query", "cancel"} :
          Start(w, o, pc, NoReply(k))
    BY <1>a DEF CancelLiveOrder, SyncLiveOrder
  <2>2. NoReply(k) \in Reply(o)
    BY NoReplyLemma DEF NoReplyType
  <2>3. WorkersOK'
    BY <2>1, <2>2, StartType
  <2>. QED
    BY <2>1, <2>3 DEF Start, Books, OrdersOK, FillsOK, ExchangeOK
<1>b. ASSUME NEW answered \in BOOLEAN, CancelOrder(w, answered)
      PROVE  TypeOK'
  <2>1. worker[w].pc # "idle"
    BY <1>b DEF CancelOrder, At
  <2>2. worker[w].o \in Orders /\ worker[w] \in Busy(worker[w].o)
    BY <2>1, BusyType
  <2>. DEFINE b == IF answered
                     THEN [worker[w] EXCEPT !.pc = "apply",
                                            !.reply.status = "CANCELLED"]
                     ELSE Idle
  <2>3. [worker[w] EXCEPT !.pc = "apply", !.reply.status = "CANCELLED"]
          \in Busy(worker[w].o)
    BY <2>2 DEF Busy, Reply, OrderStatus
  <2>4. b = Idle \/ \E o \in Orders : b \in Busy(o)
    BY <2>2, <2>3
  <2>5. worker' = [worker EXCEPT ![w] = b]
    BY <1>b DEF CancelOrder, WorkersOK
  <2>. HIDE DEF b
  <2>6. WorkersOK'
    BY <2>4, <2>5, SetWorker
  <2>7. ExchangeOK'
    BY <1>b, <2>2 DEF CancelOrder, ExchangeOK, ExchangeStatus
  <2>. QED
    BY <1>b, <2>6, <2>7 DEF CancelOrder, Books, OrdersOK, FillsOK
<1>c. CASE QueryOrder(w)
  <2>1. worker[w].pc # "idle"
    BY <1>c DEF QueryOrder, At
  <2>2. worker[w].o \in Orders /\ worker[w] \in Busy(worker[w].o)
    BY <2>1, BusyType
  <2>. DEFINE x == exchange[worker[w].o]
  <2>3. MappedStatus(x) \in OrderStatus \ {"ABSENT"}
    BY MappedStatusType
  <2>4. x.executed \in 0..Qty[worker[w].o]
    BY <2>2 DEF ExchangeOK
  <2>5. worker' = [worker EXCEPT ![w].pc = "trades",
                                 ![w].reply.status = MappedStatus(x),
                                 ![w].reply.executed = x.executed]
    BY <1>c DEF QueryOrder
  <2>6. worker'[w] \in Busy(worker[w].o)
    <3>. HIDE DEF x
    <3>. QED
      BY <2>2, <2>3, <2>4, <2>5 DEF Busy, Reply, WorkersOK
  <2>7. WorkersOK'
    BY <2>2, <2>5, <2>6 DEF WorkersOK
  <2>. QED
    BY <1>c, <2>7 DEF QueryOrder, Books, OrdersOK, FillsOK, ExchangeOK
<1>d. ASSUME NEW fetched \in BOOLEAN, At(w, "trades"),
             NEW visible \in SUBSET Shown(w),
             AnswerTrades(w, visible, fetched)
      PROVE  TypeOK'
  <2>1. worker[w].pc # "idle"
    BY <1>d DEF At
  <2>2. worker[w].o \in Orders /\ worker[w] \in Busy(worker[w].o)
    BY <2>1, BusyType
  <2>3. exchange[worker[w].o].executed \in 0..Qty[worker[w].o]
    BY <2>2 DEF ExchangeOK
  <2>4. Qty[worker[w].o] \in Nat
    BY <2>2, QtyAssumption
  <2>5. visible \in SUBSET Trades(worker[w].o)
    BY <1>d, <2>3, <2>4, ForeignAssumption DEF Trades, Foreign, Shown, LastTrade
  <2>6. worker[w].reply.executed \in 0..Qty[worker[w].o]
    BY <2>2 DEF Busy, Reply
  <2>7. PICK t \in SUBSET Trades(worker[w].o), n \in 0..Qty[worker[w].o],
             retry \in BOOLEAN :
          worker' = [worker EXCEPT ![w].pc = "apply", ![w].reply.trades = t,
                                   ![w].reply.synthetic = n,
                                   ![w].reply.retryRequired = retry]
    <3>. DEFINE owed == /\ worker[w].reply.status = "FILLED" /\ visible = {}
                        /\ worker[w].reply.executed > 0
                retry == /\ owed
                         /\ \/ ~ fetched
                            \/ worker[w].local.attempts < EmptyTradeLimit
                t == IF IsTerminal(worker[w].reply.status) THEN visible ELSE {}
                n == IF owed /\ ~ retry THEN worker[w].reply.executed ELSE 0
    <3>1. t \in SUBSET Trades(worker[w].o)
      BY <2>5
    <3>2. n \in 0..Qty[worker[w].o]
      BY <2>4, <2>6
    <3>3. retry \in BOOLEAN
      OBVIOUS
    <3>4. worker' = [worker EXCEPT ![w].pc = "apply", ![w].reply.trades = t,
                                   ![w].reply.synthetic = n,
                                   ![w].reply.retryRequired = retry]
      BY <1>d, Zenon DEF AnswerTrades
    <3>. HIDE DEF t, n, retry
    <3>. QED
      BY <3>1, <3>2, <3>3, <3>4
  <2>8. worker'[w] \in Busy(worker[w].o)
    BY <2>2, <2>7 DEF Busy, Reply, WorkersOK
  <2>9. WorkersOK'
    BY <2>2, <2>7, <2>8 DEF WorkersOK
  <2>. QED
    BY <1>d, <2>9 DEF AnswerTrades, Books, OrdersOK, FillsOK, ExchangeOK
<1>e. CASE FetchTrades(w)
  BY <1>d, <1>e DEF FetchTrades
<1>f. CASE FetchTradesFails(w)
  BY <1>d, <1>f DEF FetchTradesFails
<1>g. CASE RequestFails(w)
  BY <1>g, DoneType DEF RequestFails, Books, OrdersOK, FillsOK, ExchangeOK
<1>. QED
  BY <1>a, <1>b, <1>c, <1>e, <1>f, <1>g DEF CancelStep, SyncStep

\* The worker inside applyLiveSyncResult: the row it has built is typed.
LEMMA ApplyContext ==
    ASSUME TypeOK, NEW w \in Workers, At(w, "apply")
    PROVE  LET o == worker[w].o IN
           /\ o \in Orders
           /\ worker[w].local \in OrderRow(o)
           /\ worker[w].reply \in Reply(o)
           /\ worker[w].reply.trades \in SUBSET Trades(o)
           /\ Synced(o, worker[w].local, worker[w].reply) \in OrderRow(o)
           /\ worker[w].pc # "idle"
<1>1. worker[w].pc # "idle"
  BY DEF At
<1>2. worker[w].o \in Orders /\ worker[w] \in Busy(worker[w].o)
  BY <1>1, BusyType DEF TypeOK
<1>3. /\ worker[w].local \in OrderRow(worker[w].o)
      /\ worker[w].reply \in Reply(worker[w].o)
  BY <1>2 DEF Busy
<1>4. worker[w].reply.trades \in SUBSET Trades(worker[w].o)
  BY <1>3 DEF Reply
<1>. QED
  BY <1>1, <1>2, <1>3, <1>4, SyncedType

\* Settlement keeps every table and worker typed.
LEMMA ApplyType ==
    ASSUME TypeOK, NEW w \in Workers, ApplyStep(w)
    PROVE  TypeOK'
<1>. USE DEF TypeOK
<1>. DEFINE o == worker[w].o
            r == worker[w].reply
            row == Synced(o, worker[w].local, r)
<1>0. At(w, "apply")
  BY DEF ApplyStep, UpdateOrderWithoutFills, SettleRealFills,
         SettleSyntheticFill, SettlementFails
<1>1. /\ o \in Orders /\ r \in Reply(o) /\ r.trades \in SUBSET Trades(o)
      /\ worker[w].local \in OrderRow(o)
      /\ row \in OrderRow(o) /\ worker[w].pc # "idle"
  BY <1>0, ApplyContext
<1>a. CASE UpdateOrderWithoutFills(w)
  <2>1. OrdersOK'
    BY <1>1, <1>a, SetOrder DEF UpdateOrderWithoutFills
  <2>2. WorkersOK'
    BY <1>1, <1>a, <2>1, AfterApplyType DEF UpdateOrderWithoutFills
  <2>. QED
    BY <1>a, <2>1, <2>2 DEF UpdateOrderWithoutFills, FillsOK, ExchangeOK
<1>b. CASE SettleRealFills(w)
  <2>1. PICK taken \in RealPlan(o, row, r.trades) :
          /\ real' = [real EXCEPT ![o] = @ \cup taken]
          /\ placeholder' = [placeholder EXCEPT ![o] = Upgraded(@, taken)]
          /\ position' = ApplyFill(position, Side[o],
                                   NewToPosition(placeholder[o], taken))
          /\ order' = [order EXCEPT ![o] =
                         Finalized(row, Cardinality(real'[o])
                                          + Total(placeholder'[o]))]
    BY <1>b DEF SettleRealFills
  <2>. HIDE DEF row, r, o
  <2>2. taken \in SUBSET Trades(o)
    <3>1. \A tr, tk : tr \subseteq Trades(o) /\ tk \in RealPlan(o, row, tr) => tk \subseteq Trades(o)
      BY <1>1, RealPlanType
    <3>2. r.trades \subseteq Trades(o)
      BY <1>1
    <3>3. taken \subseteq Trades(o)
      BY <3>1, <3>2
    <3>. QED
      BY <3>3
  <2>3. Qty[o] \in Nat /\ Side[o] \in {"BUY", "SELL"}
    BY <1>1, QtyAssumption, SideAssumption
  <2>4. placeholder[o] \in [PlaceholderKinds -> Nat] /\ real[o] \in SUBSET Trades(o)
    BY <1>1 DEF FillsOK
  <2>5. /\ Upgraded(placeholder[o], taken) \in [PlaceholderKinds -> Nat]
        /\ NewToPosition(placeholder[o], taken) \in Nat
    BY <1>1, <2>2, <2>4, LastTradeNat, UpgradedTotal DEF Trades
  <2>6. position' \in [side : {"LONG", "SHORT"}, quantity : Nat]
    BY <2>1, <2>3, <2>5, ApplyFillEffect DEF FillsOK
  <2>7. FillsOK'
    <3>1. DOMAIN real' = Orders /\ DOMAIN placeholder' = Orders
      BY <2>1 DEF FillsOK
    <3>2. ASSUME NEW p \in Orders
          PROVE  /\ real'[p] \subseteq Trades(p)
                 /\ placeholder'[p] \in [PlaceholderKinds -> Nat]
      BY <2>1, <2>2, <2>4, <2>5 DEF FillsOK
    <3>. QED
      BY <2>6, <3>1, <3>2 DEF FillsOK
  <2>8. Cardinality(real'[o]) + Total(placeholder'[o]) \in Nat
    <3>1. real'[o] \in SUBSET Trades(o) /\ placeholder'[o] \in [PlaceholderKinds -> Nat]
      BY <1>1, <2>7 DEF FillsOK, Trades, PlaceholderKinds
    <3>2. Total(placeholder'[o]) \in Nat
      BY <3>1 DEF Total, PlaceholderKinds
    <3>. QED
      BY <1>1, <3>1, <3>2, LastTradeNat, TradesFinite DEF Trades
  <2>9. OrdersOK'
    BY <1>1, <2>1, <2>8, FinalizedType, SetOrder
  <2>10. WorkersOK'
    BY <1>1, <1>b, <2>9, AfterSettlementType DEF SettleRealFills
  <2>. QED
    BY <1>b, <2>7, <2>9, <2>10 DEF SettleRealFills, ExchangeOK
<1>c. CASE SettleSyntheticFill(w)
  <2>. DEFINE kind == SyntheticKind(r)
              q == SyntheticPlan(o, row, kind, SyntheticQty(row, r))
  <2>1. /\ placeholder' = [placeholder EXCEPT ![o][kind] = @ + q]
        /\ position' = ApplyFill(position, Side[o], q)
        /\ order' = [order EXCEPT ![o] =
                       Finalized(row, Cardinality(real[o])
                                        + Total(placeholder'[o]))]
    BY <1>c DEF SettleSyntheticFill
  <2>2. kind \in PlaceholderKinds
    BY DEF SyntheticKind, PlaceholderKinds
  <2>. HIDE DEF kind, row, r, o
  <2>3. Qty[o] \in Nat /\ Side[o] \in {"BUY", "SELL"}
    BY <1>1, QtyAssumption, SideAssumption
  <2>4. SyntheticQty(row, r) \in Nat
    BY <1>1, <2>3, FallbackQtyType
  <2>5. q \in Nat
    BY <1>1, <2>2, <2>4, SyntheticPlanType
  <2>. HIDE DEF q
  <2>6. placeholder[o] \in [PlaceholderKinds -> Nat] /\ real[o] \in SUBSET Trades(o)
    BY <1>1 DEF FillsOK
  <2>7. position' \in [side : {"LONG", "SHORT"}, quantity : Nat]
    BY <2>1, <2>3, <2>5, ApplyFillEffect DEF FillsOK
  <2>. DEFINE ph == [placeholder[o] EXCEPT ![kind] = @ + q]
  <2>8. placeholder' = [placeholder EXCEPT ![o] = ph]
    BY <2>1
  <2>9. ph \in [PlaceholderKinds -> Nat]
    BY <2>2, <2>5, <2>6, TotalAdd
  <2>. HIDE DEF ph
  <2>10. FillsOK'
    <3>1. real' = real
      BY <1>c DEF SettleSyntheticFill
    <3>2. ASSUME NEW p \in Orders
          PROVE  placeholder'[p] \in [PlaceholderKinds -> Nat]
      BY <2>8, <2>9 DEF FillsOK
    <3>3. DOMAIN placeholder' = Orders
      BY <2>8 DEF FillsOK
    <3>. QED
      BY <2>7, <3>1, <3>2, <3>3 DEF FillsOK
  <2>11. Cardinality(real[o]) + Total(placeholder'[o]) \in Nat
    <3>1. placeholder'[o] \in [PlaceholderKinds -> Nat]
      BY <1>1, <2>10 DEF FillsOK, PlaceholderKinds
    <3>2. Total(placeholder'[o]) \in Nat
      BY <3>1 DEF Total, PlaceholderKinds
    <3>. QED
      BY <1>1, <2>6, <3>2, LastTradeNat, TradesFinite DEF Trades
  <2>12. OrdersOK'
    BY <1>1, <2>1, <2>11, FinalizedType, SetOrder
  <2>13. WorkersOK'
    BY <1>1, <1>c, <2>12, AfterSettlementType DEF SettleSyntheticFill
  <2>. QED
    BY <1>c, <2>10, <2>12, <2>13 DEF SettleSyntheticFill, ExchangeOK
<1>d. CASE SettlementFails(w)
  <2>1. WorkersOK'
    BY <1>1, <1>d, DoneType, GotoType DEF SettlementFails
  <2>. QED
    BY <1>d, <2>1 DEF SettlementFails, Books, OrdersOK, FillsOK, ExchangeOK
<1>. QED
  BY <1>a, <1>b, <1>c, <1>d DEF ApplyStep

\* The exchange and a restart keep every table and worker typed.
LEMMA EnvironmentType ==
    ASSUME TypeOK, (\E o \in Orders : ExchangeStep(o)) \/ Crash
    PROVE  TypeOK'
<1>. USE DEF TypeOK, Books
<1>1. ASSUME NEW o \in Orders, ExchangeStep(o)
      PROVE  TypeOK'
  <2>1. exchange[o] \in [status : ExchangeStatus, executed : 0..Qty[o]]
    BY DEF ExchangeOK
  <2>2. Qty[o] \in Nat
    BY QtyAssumption
  <2>3. CASE Match(o)
    <3>1. exchange[o].executed + 1 \in 0..Qty[o]
      BY <2>1, <2>2, <2>3 DEF Match
    <3>2. ExchangeOK'
      BY <2>3, <3>1 DEF Match, ExchangeOK, ExchangeStatus
    <3>. QED
      BY <2>3, <3>2 DEF Match, OrdersOK, FillsOK, WorkersOK
  <2>4. CASE Expire(o) \/ Trim(o)
    <3>1. ExchangeOK'
      BY <2>1, <2>4 DEF Expire, Trim, ExchangeOK, ExchangeStatus
    <3>. QED
      BY <2>4, <3>1 DEF Expire, Trim, OrdersOK, FillsOK, WorkersOK
  <2>. QED
    BY <1>1, <2>3, <2>4 DEF ExchangeStep
<1>2. CASE Crash
  BY <1>2 DEF Crash, OrdersOK, FillsOK, ExchangeOK, WorkersOK
<1>. QED
  BY <1>1, <1>2

\* Every step keeps the types.
LEMMA TypeStep == TypeOK /\ [Next]_vars => TypeOK'
<1>. SUFFICES ASSUME TypeOK, [Next]_vars PROVE TypeOK'
  OBVIOUS
<1>1. CASE UNCHANGED vars
  BY <1>1 DEF vars, TypeOK, OrdersOK, FillsOK, ExchangeOK, WorkersOK
<1>2. ASSUME NEW w \in Workers, WorkerStep(w) PROVE TypeOK'
  BY <1>2, SubmissionType, RequestType, ApplyType DEF WorkerStep
<1>3. CASE (\E o \in Orders : ExchangeStep(o)) \/ Crash
  BY <1>3, EnvironmentType
<1>. QED
  BY <1>1, <1>2, <1>3 DEF Next

\* The empty tables are typed.
LEMMA TypeInit == Init => TypeOK
<1>. SUFFICES ASSUME Init PROVE TypeOK
  OBVIOUS
<1>. USE DEF Init
<1>1. \A o \in Orders : NoOrder(o) \in OrderRow(o)
  BY QtyAssumption, LimitAssumption DEF NoOrder, OrderRow, OrderStatus
<1>2. OrdersOK
  BY <1>1 DEF OrdersOK
<1>3. FillsOK
  BY DEF FillsOK, NoPlaceholder, NoPosition
<1>4. ExchangeOK
  BY QtyAssumption DEF ExchangeOK, ExchangeStatus
<1>. QED
  BY <1>2, <1>3, <1>4 DEF TypeOK, WorkersOK

\* Every table and every worker's copy stays within its type, for any number
\* of orders and goroutines: no handler of order.go or live_registry.go
\* builds a row, a fill, a position or a reply the others cannot read.
THEOREM TypeCorrect == Spec => []TypeOK
BY TypeInit, TypeStep, PTL DEF Spec

-----------------------------------------------------------------------------
(* What a settlement does to the fills and to the position. *)

\* One settlement transaction: q lots more on order o, the same q lots on
\* the position.
Settles(o, q) ==
    /\ q \in Nat
    /\ Filled(o)' = Filled(o) + q
    /\ \A p \in Orders \ {o} : Filled(p)' = Filled(p)
    /\ position' = ApplyFill(position, Side[o], q)

\* TotalFilledQuantityForOrder is a natural number, and so are its two parts.
LEMMA FilledType ==
    ASSUME TypeOK, NEW o \in Orders
    PROVE  /\ Cardinality(real[o]) \in Nat
           /\ Total(placeholder[o]) \in Nat
           /\ Filled(o) \in Nat
<1>1. Cardinality(real[o]) \in Nat
  BY LastTradeNat, TradesFinite DEF TypeOK, FillsOK, Trades
<1>2. Total(placeholder[o]) \in Nat
  BY TotalType DEF TypeOK, FillsOK
<1>. QED
  BY <1>1, <1>2 DEF Filled

FilledIsNat == \A o \in Orders : Filled(o) \in Nat

\* The same for all orders at once,
LEMMA FilledNat == TypeOK => FilledIsNat
BY FilledType DEF FilledIsNat

\* ... and in the next state.
LEMMA FilledNatNext == (TypeOK => FilledIsNat)'
BY FilledNat, PTL

\* Trades replace placeholders lot for lot, the surplus reaches the position.
LEMMA RealFillsSettle ==
    ASSUME TypeOK, NEW w \in Workers, SettleRealFills(w),
           NEW o, o = worker[w].o
    PROVE  \E taken \in SUBSET worker[w].reply.trades :
             /\ real' = [real EXCEPT ![o] = @ \cup taken]
             /\ Filled(o)' = Cardinality(real[o] \cup taken)
                              + AtLeastZero(Total(placeholder[o])
                                              - Cardinality(taken))
             /\ Settles(o, NewToPosition(placeholder[o], taken))
             /\ order'[o].filledQuantity = Filled(o)'
<1>. DEFINE r == worker[w].reply
            row == Synced(o, worker[w].local, r)
<1>0. At(w, "apply")
  BY DEF SettleRealFills
<1>1. /\ o \in Orders /\ r.trades \in SUBSET Trades(o)
      /\ row \in OrderRow(o)
  BY <1>0, ApplyContext
<1>2. PICK taken \in RealPlan(o, row, r.trades) :
        /\ real' = [real EXCEPT ![o] = @ \cup taken]
        /\ placeholder' = [placeholder EXCEPT ![o] = Upgraded(@, taken)]
        /\ position' = ApplyFill(position, Side[o],
                                 NewToPosition(placeholder[o], taken))
        /\ order' = [order EXCEPT ![o] =
                       Finalized(row, Cardinality(real'[o])
                                        + Total(placeholder'[o]))]
  BY DEF SettleRealFills
<1>. HIDE DEF row, r
<1>3. /\ taken \subseteq r.trades
      /\ taken \subseteq Trades(o)
      /\ real[o] \cap taken = {}
  <2>1. taken \in SUBSET (r.trades \ real[o])
    BY <1>2 DEF RealPlan
  <2>. QED
    BY <1>1, <2>1
<1>4. real[o] \in SUBSET Trades(o) /\ placeholder[o] \in [PlaceholderKinds -> Nat]
  BY <1>1 DEF TypeOK, FillsOK
<1>5. LastTrade(o) \in Nat
  BY <1>1, LastTradeNat
<1>6. /\ Cardinality(real[o] \cup taken) = Cardinality(real[o]) + Cardinality(taken)
      /\ Cardinality(taken) \in Nat
  <2>1. real[o] \in SUBSET (1..LastTrade(o)) /\ taken \in SUBSET (1..LastTrade(o))
    BY <1>3, <1>4 DEF Trades
  <2>2. Cardinality(real[o] \cup taken) = Cardinality(real[o]) + Cardinality(taken)
    BY <1>3, <1>5, <2>1, TradesUnion
  <2>3. Cardinality(taken) \in Nat
    BY <1>5, <2>1, TradesFinite
  <2>. QED
    BY <2>2, <2>3
<1>7. /\ Upgraded(placeholder[o], taken) \in [PlaceholderKinds -> Nat]
      /\ Total(Upgraded(placeholder[o], taken))
           = AtLeastZero(Total(placeholder[o]) - Cardinality(taken))
      /\ NewToPosition(placeholder[o], taken) \in Nat
      /\ NewToPosition(placeholder[o], taken) + Total(placeholder[o])
           = Total(Upgraded(placeholder[o], taken)) + Cardinality(taken)
  BY <1>3, <1>4, <1>5, UpgradedTotal DEF Trades
<1>8. /\ real'[o] = real[o] \cup taken
      /\ placeholder'[o] = Upgraded(placeholder[o], taken)
      /\ \A p \in Orders \ {o} : real'[p] = real[p] /\ placeholder'[p] = placeholder[p]
  BY <1>1, <1>2 DEF TypeOK, FillsOK
<1>9. /\ Filled(o) = Cardinality(real[o]) + Total(placeholder[o])
      /\ Filled(o)' = Cardinality(real'[o]) + Total(placeholder'[o])
      /\ Cardinality(real[o]) \in Nat /\ Total(placeholder[o]) \in Nat
  BY <1>1, FilledType DEF Filled, Total
<1>10. Filled(o)' = Cardinality(real[o] \cup taken)
                     + Total(Upgraded(placeholder[o], taken))
  BY <1>8, <1>9
<1>11. Total(Upgraded(placeholder[o], taken)) \in Nat
  BY <1>7, TotalType
<1>12. Filled(o)' = Filled(o) + NewToPosition(placeholder[o], taken)
  BY <1>6, <1>7, <1>9, <1>10, <1>11
<1>13. \A p \in Orders \ {o} : Filled(p)' = Filled(p)
  BY <1>8 DEF Filled, Total
<1>14. order'[o].filledQuantity = Filled(o)'
  <2>1. order'[o] = Finalized(row, Filled(o)')
    BY <1>1, <1>2, <1>9 DEF TypeOK, OrdersOK
  <2>. QED
    BY <1>1, <2>1 DEF Finalized, OrderRow
<1>15. Settles(o, NewToPosition(placeholder[o], taken))
  BY <1>2, <1>7, <1>12, <1>13 DEF Settles
<1>. QED
  BY <1>2, <1>3, <1>7, <1>10, <1>14, <1>15 DEF r

\* A synthetic fill adds what the plan allows, the same to the position.
LEMMA SyntheticFillSettles ==
    ASSUME TypeOK, NEW w \in Workers, SettleSyntheticFill(w),
           NEW o, o = worker[w].o
    PROVE  LET r == worker[w].reply
               row == Synced(o, worker[w].local, r)
               q == SyntheticPlan(o, row, SyntheticKind(r), SyntheticQty(row, r))
           IN Settles(o, q) /\ order'[o].filledQuantity = Filled(o)'
<1>. DEFINE r == worker[w].reply
            row == Synced(o, worker[w].local, r)
            kind == SyntheticKind(r)
            q == SyntheticPlan(o, row, kind, SyntheticQty(row, r))
<1>0. At(w, "apply")
  BY DEF SettleSyntheticFill
<1>1. /\ o \in Orders /\ r \in Reply(o) /\ row \in OrderRow(o)
  BY <1>0, ApplyContext
<1>2. /\ placeholder' = [placeholder EXCEPT ![o][kind] = @ + q]
      /\ position' = ApplyFill(position, Side[o], q)
      /\ order' = [order EXCEPT ![o] =
                     Finalized(row, Cardinality(real[o])
                                      + Total(placeholder'[o]))]
      /\ real' = real
  BY DEF SettleSyntheticFill
<1>3. kind \in PlaceholderKinds
  BY DEF SyntheticKind, PlaceholderKinds
<1>. HIDE DEF kind, row, r
<1>4. SyntheticQty(row, r) \in Nat
  BY <1>1, QtyAssumption, FallbackQtyType
<1>5. q \in Nat
  BY <1>1, <1>3, <1>4, SyntheticPlanType DEF TypeOK
<1>. HIDE DEF q
<1>6. placeholder[o] \in [PlaceholderKinds -> Nat]
  BY <1>1 DEF TypeOK, FillsOK
<1>7. /\ placeholder'[o] = [placeholder[o] EXCEPT ![kind] = @ + q]
      /\ \A p \in Orders \ {o} : placeholder'[p] = placeholder[p]
  BY <1>1, <1>2 DEF TypeOK, FillsOK
<1>8. Total(placeholder'[o]) = Total(placeholder[o]) + q
  <2>1. Total([placeholder[o] EXCEPT ![kind] = @ + q]) = Total(placeholder[o]) + q
    BY <1>3, <1>5, <1>6, TotalAdd
  <2>. QED
    BY <1>7, <2>1
<1>9. /\ Filled(o) = Cardinality(real[o]) + Total(placeholder[o])
      /\ Filled(o)' = Cardinality(real'[o]) + Total(placeholder'[o])
      /\ Cardinality(real[o]) \in Nat /\ Total(placeholder[o]) \in Nat
  BY <1>1, FilledType DEF Filled, Total
<1>10. Filled(o)' = Filled(o) + q
  BY <1>2, <1>5, <1>8, <1>9
<1>11. \A p \in Orders \ {o} : Filled(p)' = Filled(p)
  BY <1>2, <1>7 DEF Filled, Total
<1>12. order'[o].filledQuantity = Filled(o)'
  <2>1. order'[o] = Finalized(row, Filled(o)')
    BY <1>1, <1>2, <1>9 DEF TypeOK, OrdersOK
  <2>. QED
    BY <1>1, <2>1 DEF Finalized, OrderRow
<1>13. Settles(o, q)
  BY <1>2, <1>5, <1>10, <1>11 DEF Settles
<1>. QED
  BY <1>12, <1>13 DEF q, kind, row, r

\* A step settles one order or leaves the fills and the position alone.
LEMMA StepFills ==
    ASSUME TypeOK, [Next]_vars
    PROVE  \/ \E o \in Orders : \E q \in Nat : Settles(o, q)
           \/ UNCHANGED <<real, placeholder, position>>
<1>1. ASSUME NEW w \in Workers, SettleRealFills(w)
      PROVE  \E o \in Orders : \E q \in Nat : Settles(o, q)
  <2>1. PICK o \in Orders : o = worker[w].o
    BY <1>1, ApplyContext DEF SettleRealFills
  <2>2. PICK taken \in SUBSET worker[w].reply.trades :
          Settles(o, NewToPosition(placeholder[o], taken))
    BY <1>1, <2>1, RealFillsSettle
  <2>3. NewToPosition(placeholder[o], taken) \in Nat
    BY <2>2 DEF Settles
  <2>. QED
    BY <2>2, <2>3
<1>2. ASSUME NEW w \in Workers, SettleSyntheticFill(w)
      PROVE  \E o \in Orders : \E q \in Nat : Settles(o, q)
  <2>1. PICK o \in Orders : o = worker[w].o
    BY <1>2, ApplyContext DEF SettleSyntheticFill
  <2>2. PICK q : Settles(o, q)
    BY <1>2, <2>1, SyntheticFillSettles
  <2>3. q \in Nat
    BY <2>2 DEF Settles
  <2>. QED
    BY <2>2, <2>3
<1>3. ASSUME NEW w \in Workers, SubmissionStep(w) \/ CancelStep(w) \/ SyncStep(w)
      PROVE  UNCHANGED <<real, placeholder, position>>
  BY <1>3 DEF SubmissionStep, CancelStep, SyncStep, CreateOrder,
     RetryPendingSettlement, PlaceOrder, PlaceOrderFails, SubmissionAborted,
     ApplySubmissionError, ApplySubmission, FinishSubmission, CancelLiveOrder,
     CancelOrder, SyncLiveOrder, QueryOrder, FetchTrades, FetchTradesFails,
     AnswerTrades, RequestFails, Start, Books
<1>4. ASSUME NEW w \in Workers, UpdateOrderWithoutFills(w) \/ SettlementFails(w)
      PROVE  UNCHANGED <<real, placeholder, position>>
  BY <1>4 DEF UpdateOrderWithoutFills, SettlementFails, Books
<1>5. CASE (\E o \in Orders : ExchangeStep(o)) \/ Crash \/ UNCHANGED vars
  BY <1>5 DEF ExchangeStep, Match, Expire, Trim, Crash, Books, vars
<1>. QED
  BY <1>1, <1>2, <1>3, <1>4, <1>5 DEF Next, WorkerStep, ApplyStep

\* A settlement moves the signed position by the lots it adds.
LEMMA PositionStepHolds ==
    ASSUME TypeOK, [Next]_vars
    PROVE  PositionStep /\ FillsOnlyGrow
<1>1. ASSUME NEW o \in Orders, NEW q \in Nat, Settles(o, q)
      PROVE  PositionStep /\ FillsOnlyGrow
  <2>1. /\ Filled(o)' = Filled(o) + q /\ position' = ApplyFill(position, Side[o], q)
        /\ \A p \in Orders \ {o} : Filled(p)' = Filled(p)
    BY <1>1 DEF Settles
  <2>2. \A p \in Orders : Filled(p) \in Nat
    BY FilledType
  <2>3. Net(position') - Net(position) = IF Side[o] = "BUY" THEN q ELSE 0 - q
    <3>1. position \in [side : {"LONG", "SHORT"}, quantity : Nat]
      BY DEF TypeOK, FillsOK
    <3>2. Side[o] \in {"BUY", "SELL"}
      BY SideAssumption
    <3>3. Net(ApplyFill(position, Side[o], q)) - Net(position)
            = IF Side[o] = "BUY" THEN q ELSE 0 - q
      BY <3>1, <3>2, ApplyFillEffect
    <3>. QED
      BY <2>1, <3>3, Zenon
  <2>4. Filled(o)' - Filled(o) = q
    BY <2>1, <2>2
  <2>5. Net(position') - Net(position) = Sign(o) * (Filled(o)' - Filled(o))
    BY <2>3, <2>4, SideAssumption DEF Sign
  <2>6. PositionStep
    BY <2>1, <2>5 DEF PositionStep
  <2>7. FillsOnlyGrow
    BY <2>1, <2>2 DEF FillsOnlyGrow
  <2>. QED
    BY <2>6, <2>7
<1>2. CASE UNCHANGED <<real, placeholder, position>>
  <2>1. \A p \in Orders : Filled(p)' = Filled(p) /\ Filled(p) \in Nat
    BY <1>2, FilledType DEF Filled, Total
  <2>. QED
    BY <1>2, <2>1 DEF PositionStep, FillsOnlyGrow
<1>. QED
  BY <1>1, <1>2, StepFills

\* Every change of the position row is matched by the fills of one order,
\* whatever the interleaving of submissions, syncs, cancels and crashes.
THEOREM PositionFollows == Spec => PositionFollowsFills
<1>1. TypeOK /\ [Next]_vars => PositionStep
  BY PositionStepHolds
<1>. QED
  BY <1>1, TypeCorrect, PTL DEF Spec, PositionFollowsFills

\* BuildFillReconciliationPlan never loses filled quantity when trades
\* replace synthetic fills and remainders.
THEOREM FillsGrow == Spec => FilledNeverFallsBack
<1>1. TypeOK /\ [Next]_vars => FillsOnlyGrow
  BY PositionStepHolds
<1>. QED
  BY <1>1, TypeCorrect, PTL DEF Spec, FilledNeverFallsBack

-----------------------------------------------------------------------------
(* The inductive invariant. *)

\* What any copy of the row of order o, stored or held by a worker, may say:
\* only an order the exchange has FILLED is trimmed or was filled on
\* submission, and no copy counts more than the stored fills.
RowInv(o, row) ==
    /\ row.quantity < Qty[o] => /\ exchange[o].status = "FILLED"
                                /\ row.quantity = exchange[o].executed
    /\ row.submissionFilled > 0 => /\ exchange[o].status = "FILLED"
                                   /\ row.submissionFilled = exchange[o].executed
    /\ row.filledQuantity <= Filled(o)

\* The exchange's record of order o.
RecordInv(o) ==
    /\ exchange[o].status = "NONE" => exchange[o].executed = 0
    /\ exchange[o].status = "FILLED" =>
         /\ exchange[o].executed > 0
         /\ o \notin ReduceOnly => exchange[o].executed = Qty[o]

\* The fills of order o.
LedgerInv(o) ==
    ForeignTrades = 0 => /\ real[o] \subseteq 1..exchange[o].executed
                         /\ Filled(o) <= exchange[o].executed

\* The row of order o.
TableInv(o) ==
    /\ order[o].status = "ABSENT" => exchange[o].status = "NONE"
    /\ RowInv(o, order[o])

\* What a busy worker holds: a reply the exchange still stands by if it said
\* FILLED, and the trades it showed.
ReplyInv(o, b) ==
    /\ b.reply.status = "FILLED" => /\ exchange[o].status = "FILLED"
                                    /\ b.reply.executed = exchange[o].executed
    /\ ForeignTrades = 0 => b.reply.trades \subseteq 1..exchange[o].executed
    /\ b.reply.synthetic > 0 => b.reply.status = "FILLED"
    /\ b.pc \in {"submit", "query", "cancel"} => b.reply.synthetic = 0

\* ... about an order that exists, with a possible copy of its row.
BusyInv(o, b) ==
    /\ order[o].status # "ABSENT"
    /\ b.local.status # "ABSENT"
    /\ RowInv(o, b.local)
    /\ ReplyInv(o, b)

WorkerInv(w) ==
    \A o \in Orders : worker[w] \in Busy(o) => BusyInv(o, worker[w])

\* An order is placed once, by the only worker that submits it.
SubmitInv ==
    \A w \in Workers :
      worker[w].pc = "submit" =>
        /\ exchange[worker[w].o].status = "NONE"
        /\ \A v \in Workers \ {w} :
              worker[v].pc = "submit" => worker[v].o # worker[w].o

IInv ==
    /\ TypeOK
    /\ \A o \in Orders : RecordInv(o) /\ LedgerInv(o) /\ TableInv(o)
    /\ \A w \in Workers : WorkerInv(w)
    /\ SubmitInv

-----------------------------------------------------------------------------
(* The exchange's record only moves forward, and FILLED is final. *)

Forward(o) ==
    /\ exchange[o].executed <= exchange'[o].executed
    /\ exchange[o].status = "FILLED" => exchange'[o] = exchange[o]
    /\ exchange[o].status = "NONE" =>
         exchange'[o].status = "NONE" \/ order[o].status # "ABSENT"

\* Every step keeps the exchange's record sound and moves it forward.
LEMMA RecordStep ==
    ASSUME IInv, [Next]_vars, NEW o \in Orders
    PROVE  RecordInv(o)' /\ Forward(o)
<1>1. /\ exchange[o] \in [status : ExchangeStatus, executed : 0..Qty[o]]
      /\ RecordInv(o) /\ Qty[o] \in Nat /\ Qty[o] > 0
      /\ exchange[o].executed \in Nat
  BY QtyAssumption DEF IInv, TypeOK, ExchangeOK
<1>2. CASE exchange'[o] = exchange[o]
  BY <1>1, <1>2 DEF RecordInv, Forward
<1>3. ASSUME NEW w \in Workers, PlaceOrder(w)
      PROVE  RecordInv(o)' /\ Forward(o)
  <2>1. worker[w].pc # "idle" /\ worker[w].pc = "submit"
    BY <1>3 DEF PlaceOrder, At
  <2>2. worker[w].o \in Orders /\ worker[w] \in Busy(worker[w].o)
    BY <2>1, BusyType DEF IInv, TypeOK
  <2>3. PICK executed \in 0..Qty[worker[w].o], expired \in BOOLEAN :
          exchange' = [exchange EXCEPT ![worker[w].o] =
             [status |-> IF executed = Qty[worker[w].o] THEN "FILLED"
                         ELSE IF expired THEN "CANCELED" ELSE "LIVE",
              executed |-> executed]]
    BY <1>3 DEF PlaceOrder
  <2>4. CASE o # worker[w].o
    <3>1. exchange'[o] = exchange[o]
      BY <2>3, <2>4
    <3>. QED
      BY <1>2, <3>1
  <2>5. CASE o = worker[w].o
    <3>1. exchange[o].status = "NONE" /\ order[o].status # "ABSENT"
      BY <2>1, <2>2, <2>5 DEF IInv, SubmitInv, WorkerInv, BusyInv
    <3>2. exchange'[o] = [status |-> IF executed = Qty[o] THEN "FILLED"
                                     ELSE IF expired THEN "CANCELED" ELSE "LIVE",
                          executed |-> executed]
      BY <2>3, <2>5 DEF IInv, TypeOK, ExchangeOK
    <3>3. executed \in 0..Qty[o]
      BY <2>5
    <3>4. /\ exchange'[o].executed = executed
          /\ exchange'[o].status # "NONE"
          /\ exchange'[o].status = "FILLED" => executed = Qty[o]
      BY <3>2
    <3>. QED
      BY <1>1, <3>1, <3>3, <3>4 DEF RecordInv, Forward
  <2>. QED
    BY <2>4, <2>5
<1>4. ASSUME NEW w \in Workers, NEW answered \in BOOLEAN, CancelOrder(w, answered)
      PROVE  RecordInv(o)' /\ Forward(o)
  <2>1. /\ exchange[worker[w].o].status = "LIVE"
        /\ exchange' = [exchange EXCEPT ![worker[w].o].status = "CANCELED"]
    BY <1>4 DEF CancelOrder
  <2>2. CASE o # worker[w].o
    <3>1. exchange'[o] = exchange[o]
      BY <2>1, <2>2
    <3>. QED
      BY <1>2, <3>1
  <2>3. CASE o = worker[w].o
    <3>1. /\ exchange[o].status = "LIVE" /\ exchange'[o].status = "CANCELED"
          /\ exchange'[o].executed = exchange[o].executed
      BY <1>1, <2>1, <2>3 DEF IInv, TypeOK, ExchangeOK
    <3>. QED
      BY <1>1, <3>1 DEF RecordInv, Forward
  <2>. QED
    BY <2>2, <2>3
<1>5. ASSUME NEW p \in Orders, ExchangeStep(p)
      PROVE  RecordInv(o)' /\ Forward(o)
  <2>1. CASE o # p
    <3>1. exchange'[o] = exchange[o]
      BY <1>5, <2>1
      DEF ExchangeStep, Match, Expire, Trim, IInv, TypeOK, ExchangeOK
    <3>. QED
      BY <1>2, <3>1
  <2>2. CASE o = p /\ Match(p)
    <3>1. /\ exchange[o].status = "LIVE"
          /\ exchange'[o].executed = exchange[o].executed + 1
          /\ exchange'[o].status = IF exchange[o].executed + 1 = Qty[o]
                                     THEN "FILLED" ELSE "LIVE"
      BY <2>2 DEF Match, IInv, TypeOK, ExchangeOK
    <3>. QED
      BY <1>1, <3>1 DEF RecordInv, Forward
  <2>3. CASE o = p /\ (Expire(p) \/ Trim(p))
    <3>1. /\ exchange[o].status = "LIVE"
          /\ exchange'[o].executed = exchange[o].executed
          /\ \/ exchange'[o].status = "CANCELED"
             \/ /\ exchange'[o].status = "FILLED" /\ o \in ReduceOnly
                /\ exchange[o].executed > 0
      BY <1>1, <2>3 DEF Expire, Trim, IInv, TypeOK, ExchangeOK
    <3>. QED
      BY <1>1, <3>1 DEF RecordInv, Forward
  <2>. QED
    BY <1>5, <2>1, <2>2, <2>3 DEF ExchangeStep
<1>6. CASE UNCHANGED exchange
  BY <1>2, <1>6
<1>7. ASSUME NEW w \in Workers, WorkerStep(w)
      PROVE  \/ UNCHANGED exchange \/ PlaceOrder(w)
             \/ \E answered \in BOOLEAN : CancelOrder(w, answered)
  BY <1>7 DEF WorkerStep, SubmissionStep, CancelStep, SyncStep, ApplyStep,
     CreateOrder, RetryPendingSettlement, PlaceOrderFails, SubmissionAborted,
     ApplySubmissionError, ApplySubmission, FinishSubmission, CancelLiveOrder,
     SyncLiveOrder, QueryOrder, FetchTrades, FetchTradesFails, AnswerTrades,
     RequestFails, UpdateOrderWithoutFills, SettleRealFills,
     SettleSyntheticFill, SettlementFails, Start
<1>8. CASE Crash \/ UNCHANGED vars
  BY <1>6, <1>8 DEF Crash, vars
<1>. QED
  BY <1>3, <1>4, <1>5, <1>6, <1>7, <1>8 DEF Next

\* So what a copy of a row says stays true.
LEMMA RowKept ==
    ASSUME TypeOK, TypeOK', NEW o \in Orders, Forward(o), Filled(o)' >= Filled(o),
           NEW row \in OrderRow(o), RowInv(o, row)
    PROVE  RowInv(o, row)'
<1>1. Filled(o) \in Nat /\ Filled(o)' \in Nat
  BY FilledNat, FilledNatNext DEF FilledIsNat
<1>2. row.filledQuantity \in Nat
  BY DEF OrderRow
<1>. QED
  BY <1>1, <1>2 DEF RowInv, Forward

-----------------------------------------------------------------------------
(* Every handler writes a row the invariant allows. *)

\* applyLiveSyncResult: the copy with the reply written over it; after a
\* FILLED reply its quantity is no more than the exchange executed.
LEMMA SyncedRow ==
    ASSUME IInv, NEW o \in Orders, NEW b \in Busy(o), BusyInv(o, b)
    PROVE  /\ Synced(o, b.local, b.reply) \in OrderRow(o)
           /\ Synced(o, b.local, b.reply).status # "ABSENT"
           /\ RowInv(o, Synced(o, b.local, b.reply))
           /\ b.reply.status = "FILLED" =>
                Synced(o, b.local, b.reply).quantity <= exchange[o].executed
<1>. DEFINE row == b.local
            r == b.reply
            n == IF row.submitted THEN Qty[o] ELSE row.quantity
            q == IF /\ r.status = "FILLED" /\ o \in ReduceOnly
                    /\ 0 < r.executed /\ r.executed < n
                   THEN r.executed ELSE n
<1>1. row \in OrderRow(o) /\ r \in Reply(o)
  BY DEF Busy
<1>2. /\ row.quantity \in 1..Qty[o] /\ row.filledQuantity \in Nat
      /\ row.submitted \in BOOLEAN
      /\ r.executed \in 0..Qty[o] /\ r.status # "ABSENT"
  BY <1>1 DEF OrderRow, Reply
<1>3. Synced(o, row, r) \in OrderRow(o)
  BY <1>1, SyncedType
<1>4. /\ Synced(o, row, r).status = r.status
      /\ Synced(o, row, r).quantity = q
      /\ Synced(o, row, r).filledQuantity = row.filledQuantity
      /\ Synced(o, row, r).submissionFilled = row.submissionFilled
  BY <1>1 DEF Synced, OrderRow
<1>5. /\ Qty[o] \in Nat /\ exchange[o].executed \in 0..Qty[o]
      /\ RecordInv(o)
  BY QtyAssumption DEF IInv, TypeOK, ExchangeOK
<1>6. RowInv(o, row) /\ ReplyInv(o, b)
  BY DEF BusyInv
<1>7. n = Qty[o] \/ n = row.quantity
  BY <1>2
<1>8. n \in 1..Qty[o] /\ (n < Qty[o] => /\ exchange[o].status = "FILLED"
                                       /\ n = exchange[o].executed)
  BY <1>2, <1>5, <1>6, <1>7 DEF RowInv
<1>9. r.status = "FILLED" => /\ exchange[o].status = "FILLED"
                             /\ r.executed = exchange[o].executed
                             /\ exchange[o].executed > 0
                             /\ o \notin ReduceOnly => r.executed = Qty[o]
  BY <1>5, <1>6 DEF ReplyInv, RecordInv
<1>. HIDE DEF n
<1>10. /\ q < Qty[o] => exchange[o].status = "FILLED" /\ q = exchange[o].executed
       /\ r.status = "FILLED" => q <= exchange[o].executed
  BY <1>2, <1>5, <1>8, <1>9
<1>. HIDE DEF q
<1>11. RowInv(o, Synced(o, row, r))
  BY <1>4, <1>6, <1>10 DEF RowInv
<1>. QED
  BY <1>2, <1>3, <1>4, <1>10, <1>11

\* A busy worker and its invariant.
LEMMA BusyHolds ==
    ASSUME IInv, NEW w \in Workers, worker[w].pc # "idle"
    PROVE  /\ worker[w].o \in Orders
           /\ worker[w] \in Busy(worker[w].o)
           /\ worker[w].local \in OrderRow(worker[w].o)
           /\ BusyInv(worker[w].o, worker[w])
           /\ worker[w].local.status # "ABSENT"
           /\ RowInv(worker[w].o, worker[w].local)
           /\ ReplyInv(worker[w].o, worker[w])
<1>1. worker[w].o \in Orders /\ worker[w] \in Busy(worker[w].o)
  BY BusyType DEF IInv, TypeOK
<1>2. BusyInv(worker[w].o, worker[w])
  BY <1>1 DEF IInv, WorkerInv
<1>3. worker[w].local \in OrderRow(worker[w].o)
  BY <1>1 DEF Busy
<1>. QED
  BY <1>1, <1>2, <1>3 DEF BusyInv

\* What a step may write into the row of order o.
RowWritten(o) ==
    \/ order'[o] = order[o]
    \/ \E row \in OrderRow(o) :
         order'[o] = row /\ row.status # "ABSENT" /\ RowInv(o, row)'

\* Every step that writes the row of order o writes a possible copy of it.
LEMMA RowStep ==
    ASSUME IInv, TypeOK', [Next]_vars, NEW o \in Orders
    PROVE  RowWritten(o)
<1>1. /\ Forward(o) /\ TypeOK
      /\ Filled(o)' >= Filled(o)
  BY RecordStep, PositionStepHolds DEF IInv, FillsOnlyGrow
<1>2. ASSUME NEW row \in OrderRow(o), row.status # "ABSENT", RowInv(o, row),
             order'[o] = row
      PROVE  RowWritten(o)
  BY <1>1, <1>2, RowKept DEF RowWritten
<1>3. ASSUME NEW w \in Workers, worker[w].pc # "idle",
             NEW row, row \in OrderRow(worker[w].o),
             row.status # "ABSENT", RowInv(worker[w].o, row),
             order' = [order EXCEPT ![worker[w].o] = row]
      PROVE  RowWritten(o)
  <2>1. CASE worker[w].o = o
    <3>1. order'[o] = row /\ row \in OrderRow(o) /\ RowInv(o, row)
      BY <1>3, <2>1 DEF IInv, TypeOK, OrdersOK
    <3>. QED
      BY <1>2, <1>3, <3>1
  <2>2. CASE worker[w].o # o
    <3>1. order'[o] = order[o]
      BY <1>3, <2>2 DEF IInv, TypeOK, OrdersOK
    <3>. QED
      BY <3>1 DEF RowWritten
  <2>. QED
    BY <2>1, <2>2
<1>4. CASE UNCHANGED order
  BY <1>4 DEF RowWritten
<1>5. ASSUME NEW w \in Workers, NEW p \in Orders, CreateOrder(w, p)
      PROVE  RowWritten(o)
  <2>1. CASE p # o
    <3>1. order'[o] = order[o]
      BY <1>5, <2>1 DEF CreateOrder, IInv, TypeOK, OrdersOK
    <3>. QED
      BY <3>1 DEF RowWritten
  <2>2. CASE p = o
    <3>. DEFINE row == [order[o] EXCEPT !.status = "NEW"]
    <3>1. order[o] \in OrderRow(o) /\ RowInv(o, order[o])
      BY DEF IInv, TypeOK, OrdersOK, TableInv
    <3>2. /\ row \in OrderRow(o) /\ row.status # "ABSENT"
          /\ row.quantity = order[o].quantity
          /\ row.filledQuantity = order[o].filledQuantity
          /\ row.submissionFilled = order[o].submissionFilled
      BY <3>1 DEF OrderRow, OrderStatus
    <3>3. order'[o] = row
      BY <1>5, <2>2 DEF CreateOrder, IInv, TypeOK, OrdersOK
    <3>. HIDE DEF row
    <3>4. RowInv(o, row)
      BY <3>1, <3>2 DEF RowInv
    <3>. QED
      BY <1>2, <3>2, <3>3, <3>4
  <2>. QED
    BY <2>1, <2>2
<1>6. ASSUME NEW w \in Workers, ApplySubmissionError(w)
      PROVE  RowWritten(o)
  <2>. DEFINE row == [worker[w].local EXCEPT !.status = "REJECTED"]
  <2>1. worker[w].pc # "idle"
    BY <1>6 DEF ApplySubmissionError, At
  <2>2. /\ worker[w].local \in OrderRow(worker[w].o)
        /\ RowInv(worker[w].o, worker[w].local)
    BY <2>1, BusyHolds
  <2>3. /\ row \in OrderRow(worker[w].o) /\ row.status # "ABSENT"
        /\ row.quantity = worker[w].local.quantity
        /\ row.filledQuantity = worker[w].local.filledQuantity
        /\ row.submissionFilled = worker[w].local.submissionFilled
    BY <2>2 DEF OrderRow, OrderStatus
  <2>4. order' = [order EXCEPT ![worker[w].o] = row]
    BY <1>6 DEF ApplySubmissionError
  <2>. HIDE DEF row
  <2>5. RowInv(worker[w].o, row)
    BY <2>2, <2>3 DEF RowInv
  <2>. QED
    BY <1>3, <2>1, <2>3, <2>4, <2>5
<1>7. ASSUME NEW w \in Workers, ApplySubmission(w)
      PROVE  RowWritten(o)
  <2>. DEFINE r == worker[w].reply
              row == [worker[w].local EXCEPT
                        !.status = r.status,
                        !.submitted = TRUE,
                        !.submissionFilled =
                            IF r.status = "FILLED" THEN r.executed ELSE 0]
  <2>1. worker[w].pc # "idle"
    BY <1>7 DEF ApplySubmission, At
  <2>2. /\ worker[w].local \in OrderRow(worker[w].o)
        /\ RowInv(worker[w].o, worker[w].local)
        /\ ReplyInv(worker[w].o, worker[w])
        /\ worker[w].o \in Orders /\ worker[w] \in Busy(worker[w].o)
    BY <2>1, BusyHolds
  <2>3. /\ r.status \in OrderStatus \ {"ABSENT"} /\ r.executed \in 0..Qty[worker[w].o]
        /\ Qty[worker[w].o] \in Nat
    BY <2>2, QtyAssumption DEF Busy, Reply
  <2>4. /\ row.status = r.status
        /\ row.quantity = worker[w].local.quantity
        /\ row.filledQuantity = worker[w].local.filledQuantity
        /\ row.submissionFilled = IF r.status = "FILLED" THEN r.executed ELSE 0
    BY <2>2 DEF OrderRow
  <2>5. row \in OrderRow(worker[w].o)
    <3>1. (IF r.status = "FILLED" THEN r.executed ELSE 0) \in 0..Qty[worker[w].o]
      BY <2>3
    <3>2. r.status \in OrderStatus
      BY <2>3
    <3>. QED
      BY <2>2, <3>1, <3>2 DEF OrderRow
  <2>6. order' = [order EXCEPT ![worker[w].o] = row]
    BY <1>7 DEF ApplySubmission
  <2>. HIDE DEF row
  <2>7. RowInv(worker[w].o, row)
    BY <2>2, <2>4 DEF RowInv, ReplyInv
  <2>8. row.status # "ABSENT"
    BY <2>3, <2>4
  <2>. QED
    BY <1>3, <2>1, <2>5, <2>6, <2>7, <2>8
<1>8. ASSUME NEW w \in Workers, worker[w].pc # "idle",
             order' = [order EXCEPT ![worker[w].o] = MarkRetry(worker[w].local)]
      PROVE  RowWritten(o)
  <2>. DEFINE row == MarkRetry(worker[w].local)
  <2>1. /\ worker[w].local \in OrderRow(worker[w].o)
        /\ RowInv(worker[w].o, worker[w].local)
        /\ worker[w].local.status # "ABSENT" /\ worker[w].o \in Orders
    BY <1>8, BusyHolds
  <2>2. row \in OrderRow(worker[w].o)
    BY <2>1, MarkRetryType
  <2>3. /\ row.status # "ABSENT"
        /\ row.quantity = worker[w].local.quantity
        /\ row.filledQuantity = worker[w].local.filledQuantity
        /\ row.submissionFilled = worker[w].local.submissionFilled
    BY <2>1 DEF OrderRow, MarkRetry
  <2>4. order' = [order EXCEPT ![worker[w].o] = row]
    BY <1>8
  <2>. HIDE DEF row
  <2>5. RowInv(worker[w].o, row)
    BY <2>1, <2>3 DEF RowInv
  <2>. QED
    BY <1>3, <1>8, <2>2, <2>3, <2>4, <2>5
<1>9. ASSUME NEW w \in Workers, FinishSubmission(w, TRUE) \/ FinishSubmission(w, FALSE) \/ SettlementFails(w)
      PROVE  RowWritten(o)
  <2>1. worker[w].pc # "idle"
    BY <1>9 DEF FinishSubmission, SettlementFails, At
  <2>2. \/ UNCHANGED order
        \/ order' = [order EXCEPT ![worker[w].o] = MarkRetry(worker[w].local)]
    BY <1>9 DEF FinishSubmission, SettlementFails, Books
  <2>. QED
    BY <1>4, <1>8, <2>1, <2>2
<1>10. ASSUME NEW w \in Workers, UpdateOrderWithoutFills(w)
       PROVE  RowWritten(o)
  <2>. DEFINE row == Synced(worker[w].o, worker[w].local, worker[w].reply)
  <2>1. worker[w].pc # "idle"
    BY <1>10 DEF UpdateOrderWithoutFills, At
  <2>2. /\ worker[w].o \in Orders /\ worker[w] \in Busy(worker[w].o)
        /\ BusyInv(worker[w].o, worker[w])
    BY <2>1, BusyHolds
  <2>3. /\ row \in OrderRow(worker[w].o) /\ row.status # "ABSENT"
        /\ RowInv(worker[w].o, row)
    BY <2>2, SyncedRow
  <2>4. order' = [order EXCEPT ![worker[w].o] = row]
    BY <1>10 DEF UpdateOrderWithoutFills
  <2>. HIDE DEF row
  <2>. QED
    BY <1>3, <2>1, <2>3, <2>4
<1>11. ASSUME NEW w \in Workers, SettleRealFills(w) \/ SettleSyntheticFill(w)
       PROVE  RowWritten(o)
  <2>. DEFINE row == Synced(worker[w].o, worker[w].local, worker[w].reply)
  <2>1. worker[w].pc # "idle"
    BY <1>11 DEF SettleRealFills, SettleSyntheticFill, At
  <2>2. /\ worker[w].o \in Orders /\ worker[w] \in Busy(worker[w].o)
        /\ BusyInv(worker[w].o, worker[w])
    BY <2>1, BusyHolds
  <2>3. /\ row \in OrderRow(worker[w].o) /\ row.status # "ABSENT"
        /\ RowInv(worker[w].o, row)
    BY <2>2, SyncedRow
  <2>4. PICK n : order' = [order EXCEPT ![worker[w].o] = Finalized(row, n)]
    BY <1>11 DEF SettleRealFills, SettleSyntheticFill
  <2>. HIDE DEF row
  <2>5. CASE worker[w].o # o
    <3>1. order'[o] = order[o]
      BY <2>4, <2>5 DEF IInv, TypeOK, OrdersOK
    <3>. QED
      BY <3>1 DEF RowWritten
  <2>6. CASE o = worker[w].o
    <3>1. order'[o].filledQuantity = Filled(o)'
      BY <1>1, <1>11, <2>6, RealFillsSettle, SyntheticFillSettles
    <3>2. order'[o] = Finalized(row, n)
      BY <2>2, <2>4, <2>6 DEF IInv, TypeOK, OrdersOK
    <3>3. row \in OrderRow(o) /\ RowInv(o, row)
      BY <2>3, <2>6
    <3>4. /\ order'[o].status # "ABSENT"
          /\ order'[o].quantity = row.quantity
          /\ order'[o].submissionFilled = row.submissionFilled
      BY <2>3, <3>2, <3>3 DEF Finalized, OrderRow
    <3>5. PICK new \in OrderRow(o) : order'[o] = new
      BY DEF TypeOK, OrdersOK, OrderRow
    <3>6. Filled(o)' \in Nat
      BY FilledNatNext DEF FilledIsNat
    <3>7. RowInv(o, new)'
      BY <1>1, <3>1, <3>3, <3>4, <3>5, <3>6 DEF RowInv, Forward
    <3>. QED
      BY <3>4, <3>5, <3>7 DEF RowWritten
  <2>. QED
    BY <2>5, <2>6
<1>12. ASSUME NEW w \in Workers, SubmissionStep(w)
       PROVE  RowWritten(o)
  <2>1. CASE \E p \in Orders : RetryPendingSettlement(w, p)
    BY <1>4, <2>1 DEF RetryPendingSettlement, Start, Books
  <2>2. CASE PlaceOrder(w) \/ PlaceOrderFails(w) \/ SubmissionAborted(w)
    BY <1>4, <2>2 DEF PlaceOrder, PlaceOrderFails, SubmissionAborted, Books
  <2>. QED
    BY <1>5, <1>6, <1>7, <1>9, <1>12, <2>1, <2>2 DEF SubmissionStep
<1>13. ASSUME NEW w \in Workers, CancelStep(w) \/ SyncStep(w)
       PROVE  UNCHANGED order
  BY <1>13 DEF CancelStep, SyncStep, CancelLiveOrder, CancelOrder,
     SyncLiveOrder, QueryOrder, FetchTrades, FetchTradesFails, AnswerTrades,
     RequestFails, Start, Books
<1>14. CASE (\E p \in Orders : ExchangeStep(p)) \/ Crash \/ UNCHANGED vars
  BY <1>4, <1>14 DEF ExchangeStep, Match, Expire, Trim, Crash, Books, vars
<1>. QED
  BY <1>4, <1>9, <1>10, <1>11, <1>12, <1>13, <1>14
  DEF Next, WorkerStep, ApplyStep

\* The row of every order keeps its invariant.
LEMMA TableStep ==
    ASSUME IInv, TypeOK', [Next]_vars, NEW o \in Orders
    PROVE  TableInv(o)' /\ (order[o].status # "ABSENT" => order'[o].status # "ABSENT")
<1>1. /\ Forward(o) /\ TypeOK /\ Filled(o)' >= Filled(o) /\ RowWritten(o)
  BY RecordStep, RowStep, PositionStepHolds DEF IInv, FillsOnlyGrow
<1>2. CASE order'[o] = order[o]
  <2>1. PICK row \in OrderRow(o) : row = order[o]
    BY DEF IInv, TypeOK, OrdersOK
  <2>2. RowInv(o, row)
    BY <2>1 DEF IInv, TableInv
  <2>3. RowInv(o, row)'
    BY <1>1, <2>2, RowKept
  <2>4. RowInv(o, order[o])'
    BY <1>2, <2>1, <2>3 DEF RowInv
  <2>5. order'[o].status = "ABSENT" => exchange'[o].status = "NONE"
    BY <1>1, <1>2 DEF IInv, TableInv, Forward
  <2>. QED
    BY <1>2, <2>4, <2>5 DEF TableInv
<1>3. ASSUME NEW row \in OrderRow(o), order'[o] = row, row.status # "ABSENT",
             RowInv(o, row)'
      PROVE  TableInv(o)' /\ order'[o].status # "ABSENT"
  BY <1>3 DEF TableInv, RowInv
<1>. QED
  BY <1>1, <1>2, <1>3 DEF RowWritten

\* No settlement fills an order beyond what the exchange executed.
LEMMA LedgerStep ==
    ASSUME IInv, TypeOK', [Next]_vars, NEW o \in Orders
    PROVE  LedgerInv(o)'
<1>. SUFFICES ASSUME ForeignTrades = 0 PROVE LedgerInv(o)'
  BY DEF LedgerInv
<1>1. /\ Forward(o) /\ TypeOK /\ LedgerInv(o)
      /\ exchange[o].executed \in Nat /\ exchange'[o].executed \in Nat
      /\ Filled(o) \in Nat /\ Filled(o)' \in Nat
  <2>1. exchange[o].executed \in 0..Qty[o] /\ exchange'[o].executed \in 0..Qty[o]
    BY DEF IInv, TypeOK, ExchangeOK
  <2>. QED
    BY <2>1, RecordStep, QtyAssumption, FilledNat, FilledNatNext
    DEF IInv, FilledIsNat
<1>2. CASE real'[o] = real[o] /\ Filled(o)' = Filled(o)
  BY <1>1, <1>2 DEF LedgerInv, Forward
<1>3. ASSUME NEW w \in Workers, SettleRealFills(w)
      PROVE  LedgerInv(o)'
  <2>1. worker[w].pc # "idle" /\ UNCHANGED exchange
    BY <1>3 DEF SettleRealFills, At
  <2>2. worker[w].o \in Orders /\ ReplyInv(worker[w].o, worker[w])
    BY <2>1, BusyHolds
  <2>3. PICK p \in Orders : p = worker[w].o
    BY <2>2
  <2>4. PICK taken \in SUBSET worker[w].reply.trades :
             /\ real' = [real EXCEPT ![p] = @ \cup taken]
             /\ Filled(p)' = Cardinality(real[p] \cup taken)
                              + AtLeastZero(Total(placeholder[p])
                                              - Cardinality(taken))
             /\ Settles(p, NewToPosition(placeholder[p], taken))
    BY <1>1, <1>3, <2>3, RealFillsSettle
  <2>5. CASE o # p
    <3>1. real'[o] = real[o] /\ Filled(o)' = Filled(o)
      BY <2>4, <2>5 DEF Settles, IInv, TypeOK, FillsOK
    <3>. QED
      BY <1>2, <3>1
  <2>6. CASE o = p
    <3>. DEFINE n == exchange[o].executed
    <3>1. n \in Nat /\ real[o] \in SUBSET (1..n) /\ taken \in SUBSET (1..n)
      BY <1>1, <2>2, <2>3, <2>4, <2>6 DEF LedgerInv, ReplyInv
    <3>2. real[o] \cup taken \in SUBSET (1..n)
      BY <3>1
    <3>. HIDE DEF n
    <3>3. Cardinality(real[o] \cup taken) \in Nat
            /\ Cardinality(real[o] \cup taken) <= n
      BY <3>1, <3>2, TradesFinite
    <3>4. Cardinality(taken) \in Nat /\ Total(placeholder[o]) \in Nat
      BY <1>1, <3>1, TradesFinite, FilledType
    <3>5. Filled(o)' <= n
      <4>1. CASE Total(placeholder[o]) - Cardinality(taken) < 0
        BY <2>4, <2>6, <3>3, <3>4, <4>1 DEF AtLeastZero
      <4>2. CASE ~ (Total(placeholder[o]) - Cardinality(taken) < 0)
        <5>1. NewToPosition(placeholder[o], taken) = 0
          BY <3>4, <4>2 DEF NewToPosition, AtLeastZero
        <5>2. Filled(o)' = Filled(o)
          BY <1>1, <2>4, <2>6, <5>1 DEF Settles
        <5>. QED
          BY <1>1, <5>2 DEF LedgerInv, n
      <4>. QED
        BY <4>1, <4>2
    <3>6. real'[o] = real[o] \cup taken
      BY <2>4, <2>6 DEF IInv, TypeOK, FillsOK
    <3>. QED
      BY <2>1, <3>2, <3>5, <3>6 DEF LedgerInv, n
  <2>. QED
    BY <2>5, <2>6
<1>4. ASSUME NEW w \in Workers, SettleSyntheticFill(w)
      PROVE  LedgerInv(o)'
  <2>1. worker[w].pc # "idle" /\ UNCHANGED <<exchange, real>>
    BY <1>4 DEF SettleSyntheticFill, At
  <2>2. /\ worker[w].o \in Orders /\ worker[w] \in Busy(worker[w].o)
        /\ BusyInv(worker[w].o, worker[w])
        /\ ReplyInv(worker[w].o, worker[w])
    BY <2>1, BusyHolds
  <2>3. PICK p \in Orders : p = worker[w].o
    BY <2>2
  <2>. DEFINE r == worker[w].reply
              row == Synced(p, worker[w].local, r)
              kind == SyntheticKind(r)
              q == SyntheticPlan(p, row, kind, SyntheticQty(row, r))
  <2>4. Settles(p, q)
    BY <1>1, <1>4, <2>3, SyntheticFillSettles
  <2>5. CASE o # p
    <3>1. Filled(o)' = Filled(o)
      BY <2>4, <2>5 DEF Settles
    <3>. QED
      BY <1>2, <2>1, <3>1
  <2>6. CASE o = p
    <3>1. r \in Reply(p) /\ SyntheticQty(row, r) > 0
      BY <1>4, <2>2, <2>3 DEF SettleSyntheticFill, Busy
    <3>2. r.status = "FILLED"
      <4>1. r.synthetic \in Nat
        BY <3>1, QtyAssumption DEF Reply
      <4>2. CASE r.synthetic > 0
        BY <2>2, <4>2 DEF ReplyInv
      <4>3. CASE ~ (r.synthetic > 0)
        <5>1. FallbackQty(row, r) > 0
          BY <3>1, <4>3 DEF SyntheticQty
        <5>. QED
          BY <5>1 DEF FallbackQty
      <4>. QED
        BY <4>2, <4>3
    <3>3. row \in OrderRow(p) /\ row.quantity <= exchange[p].executed
      BY <2>2, <2>3, <3>2, SyncedRow
    <3>4. kind \in PlaceholderKinds
      BY DEF SyntheticKind, PlaceholderKinds
    <3>5. SyntheticQty(row, r) \in Nat
      BY <3>1, <3>3, QtyAssumption, FallbackQtyType
    <3>. HIDE DEF row, r, kind
    <3>6. q \in Nat /\ (q > 0 => Filled(p) + q <= row.quantity)
      BY <3>3, <3>4, <3>5, SyntheticPlanType DEF IInv, TypeOK
    <3>7. row.quantity \in Nat
      BY <3>3, QtyAssumption DEF OrderRow
    <3>. HIDE DEF q
    <3>8. Filled(o)' = Filled(o) + q
      BY <2>4, <2>6 DEF Settles
    <3>9. Filled(o)' <= exchange[o].executed
      BY <1>1, <2>6, <3>3, <3>6, <3>7, <3>8 DEF LedgerInv
    <3>. QED
      BY <1>1, <2>1, <3>9 DEF LedgerInv
  <2>. QED
    BY <2>5, <2>6
<1>5. CASE UNCHANGED <<real, placeholder>>
  <2>1. Filled(o)' = Filled(o)
    BY <1>5 DEF Filled, Total
  <2>. QED
    BY <1>2, <1>5, <2>1
<1>6. ASSUME NEW w \in Workers, SubmissionStep(w) \/ CancelStep(w) \/ SyncStep(w)
      PROVE  UNCHANGED <<real, placeholder>>
  BY <1>6 DEF SubmissionStep, CancelStep, SyncStep, CreateOrder,
     RetryPendingSettlement, PlaceOrder, PlaceOrderFails, SubmissionAborted,
     ApplySubmissionError, ApplySubmission, FinishSubmission, CancelLiveOrder,
     CancelOrder, SyncLiveOrder, QueryOrder, FetchTrades, FetchTradesFails,
     AnswerTrades, RequestFails, Start, Books
<1>7. ASSUME NEW w \in Workers, UpdateOrderWithoutFills(w) \/ SettlementFails(w)
      PROVE  UNCHANGED <<real, placeholder>>
  BY <1>7 DEF UpdateOrderWithoutFills, SettlementFails, Books
<1>8. CASE (\E p \in Orders : ExchangeStep(p)) \/ Crash \/ UNCHANGED vars
  BY <1>5, <1>8 DEF ExchangeStep, Match, Expire, Trim, Crash, Books, vars
<1>. QED
  BY <1>3, <1>4, <1>5, <1>6, <1>7, <1>8 DEF Next, WorkerStep, ApplyStep

-----------------------------------------------------------------------------
(* Copies and replies in the hands of the workers stay sound. *)

\* A reply the exchange stands by now, it stands by after the step.
LEMMA ReplyKept ==
    ASSUME TypeOK, TypeOK', NEW o \in Orders, Forward(o), NEW b \in Busy(o),
           ReplyInv(o, b), NEW c, c.reply = b.reply,
           c.pc \in {"submit", "query", "cancel"} => b.reply.synthetic = 0
    PROVE  ReplyInv(o, c)'
<1>1. exchange[o].executed \in Nat /\ exchange'[o].executed \in Nat
  BY QtyAssumption DEF TypeOK, ExchangeOK
<1>2. 1..exchange[o].executed \subseteq 1..exchange'[o].executed
  BY <1>1 DEF Forward
<1>. QED
  BY <1>2 DEF ReplyInv, Forward

\* Where the copy a worker holds after a step comes from.
CopyFrom(w, o) ==
    \/ worker[w] \in Busy(o) /\ worker'[w].local = worker[w].local
    \/ worker'[w].local = order[o] /\ order[o].status # "ABSENT"
    \/ worker'[w].local = order'[o] /\ order'[o].status # "ABSENT"

\* A worker whose copy came from the table or from itself stays sound if its
\* reply is.
LEMMA BusyFromCopy ==
    ASSUME IInv, TypeOK', [Next]_vars, NEW w \in Workers, NEW o \in Orders,
           CopyFrom(w, o), ReplyInv(o, worker[w])'
    PROVE  BusyInv(o, worker[w])'
<1>1. /\ Forward(o) /\ TypeOK /\ Filled(o)' >= Filled(o)
      /\ order[o].status # "ABSENT" => order'[o].status # "ABSENT"
      /\ TableInv(o)'
  BY RecordStep, TableStep, PositionStepHolds DEF IInv, FillsOnlyGrow
<1>2. ASSUME NEW row \in OrderRow(o), row.status # "ABSENT", RowInv(o, row),
             order[o].status # "ABSENT", worker'[w].local = row
      PROVE  BusyInv(o, worker[w])'
  <2>1. RowInv(o, row)'
    BY <1>1, <1>2, RowKept
  <2>2. RowInv(o, worker[w].local)'
    BY <1>2, <2>1 DEF RowInv
  <2>. QED
    BY <1>1, <1>2, <2>2 DEF BusyInv
<1>3. CASE worker[w] \in Busy(o) /\ worker'[w].local = worker[w].local
  <2>1. BusyInv(o, worker[w])
    BY <1>3 DEF IInv, WorkerInv
  <2>2. worker[w].local \in OrderRow(o)
    BY <1>3 DEF Busy
  <2>. QED
    BY <1>2, <1>3, <2>1, <2>2 DEF BusyInv
<1>4. CASE worker'[w].local = order[o] /\ order[o].status # "ABSENT"
  <2>1. order[o] \in OrderRow(o) /\ RowInv(o, order[o])
    BY DEF IInv, TypeOK, OrdersOK, TableInv
  <2>. QED
    BY <1>2, <1>4, <2>1
<1>5. CASE worker'[w].local = order'[o] /\ order'[o].status # "ABSENT"
  <2>1. RowInv(o, worker[w].local)'
    BY <1>1, <1>5 DEF TableInv, RowInv
  <2>. QED
    BY <1>5, <2>1 DEF BusyInv
<1>. QED
  BY <1>3, <1>4, <1>5 DEF CopyFrom

\* A worker that takes no step keeps its invariant.
LEMMA BusyUnmoved ==
    ASSUME IInv, TypeOK', [Next]_vars, NEW w \in Workers, NEW o \in Orders,
           worker'[w] \in Busy(o), worker'[w] = worker[w]
    PROVE  BusyInv(o, worker[w])'
<1>1. BusyInv(o, worker[w]) /\ worker[w] \in Busy(o)
  BY DEF IInv, WorkerInv
<1>2. Forward(o) /\ TypeOK /\ ReplyInv(o, worker[w])
  BY <1>1, RecordStep DEF IInv, BusyInv
<1>3. PICK c : c = worker[w]
  OBVIOUS
<1>4. ReplyInv(o, c)'
  BY <1>1, <1>2, <1>3, ReplyKept DEF ReplyInv
<1>5. ReplyInv(o, worker[w])'
  BY <1>3, <1>4 DEF ReplyInv
<1>. QED
  BY <1>1, <1>5, BusyFromCopy DEF CopyFrom

\* The worker that takes the step: submission.
LEMMA SubmissionBusy ==
    ASSUME IInv, TypeOK', [Next]_vars, NEW w \in Workers, NEW o \in Orders,
           worker'[w] \in Busy(o), SubmissionStep(w)
    PROVE  BusyInv(o, worker[w])'
<1>0. /\ TypeOK /\ DOMAIN worker = Workers /\ Forward(o)
      /\ exchange[o].executed \in Nat /\ exchange'[o].executed \in Nat
  BY RecordStep, QtyAssumption DEF IInv, TypeOK, WorkersOK, ExchangeOK
<1>1. worker'[w].o = o /\ worker'[w] # Idle
  BY DEF Busy, Idle
<1>2. ASSUME worker[w] \in Busy(o), worker'[w].reply = worker[w].reply,
             worker'[w].pc \notin {"submit", "query", "cancel"}
      PROVE  ReplyInv(o, worker[w])'
  <2>1. ReplyInv(o, worker[w])
    BY <1>2 DEF IInv, WorkerInv, BusyInv
  <2>2. PICK c : c = worker'[w]
    OBVIOUS
  <2>3. ReplyInv(o, c)'
    BY <1>0, <1>2, <2>1, <2>2, ReplyKept
  <2>. QED
    BY <2>2, <2>3 DEF ReplyInv
<1>a. ASSUME NEW p \in Orders, CreateOrder(w, p)
      PROVE  BusyInv(o, worker[w])'
  <2>1. worker'[w] = [pc |-> "submit", o |-> p, local |-> order'[p],
                      reply |-> NoReply("submission"), creator |-> TRUE]
    BY <1>0, <1>a DEF CreateOrder
  <2>2. p = o
    BY <1>1, <2>1
  <2>3. order'[o].status = "NEW"
    BY <1>a, <2>2 DEF CreateOrder, IInv, TypeOK, OrdersOK, OrderRow
  <2>4. ReplyInv(o, worker[w])'
    BY <2>1 DEF ReplyInv, NoReply
  <2>. QED
    BY <2>1, <2>2, <2>3, <2>4, BusyFromCopy DEF CopyFrom
<1>b. ASSUME NEW p \in Orders, RetryPendingSettlement(w, p)
      PROVE  BusyInv(o, worker[w])'
  <2>1. /\ worker'[w] = [pc |-> "apply", o |-> p, local |-> order[p],
                         reply |-> [NoReply("submission") EXCEPT
                            !.status = "FILLED",
                            !.executed = order[p].submissionFilled],
                         creator |-> FALSE]
        /\ order[p].status # "ABSENT" /\ order[p].submissionFilled > 0
        /\ UNCHANGED exchange
    BY <1>0, <1>b DEF RetryPendingSettlement, Start
  <2>2. p = o
    BY <1>1, <2>1
  <2>3. RowInv(o, order[o])
    BY DEF IInv, TableInv
  <2>4. /\ worker'[w].reply.status = "FILLED" /\ worker'[w].pc = "apply"
        /\ worker'[w].reply.executed = order[o].submissionFilled
        /\ worker'[w].reply.trades = {} /\ worker'[w].reply.synthetic = 0
    <3>. DEFINE r == [NoReply("submission") EXCEPT
                        !.status = "FILLED",
                        !.executed = order[p].submissionFilled]
    <3>1. worker'[w].reply = r /\ worker'[w].pc = "apply"
      BY <2>1
    <3>2. /\ r.status = "FILLED" /\ r.executed = order[p].submissionFilled
          /\ r.trades = {} /\ r.synthetic = 0
      BY DEF NoReply
    <3>. HIDE DEF r
    <3>. QED
      BY <2>2, <3>1, <3>2
  <2>5. ReplyInv(o, worker[w])'
    BY <2>1, <2>2, <2>3, <2>4 DEF ReplyInv, RowInv
  <2>. QED
    BY <2>1, <2>2, <2>5, BusyFromCopy DEF CopyFrom
<1>c. CASE PlaceOrder(w)
  <2>1. worker[w].pc # "idle" /\ worker[w].pc = "submit"
    BY <1>c DEF PlaceOrder, At
  <2>2. /\ worker[w].o \in Orders /\ worker[w] \in Busy(worker[w].o)
        /\ ReplyInv(worker[w].o, worker[w])
    BY <2>1, BusyHolds
  <2>3. PICK x, pc :
          /\ pc \in {"accepted", "refused"}
          /\ exchange' = [exchange EXCEPT ![worker[w].o] = x]
          /\ worker' = [worker EXCEPT ![w].pc = pc,
                                      ![w].reply.status = MappedStatus(x),
                                      ![w].reply.executed = x.executed]
    <3>1. PICK executed \in 0..Qty[worker[w].o], expired \in BOOLEAN,
               answered \in BOOLEAN :
            LET x == [status |-> IF executed = Qty[worker[w].o] THEN "FILLED"
                                 ELSE IF expired THEN "CANCELED" ELSE "LIVE",
                      executed |-> executed]
            IN /\ exchange' = [exchange EXCEPT ![worker[w].o] = x]
               /\ worker' = [worker EXCEPT
                      ![w].pc = IF answered THEN "accepted" ELSE "refused",
                      ![w].reply.status = MappedStatus(x),
                      ![w].reply.executed = executed]
      BY <1>c DEF PlaceOrder
    <3>. DEFINE x == [status |-> IF executed = Qty[worker[w].o] THEN "FILLED"
                                 ELSE IF expired THEN "CANCELED" ELSE "LIVE",
                      executed |-> executed]
                pc == IF answered THEN "accepted" ELSE "refused"
    <3>2. /\ exchange' = [exchange EXCEPT ![worker[w].o] = x]
          /\ worker' = [worker EXCEPT ![w].pc = pc,
                                      ![w].reply.status = MappedStatus(x),
                                      ![w].reply.executed = executed]
      BY <3>1
    <3>3. x.executed = executed /\ pc \in {"accepted", "refused"}
      OBVIOUS
    <3>. HIDE DEF x, pc
    <3>. QED
      BY <3>2, <3>3
  <2>4. /\ worker'[w].pc = pc /\ worker'[w].o = worker[w].o
        /\ worker'[w].local = worker[w].local
        /\ worker'[w].reply.status = MappedStatus(x)
        /\ worker'[w].reply.executed = x.executed
        /\ worker'[w].reply.trades = worker[w].reply.trades
        /\ worker'[w].reply.synthetic = worker[w].reply.synthetic
    BY <1>0, <2>2, <2>3 DEF Busy, Reply
  <2>5. worker[w].o = o
    BY <1>1, <2>4
  <2>6. exchange'[o] = x
    BY <2>3, <2>5 DEF IInv, TypeOK, ExchangeOK
  <2>7. 1..exchange[o].executed \subseteq 1..exchange'[o].executed
    BY <1>0 DEF Forward
  <2>8. worker[w].reply.synthetic = 0
    BY <2>1, <2>2 DEF ReplyInv
  <2>9. ReplyInv(o, worker[w])'
    BY <2>2, <2>4, <2>5, <2>6, <2>7, <2>8, MappedStatusType DEF ReplyInv
  <2>. QED
    BY <2>2, <2>4, <2>5, <2>9, BusyFromCopy DEF CopyFrom
<1>d. CASE PlaceOrderFails(w)
  <2>1. worker[w].pc # "idle"
    BY <1>d DEF PlaceOrderFails, At
  <2>2. worker[w].o \in Orders /\ worker[w] \in Busy(worker[w].o)
    BY <2>1, BusyHolds
  <2>3. /\ worker'[w].pc = "refused" /\ worker'[w].o = worker[w].o
        /\ worker'[w].local = worker[w].local /\ worker'[w].reply = worker[w].reply
    BY <1>0, <1>d, <2>2 DEF PlaceOrderFails, Goto, Busy
  <2>4. worker[w] \in Busy(o)
    BY <1>1, <2>2, <2>3
  <2>. QED
    BY <1>2, <2>3, <2>4, BusyFromCopy DEF CopyFrom
<1>g. CASE ApplySubmission(w)
  <2>1. worker[w].pc # "idle"
    BY <1>g DEF ApplySubmission, At
  <2>2. /\ worker[w].o \in Orders /\ worker[w] \in Busy(worker[w].o)
        /\ worker[w].local \in OrderRow(worker[w].o)
    BY <2>1, BusyHolds
  <2>3. PICK row : /\ order' = [order EXCEPT ![worker[w].o] = row]
                   /\ row.status = worker[w].reply.status
                   /\ worker'[w] = Idle \/
                        worker'[w] = [worker[w] EXCEPT !.pc = "apply", !.local = row]
    <3>. DEFINE r == worker[w].reply
                row == [worker[w].local EXCEPT
                          !.status = r.status,
                          !.submitted = TRUE,
                          !.submissionFilled =
                              IF r.status = "FILLED" THEN r.executed ELSE 0]
    <3>1. /\ order' = [order EXCEPT ![worker[w].o] = row]
          /\ worker'[w] = IF r.status = "FILLED"
                            THEN [worker[w] EXCEPT !.pc = "apply", !.local = row]
                            ELSE Idle
      BY <1>0, <1>g DEF ApplySubmission
    <3>2. row.status = worker[w].reply.status
      BY <2>2 DEF OrderRow
    <3>. HIDE DEF row
    <3>. QED
      BY <3>1, <3>2
  <2>4. worker'[w] = [worker[w] EXCEPT !.pc = "apply", !.local = row]
    BY <1>1, <2>3
  <2>5. /\ worker'[w].pc = "apply" /\ worker'[w].o = worker[w].o
        /\ worker'[w].local = row /\ worker'[w].reply = worker[w].reply
    BY <2>2, <2>4 DEF Busy
  <2>6. worker[w].o = o /\ worker[w] \in Busy(o)
    BY <1>1, <2>2, <2>5
  <2>7. order'[o] = row
    BY <2>3, <2>6 DEF IInv, TypeOK, OrdersOK
  <2>8. order'[o].status # "ABSENT"
    BY <2>3, <2>6, <2>7 DEF Busy, Reply
  <2>. QED
    BY <1>2, <2>5, <2>6, <2>7, <2>8, BusyFromCopy DEF CopyFrom
<1>h. CASE \/ SubmissionAborted(w) \/ ApplySubmissionError(w)
           \/ \E ok \in BOOLEAN : FinishSubmission(w, ok)
  <2>1. worker'[w] = Idle
    BY <1>0, <1>h DEF SubmissionAborted, ApplySubmissionError, FinishSubmission, Done
  <2>. QED
    BY <1>1, <2>1
<1>. QED
  BY <1>a, <1>b, <1>c, <1>d, <1>g, <1>h DEF SubmissionStep

\* The worker that takes the step: sync and cancel requests.
LEMMA RequestBusy ==
    ASSUME IInv, TypeOK', [Next]_vars, NEW w \in Workers, NEW o \in Orders,
           worker'[w] \in Busy(o), CancelStep(w) \/ SyncStep(w)
    PROVE  BusyInv(o, worker[w])'
<1>0. /\ TypeOK /\ DOMAIN worker = Workers /\ Forward(o)
      /\ exchange[o].executed \in Nat /\ exchange'[o].executed \in Nat
  BY RecordStep, QtyAssumption DEF IInv, TypeOK, WorkersOK, ExchangeOK
<1>1. worker'[w].o = o /\ worker'[w] # Idle
  BY DEF Busy, Idle
<1>a. ASSUME NEW p \in Orders, CancelLiveOrder(w, p) \/ SyncLiveOrder(w, p)
      PROVE  BusyInv(o, worker[w])'
  <2>1. PICK pc, k : /\ worker'[w] = [pc |-> pc, o |-> p, local |-> order[p],
                                      reply |-> NoReply(k), creator |-> FALSE]
                     /\ order[p].status # "ABSENT"
    BY <1>0, <1>a DEF CancelLiveOrder, SyncLiveOrder, Start
  <2>2. p = o
    BY <1>1, <2>1
  <2>3. worker'[w].reply = NoReply(k) /\ worker'[w].local = order[o]
    BY <2>1, <2>2
  <2>4. ReplyInv(o, worker[w])'
    BY <2>3 DEF ReplyInv, NoReply
  <2>. QED
    BY <2>1, <2>2, <2>3, <2>4, BusyFromCopy DEF CopyFrom
<1>b. ASSUME NEW answered \in BOOLEAN, CancelOrder(w, answered)
      PROVE  BusyInv(o, worker[w])'
  <2>1. worker[w].pc # "idle" /\ worker[w].pc = "cancel"
    BY <1>b DEF CancelOrder, At
  <2>2. /\ worker[w].o \in Orders /\ worker[w] \in Busy(worker[w].o)
        /\ ReplyInv(worker[w].o, worker[w])
    BY <2>1, BusyHolds
  <2>3. worker'[w] = [worker[w] EXCEPT !.pc = "apply",
                                       !.reply.status = "CANCELLED"]
    BY <1>0, <1>1, <1>b DEF CancelOrder
  <2>4. /\ worker'[w].pc = "apply" /\ worker'[w].o = worker[w].o
        /\ worker'[w].local = worker[w].local
        /\ worker'[w].reply.status = "CANCELLED"
        /\ worker'[w].reply.trades = worker[w].reply.trades
        /\ worker'[w].reply.synthetic = worker[w].reply.synthetic
    BY <2>2, <2>3 DEF Busy, Reply
  <2>5. worker[w].o = o
    BY <1>1, <2>4
  <2>6. 1..exchange[o].executed \subseteq 1..exchange'[o].executed
    BY <1>0 DEF Forward
  <2>7. worker[w].reply.synthetic = 0
    BY <2>1, <2>2 DEF ReplyInv
  <2>8. ReplyInv(o, worker[w])'
    BY <2>2, <2>4, <2>5, <2>6, <2>7 DEF ReplyInv
  <2>. QED
    BY <2>2, <2>4, <2>5, <2>8, BusyFromCopy DEF CopyFrom
<1>c. CASE QueryOrder(w)
  <2>1. worker[w].pc # "idle" /\ worker[w].pc = "query" /\ UNCHANGED exchange
    BY <1>c DEF QueryOrder, At
  <2>2. /\ worker[w].o \in Orders /\ worker[w] \in Busy(worker[w].o)
        /\ ReplyInv(worker[w].o, worker[w])
    BY <2>1, BusyHolds
  <2>3. PICK x : /\ x = exchange[worker[w].o]
                 /\ worker' = [worker EXCEPT ![w].pc = "trades",
                                   ![w].reply.status = MappedStatus(x),
                                   ![w].reply.executed = x.executed]
    BY <1>c DEF QueryOrder
  <2>4. /\ worker'[w].pc = "trades" /\ worker'[w].o = worker[w].o
        /\ worker'[w].local = worker[w].local
        /\ worker'[w].reply.status = MappedStatus(x)
        /\ worker'[w].reply.executed = x.executed
        /\ worker'[w].reply.trades = worker[w].reply.trades
        /\ worker'[w].reply.synthetic = worker[w].reply.synthetic
    BY <1>0, <2>2, <2>3 DEF Busy, Reply
  <2>5. worker[w].o = o
    BY <1>1, <2>4
  <2>6. exchange'[o] = x
    BY <2>1, <2>3, <2>5
  <2>7. worker[w].reply.synthetic = 0
    BY <2>1, <2>2 DEF ReplyInv
  <2>8. ReplyInv(o, worker[w])'
    BY <2>1, <2>2, <2>4, <2>5, <2>6, <2>7, MappedStatusType DEF ReplyInv
  <2>. QED
    BY <2>2, <2>4, <2>5, <2>8, BusyFromCopy DEF CopyFrom
<1>d. ASSUME NEW fetched \in BOOLEAN, At(w, "trades"),
             NEW visible \in SUBSET Shown(w),
             AnswerTrades(w, visible, fetched)
      PROVE  BusyInv(o, worker[w])'
  <2>1. worker[w].pc # "idle" /\ UNCHANGED exchange
    BY <1>d DEF AnswerTrades, At
  <2>2. /\ worker[w].o \in Orders /\ worker[w] \in Busy(worker[w].o)
        /\ ReplyInv(worker[w].o, worker[w])
    BY <2>1, BusyHolds
  <2>3. PICK t, n, retry :
          /\ t \subseteq visible
          /\ n > 0 => worker[w].reply.status = "FILLED"
          /\ worker' = [worker EXCEPT ![w].pc = "apply", ![w].reply.trades = t,
                                      ![w].reply.synthetic = n,
                                      ![w].reply.retryRequired = retry]
    <3>. DEFINE owed == /\ worker[w].reply.status = "FILLED" /\ visible = {}
                        /\ worker[w].reply.executed > 0
                retry == /\ owed
                         /\ \/ ~ fetched
                            \/ worker[w].local.attempts < EmptyTradeLimit
                t == IF IsTerminal(worker[w].reply.status) THEN visible ELSE {}
                n == IF owed /\ ~ retry THEN worker[w].reply.executed ELSE 0
    <3>1. t \subseteq visible
      OBVIOUS
    <3>2. n > 0 => worker[w].reply.status = "FILLED"
      OBVIOUS
    <3>3. worker' = [worker EXCEPT ![w].pc = "apply", ![w].reply.trades = t,
                                   ![w].reply.synthetic = n,
                                   ![w].reply.retryRequired = retry]
      BY <1>d, Zenon DEF AnswerTrades
    <3>. HIDE DEF t, n, retry
    <3>. QED
      BY <3>1, <3>2, <3>3
  <2>4. /\ worker'[w].pc = "apply" /\ worker'[w].o = worker[w].o
        /\ worker'[w].local = worker[w].local
        /\ worker'[w].reply.status = worker[w].reply.status
        /\ worker'[w].reply.executed = worker[w].reply.executed
        /\ worker'[w].reply.trades = t
        /\ worker'[w].reply.synthetic = n
    BY <1>0, <2>2, <2>3 DEF Busy, Reply
  <2>5. worker[w].o = o
    BY <1>1, <2>4
  <2>6. ForeignTrades = 0 => t \subseteq 1..exchange[o].executed
    <3>1. Qty[o] \in Nat
      BY QtyAssumption
    <3>. QED
      BY <2>3, <2>5, <3>1 DEF Shown, Foreign, LastTrade
  <2>7. ReplyInv(o, worker[w])'
    BY <2>1, <2>2, <2>3, <2>4, <2>5, <2>6 DEF ReplyInv
  <2>. QED
    BY <2>2, <2>4, <2>5, <2>7, BusyFromCopy DEF CopyFrom
<1>e. CASE FetchTrades(w)
  BY <1>d, <1>e DEF FetchTrades
<1>f. CASE FetchTradesFails(w)
  BY <1>d, <1>f DEF FetchTradesFails
<1>g. CASE RequestFails(w)
  <2>1. worker'[w] = Idle
    BY <1>0, <1>g DEF RequestFails, Done
  <2>. QED
    BY <1>1, <2>1
<1>. QED
  BY <1>a, <1>b, <1>c, <1>e, <1>f, <1>g DEF CancelStep, SyncStep

\* The worker that takes the step: settlement.
LEMMA ApplyBusy ==
    ASSUME IInv, TypeOK', [Next]_vars, NEW w \in Workers, NEW o \in Orders,
           worker'[w] \in Busy(o), ApplyStep(w)
    PROVE  BusyInv(o, worker[w])'
<1>1. /\ TypeOK /\ DOMAIN worker = Workers /\ Forward(o)
      /\ worker'[w].o = o /\ worker'[w] # Idle
  BY RecordStep DEF IInv, TypeOK, WorkersOK, Busy, Idle
<1>2. worker[w].pc # "idle"
  BY DEF ApplyStep, UpdateOrderWithoutFills, SettleRealFills,
         SettleSyntheticFill, SettlementFails, At
<1>3. /\ worker[w].o \in Orders /\ worker[w] \in Busy(worker[w].o)
      /\ BusyInv(worker[w].o, worker[w]) /\ ReplyInv(worker[w].o, worker[w])
  BY <1>2, BusyHolds
<1>4. CASE AfterApply(w)
  <2>1. worker'[w] = [worker[w] EXCEPT !.pc = "refresh",
                                       !.local = order'[worker[w].o]]
    BY <1>1, <1>4 DEF AfterApply
  <2>2. /\ worker'[w].pc = "refresh" /\ worker'[w].o = worker[w].o
        /\ worker'[w].reply = worker[w].reply
        /\ worker'[w].local = order'[worker[w].o]
    BY <1>3, <2>1 DEF Busy
  <2>3. worker[w].o = o
    BY <1>1, <2>2
  <2>4. PICK c : c = worker'[w]
    OBVIOUS
  <2>5. ReplyInv(o, c)'
    BY <1>1, <1>3, <2>2, <2>3, <2>4, ReplyKept
  <2>6. ReplyInv(o, worker[w])'
    BY <2>4, <2>5 DEF ReplyInv
  <2>7. order'[o].status # "ABSENT"
    BY <1>3, <2>3, TableStep DEF BusyInv
  <2>. QED
    BY <2>2, <2>3, <2>6, <2>7, BusyFromCopy DEF CopyFrom
<1>5. CASE Goto(w, "retry")
  <2>1. worker'[w] = [worker[w] EXCEPT !.pc = "retry"]
    BY <1>1, <1>5 DEF Goto
  <2>2. /\ worker'[w].pc = "retry" /\ worker'[w].o = worker[w].o
        /\ worker'[w].reply = worker[w].reply
        /\ worker'[w].local = worker[w].local
    BY <1>3, <2>1 DEF Busy
  <2>3. worker[w].o = o
    BY <1>1, <2>2
  <2>4. PICK c : c = worker'[w]
    OBVIOUS
  <2>5. ReplyInv(o, c)'
    BY <1>1, <1>3, <2>2, <2>3, <2>4, ReplyKept
  <2>6. ReplyInv(o, worker[w])'
    BY <2>4, <2>5 DEF ReplyInv
  <2>. QED
    BY <1>3, <2>2, <2>3, <2>6, BusyFromCopy DEF CopyFrom
<1>6. CASE Done(w)
  <2>1. worker'[w] = Idle
    BY <1>1, <1>6 DEF Done
  <2>. QED
    BY <1>1, <2>1
<1>. QED
  BY <1>4, <1>5, <1>6 DEF ApplyStep, UpdateOrderWithoutFills, SettleRealFills,
     SettleSyntheticFill, SettlementFails, AfterSettlement

\* A step of one worker leaves the others where they are.
LEMMA OthersUnmoved ==
    ASSUME TypeOK, NEW v \in Workers, WorkerStep(v), NEW w \in Workers, w # v
    PROVE  worker'[w] = worker[w]
<1>0. DOMAIN worker = Workers
  BY DEF TypeOK, WorkersOK
<1>1. CASE SubmissionStep(v)
  BY <1>0, <1>1 DEF SubmissionStep, CreateOrder, RetryPendingSettlement, Start,
     PlaceOrder, PlaceOrderFails, SubmissionAborted, ApplySubmissionError,
     ApplySubmission, FinishSubmission, Done, Goto
<1>2. CASE CancelStep(v) \/ SyncStep(v)
  BY <1>0, <1>2 DEF CancelStep, SyncStep, CancelLiveOrder, CancelOrder,
     SyncLiveOrder, Start, QueryOrder, FetchTrades, FetchTradesFails,
     AnswerTrades, RequestFails, Done
<1>3. CASE ApplyStep(v)
  BY <1>0, <1>3 DEF ApplyStep, UpdateOrderWithoutFills, SettleRealFills,
     SettleSyntheticFill, SettlementFails, AfterSettlement, AfterApply, Goto,
     Done
<1>. QED
  BY <1>1, <1>2, <1>3 DEF WorkerStep

\* Every step keeps what a busy worker holds sound.
LEMMA BusyStep ==
    ASSUME IInv, TypeOK', [Next]_vars, NEW w \in Workers, NEW o \in Orders,
           worker'[w] \in Busy(o)
    PROVE  BusyInv(o, worker[w])'
<1>1. CASE worker'[w] = worker[w]
  BY <1>1, BusyUnmoved
<1>2. ASSUME NEW v \in Workers, WorkerStep(v)
      PROVE  BusyInv(o, worker[w])'
  <2>1. CASE v = w
    BY <1>2, <2>1, SubmissionBusy, RequestBusy, ApplyBusy DEF WorkerStep
  <2>2. CASE v # w
    BY <1>1, <1>2, <2>2, OthersUnmoved DEF IInv
  <2>. QED
    BY <2>1, <2>2
<1>3. CASE (\E p \in Orders : ExchangeStep(p)) \/ UNCHANGED vars
  BY <1>1, <1>3 DEF ExchangeStep, Match, Expire, Trim, vars
<1>4. CASE Crash
  <2>1. worker'[w] = Idle
    BY <1>4 DEF Crash
  <2>. QED
    BY <2>1 DEF Busy, Idle
<1>. QED
  BY <1>2, <1>3, <1>4 DEF Next

\* PlaceOrder ends the submission.
LEMMA PlaceOrderMoves ==
    ASSUME IInv, NEW w \in Workers, PlaceOrder(w)
    PROVE  worker'[w].pc \in {"accepted", "refused"}
<1>1. worker[w].pc # "idle"
  BY DEF PlaceOrder, At
<1>2. worker[w] \in Busy(worker[w].o) /\ DOMAIN worker = Workers
  BY <1>1, BusyHolds DEF IInv, TypeOK, WorkersOK
<1>3. PICK executed \in 0..Qty[worker[w].o], expired \in BOOLEAN,
           answered \in BOOLEAN :
        LET x == [status |-> IF executed = Qty[worker[w].o] THEN "FILLED"
                             ELSE IF expired THEN "CANCELED" ELSE "LIVE",
                  executed |-> executed]
        IN /\ exchange' = [exchange EXCEPT ![worker[w].o] = x]
           /\ worker' = [worker EXCEPT
                  ![w].pc = IF answered THEN "accepted" ELSE "refused",
                  ![w].reply.status = MappedStatus(x),
                  ![w].reply.executed = executed]
  BY DEF PlaceOrder
<1>. DEFINE pc == IF answered THEN "accepted" ELSE "refused"
            s == MappedStatus([status |-> IF executed = Qty[worker[w].o] THEN "FILLED"
                                 ELSE IF expired THEN "CANCELED" ELSE "LIVE",
                               executed |-> executed])
<1>4. worker' = [worker EXCEPT ![w].pc = pc, ![w].reply.status = s,
                               ![w].reply.executed = executed]
  BY <1>3
<1>5. pc \in {"accepted", "refused"}
  OBVIOUS
<1>. HIDE DEF pc, s
<1>6. worker'[w].pc = pc
  BY <1>2, <1>4 DEF Busy
<1>. QED
  BY <1>5, <1>6

\* Only CreateOrder makes a submitting worker.
LEMMA SubmitShape ==
    ASSUME IInv, [Next]_vars, NEW w \in Workers, worker'[w].pc = "submit"
    PROVE  \/ worker'[w] = worker[w]
           \/ \E o \in Orders : CreateOrder(w, o)
<1>0. TypeOK /\ DOMAIN worker = Workers
  BY DEF IInv, TypeOK, WorkersOK
<1>1. ASSUME NEW v \in Workers, WorkerStep(v), v # w
      PROVE  worker'[w] = worker[w]
  BY <1>0, <1>1, OthersUnmoved
<1>2. CASE SubmissionStep(w)
  <2>1. ASSUME NEW o \in Orders, RetryPendingSettlement(w, o) PROVE FALSE
    BY <1>0, <2>1 DEF RetryPendingSettlement, Start
  <2>2. CASE PlaceOrder(w)
    BY <2>2, PlaceOrderMoves
  <2>3. CASE PlaceOrderFails(w)
    <3>1. worker[w].pc # "idle"
      BY <2>3 DEF PlaceOrderFails, At
    <3>2. worker[w] \in Busy(worker[w].o)
      BY <3>1, BusyHolds
    <3>3. worker'[w].pc = "refused"
      BY <1>0, <2>3, <3>2 DEF PlaceOrderFails, Goto, Busy
    <3>. QED
      BY <3>3
  <2>4. CASE ApplySubmission(w)
    <3>1. worker[w].pc # "idle"
      BY <2>4 DEF ApplySubmission, At
    <3>2. worker[w] \in Busy(worker[w].o)
      BY <3>1, BusyHolds
    <3>3. PICK row : \/ worker'[w] = Idle
                     \/ worker'[w] = [worker[w] EXCEPT !.pc = "apply", !.local = row]
      BY <1>0, <2>4 DEF ApplySubmission
    <3>4. CASE worker'[w] = Idle
      BY <3>4 DEF Idle
    <3>5. CASE worker'[w] = [worker[w] EXCEPT !.pc = "apply", !.local = row]
      <4>1. worker'[w].pc = "apply"
        BY <3>2, <3>5 DEF Busy
      <4>. QED
        BY <4>1
    <3>. QED
      BY <3>3, <3>4, <3>5
  <2>5. CASE \/ SubmissionAborted(w) \/ ApplySubmissionError(w)
             \/ \E ok \in BOOLEAN : FinishSubmission(w, ok)
    BY <1>0, <2>5 DEF SubmissionAborted, ApplySubmissionError, FinishSubmission, Done, Idle
  <2>. QED
    BY <1>2, <2>1, <2>2, <2>3, <2>4, <2>5 DEF SubmissionStep
<1>3. CASE CancelStep(w) \/ SyncStep(w)
  <2>1. CASE \E o \in Orders : CancelLiveOrder(w, o) \/ SyncLiveOrder(w, o)
    BY <1>0, <2>1 DEF CancelLiveOrder, SyncLiveOrder, Start
  <2>2. CASE RequestFails(w)
    BY <1>0, <2>2 DEF RequestFails, Done, Idle
  <2>3. CASE (\E answered \in BOOLEAN : CancelOrder(w, answered)) \/ QueryOrder(w)
             \/ FetchTrades(w) \/ FetchTradesFails(w)
    <3>1. worker[w].pc # "idle"
      BY <2>3 DEF CancelOrder, QueryOrder, FetchTrades, FetchTradesFails, At
    <3>2. worker[w] \in Busy(worker[w].o)
      BY <3>1, BusyHolds
    <3>3. CASE \E answered \in BOOLEAN : CancelOrder(w, answered)
      BY <1>0, <3>2, <3>3 DEF CancelOrder, Busy, Idle
    <3>4. CASE QueryOrder(w)
      BY <1>0, <3>2, <3>4 DEF QueryOrder, Busy
    <3>5. ASSUME NEW visible, NEW fetched, AnswerTrades(w, visible, fetched)
          PROVE  FALSE
      <4>1. PICK t, n, b : worker' = [worker EXCEPT ![w].pc = "apply",
                   ![w].reply.trades = t, ![w].reply.synthetic = n,
                   ![w].reply.retryRequired = b]
        BY <3>5 DEF AnswerTrades
      <4>2. worker'[w].pc = "apply"
        BY <1>0, <3>2, <4>1 DEF Busy
      <4>. QED
        BY <4>2
    <3>. QED
      BY <2>3, <3>3, <3>4, <3>5 DEF FetchTrades, FetchTradesFails
  <2>. QED
    BY <1>3, <2>1, <2>2, <2>3 DEF CancelStep, SyncStep
<1>4. CASE ApplyStep(w)
  <2>1. worker[w].pc # "idle"
    BY <1>4 DEF ApplyStep, UpdateOrderWithoutFills, SettleRealFills,
                SettleSyntheticFill, SettlementFails, At
  <2>2. worker[w] \in Busy(worker[w].o)
    BY <2>1, BusyHolds
  <2>3. PICK row : \/ worker'[w] = Idle
                   \/ worker'[w] = [worker[w] EXCEPT !.pc = "refresh", !.local = row]
                   \/ worker'[w] = [worker[w] EXCEPT !.pc = "retry"]
    BY <1>0, <1>4 DEF ApplyStep, UpdateOrderWithoutFills, SettleRealFills,
                SettleSyntheticFill, SettlementFails, AfterSettlement,
                AfterApply, Goto, Done
  <2>4. CASE worker'[w] = Idle
    BY <2>4 DEF Idle
  <2>5. CASE worker'[w] = [worker[w] EXCEPT !.pc = "refresh", !.local = row]
    <3>1. worker'[w].pc = "refresh"
      BY <2>2, <2>5 DEF Busy
    <3>. QED
      BY <3>1
  <2>6. CASE worker'[w] = [worker[w] EXCEPT !.pc = "retry"]
    <3>1. worker'[w].pc = "retry"
      BY <2>2, <2>6 DEF Busy
    <3>. QED
      BY <3>1
  <2>. QED
    BY <2>3, <2>4, <2>5, <2>6
<1>5. CASE (\E p \in Orders : ExchangeStep(p)) \/ UNCHANGED vars
  BY <1>5 DEF ExchangeStep, Match, Expire, Trim, vars
<1>6. CASE Crash
  BY <1>6 DEF Crash, Idle
<1>. QED
  BY <1>1, <1>2, <1>3, <1>4, <1>5, <1>6 DEF Next, WorkerStep

\* Only PlaceOrder makes the exchange's first record of an order.
LEMMA PlacedBy ==
    ASSUME IInv, [Next]_vars, NEW o \in Orders,
           exchange[o].status = "NONE", exchange'[o].status # "NONE"
    PROVE  \E v \in Workers : PlaceOrder(v) /\ worker[v].o = o
<1>0. DOMAIN exchange = Orders
  BY DEF IInv, TypeOK, ExchangeOK
<1>1. ASSUME NEW v \in Workers, WorkerStep(v)
      PROVE  \/ UNCHANGED exchange \/ PlaceOrder(v)
             \/ \E answered \in BOOLEAN : CancelOrder(v, answered)
  BY <1>1 DEF WorkerStep, SubmissionStep, CancelStep, SyncStep, ApplyStep,
     CreateOrder, RetryPendingSettlement, PlaceOrderFails, SubmissionAborted,
     ApplySubmissionError, ApplySubmission, FinishSubmission, CancelLiveOrder,
     SyncLiveOrder, QueryOrder, FetchTrades, FetchTradesFails, AnswerTrades,
     RequestFails, UpdateOrderWithoutFills, SettleRealFills,
     SettleSyntheticFill, SettlementFails, Start
<1>2. ASSUME NEW v \in Workers, NEW answered, CancelOrder(v, answered)
      PROVE  FALSE
  BY <1>0, <1>2 DEF CancelOrder
<1>3. ASSUME NEW v \in Workers, PlaceOrder(v), worker[v].o # o
      PROVE  FALSE
  <2>1. PICK x : exchange' = [exchange EXCEPT ![worker[v].o] = x]
    BY <1>3 DEF PlaceOrder
  <2>. QED
    BY <1>0, <1>3, <2>1
<1>4. CASE \E p \in Orders : ExchangeStep(p)
  BY <1>0, <1>4 DEF ExchangeStep, Match, Expire, Trim
<1>5. CASE Crash \/ UNCHANGED vars
  BY <1>5 DEF Crash, vars
<1>. QED
  BY <1>1, <1>2, <1>3, <1>4, <1>5 DEF Next

\* No step lets an order be placed twice.
LEMMA SubmitStep ==
    ASSUME IInv, [Next]_vars
    PROVE  SubmitInv'
<1>0. TypeOK /\ DOMAIN worker = Workers /\ DOMAIN order = Orders
  BY DEF IInv, TypeOK, WorkersOK, OrdersOK
<1>1. ASSUME NEW w \in Workers, NEW p \in Orders, CreateOrder(w, p)
      PROVE  /\ worker'[w].o = p /\ UNCHANGED exchange
             /\ exchange[p].status = "NONE"
             /\ \A v \in Workers \ {w} : worker[v].pc = "submit" => worker[v].o # p
  <2>1. order[p].status = "ABSENT"
    BY <1>1 DEF CreateOrder
  <2>2. ASSUME NEW v \in Workers, worker[v].pc = "submit"
        PROVE  worker[v].o # p
    <3>1. order[worker[v].o].status # "ABSENT"
      BY <2>2, BusyHolds DEF BusyInv
    <3>. QED
      BY <2>1, <3>1
  <2>. QED
    BY <1>0, <1>1, <2>1, <2>2 DEF CreateOrder, IInv, TableInv
<1>2. ASSUME NEW w \in Workers, NEW p \in Orders, CreateOrder(w, p),
             NEW v \in Workers, v # w
      PROVE  worker'[v] = worker[v]
  BY <1>0, <1>2 DEF CreateOrder
<1>3. ASSUME NEW w \in Workers, worker'[w].pc = "submit"
      PROVE  exchange'[worker'[w].o].status = "NONE"
  <2>1. CASE \E p \in Orders : CreateOrder(w, p)
    BY <1>1, <2>1
  <2>2. CASE worker'[w] = worker[w]
    <3>1. PICK o \in Orders : o = worker[w].o
      BY <1>3, <2>2, BusyHolds
    <3>2. exchange[o].status = "NONE"
      BY <1>3, <2>2, <3>1 DEF IInv, SubmitInv
    <3>3. SUFFICES ASSUME exchange'[o].status # "NONE" PROVE FALSE
      BY <2>2, <3>1
    <3>4. PICK v \in Workers : PlaceOrder(v) /\ worker[v].o = o
      BY <3>2, <3>3, PlacedBy
    <3>5. worker[v].pc = "submit"
      BY <3>4 DEF PlaceOrder, At
    <3>6. v = w
      BY <1>3, <2>2, <3>1, <3>4, <3>5 DEF IInv, SubmitInv
    <3>. QED
      BY <1>3, <3>4, <3>6, PlaceOrderMoves
  <2>. QED
    BY <1>3, <2>1, <2>2, SubmitShape
<1>4. ASSUME NEW w \in Workers, NEW v \in Workers \ {w},
             worker'[w].pc = "submit", worker'[v].pc = "submit"
      PROVE  worker'[v].o # worker'[w].o
  <2>1. CASE worker'[w] = worker[w] /\ worker'[v] = worker[v]
    BY <1>4, <2>1 DEF IInv, SubmitInv
  <2>2. CASE \E p \in Orders : CreateOrder(w, p)
    BY <1>1, <1>2, <1>4, <2>2
  <2>3. CASE \E p \in Orders : CreateOrder(v, p)
    BY <1>1, <1>2, <1>4, <2>3
  <2>. QED
    BY <1>4, <2>1, <2>2, <2>3, SubmitShape
<1>. QED
  BY <1>3, <1>4 DEF SubmitInv

-----------------------------------------------------------------------------
(* The theorems. *)

\* The invariant holds of the empty tables,
LEMMA InductiveInit == Init => IInv
<1>. SUFFICES ASSUME Init PROVE IInv
  OBVIOUS
<1>1. TypeOK
  BY TypeInit
<1>2. \A w \in Workers : worker[w] = Idle
  BY DEF Init
<1>3. SubmitInv
  BY <1>2 DEF SubmitInv, Idle
<1>4. \A w \in Workers : WorkerInv(w)
  BY <1>2 DEF WorkerInv, Busy, Idle
<1>5. ASSUME NEW o \in Orders
      PROVE  RecordInv(o) /\ LedgerInv(o) /\ TableInv(o)
  <2>1. /\ exchange[o] = [status |-> "NONE", executed |-> 0]
        /\ real[o] = {} /\ placeholder[o] = NoPlaceholder
        /\ order[o] = NoOrder(o) /\ Qty[o] \in Nat
    BY QtyAssumption DEF Init
  <2>2. Filled(o) = 0
    BY <2>1, FS_EmptySet DEF Filled, Total, NoPlaceholder, PlaceholderKinds
  <2>. QED
    BY <2>1, <2>2 DEF RecordInv, LedgerInv, TableInv, RowInv, NoOrder
<1>. QED
  BY <1>1, <1>3, <1>4, <1>5 DEF IInv

\* ... every step preserves it,
LEMMA InductiveStep == IInv /\ [Next]_vars => IInv'
<1>. SUFFICES ASSUME IInv, [Next]_vars PROVE IInv'
  OBVIOUS
<1>1. TypeOK'
  BY TypeStep DEF IInv
<1>2. \A o \in Orders : RecordInv(o)' /\ LedgerInv(o)' /\ TableInv(o)'
  BY <1>1, RecordStep, LedgerStep, TableStep
<1>3. \A w \in Workers : WorkerInv(w)'
  BY <1>1, BusyStep DEF WorkerInv
<1>4. SubmitInv'
  BY SubmitStep
<1>. QED
  BY <1>1, <1>2, <1>3, <1>4 DEF IInv

\* ... and so it always holds.
LEMMA Inductive == Spec => []IInv
BY InductiveInit, InductiveStep, PTL DEF Spec

\* The fills of an order, synthetic and real together, never exceed what the
\* exchange executed, whatever stale copies and late trades the workers of
\* order.go bring to BuildFillReconciliationPlan.
THEOREM NeverOverfilled == Spec => [](ForeignTrades = 0 => NoOverfill)
<1>1. IInv => (ForeignTrades = 0 => NoOverfill)
  BY DEF IInv, LedgerInv, NoOverfill
<1>. QED
  BY <1>1, Inductive, PTL

\* An order marked FILLED whose fills fall short of the exchange's is one
\* that shouldBackfillTerminalFilledLiveOrder sends back to the exchange.
THEOREM UnsettledRetried == Spec => []UnsettledIsRetried
<1>1. ASSUME IInv, NEW o \in Orders, order[o].status = "FILLED",
             Filled(o) < exchange[o].executed
      PROVE  NeedsSync(o)
  <2>1. /\ order[o].quantity \in 1..Qty[o] /\ order[o].filledQuantity \in Nat
        /\ exchange[o].executed \in 0..Qty[o] /\ Qty[o] \in Nat
        /\ Filled(o) \in Nat /\ RowInv(o, order[o])
    BY <1>1, QtyAssumption, FilledType
    DEF IInv, TypeOK, OrdersOK, OrderRow, ExchangeOK, TableInv
  <2>2. order[o].filledQuantity < order[o].quantity
    BY <1>1, <2>1 DEF RowInv
  <2>. QED
    BY <1>1, <2>2 DEF NeedsSync, ShouldBackfill
<1>2. IInv => UnsettledIsRetried
  BY <1>1 DEF UnsettledIsRetried
<1>. QED
  BY <1>2, Inductive, PTL

-----------------------------------------------------------------------------
(* FillSettlement implements FillLedger. *)

\* What the exchange executed of each order, and what the fills account for,
\* as the ledger sees them.
ExecutedLots == [o \in Orders |-> exchange[o].executed]
FilledLots == [o \in Orders |-> Filled(o)]

\* The record of the exchange changes for one order at a time, and never in
\* the step that settles fills.
LEMMA OneRecord ==
    ASSUME TypeOK, [Next]_vars
    PROVE  \/ UNCHANGED exchange
           \/ /\ UNCHANGED <<real, placeholder, position>>
              /\ \E p \in Orders : \A o \in Orders \ {p} : exchange'[o] = exchange[o]
<1>0. DOMAIN exchange = Orders
  BY DEF TypeOK, ExchangeOK
<1>1. ASSUME NEW w \in Workers, WorkerStep(w)
      PROVE  \/ UNCHANGED exchange \/ PlaceOrder(w)
             \/ \E answered \in BOOLEAN : CancelOrder(w, answered)
  BY <1>1 DEF WorkerStep, SubmissionStep, CancelStep, SyncStep, ApplyStep,
     CreateOrder, RetryPendingSettlement, PlaceOrderFails, SubmissionAborted,
     ApplySubmissionError, ApplySubmission, FinishSubmission, CancelLiveOrder,
     SyncLiveOrder, QueryOrder, FetchTrades, FetchTradesFails, AnswerTrades,
     RequestFails, UpdateOrderWithoutFills, SettleRealFills,
     SettleSyntheticFill, SettlementFails, Start
<1>2. ASSUME NEW w \in Workers, PlaceOrder(w)
      PROVE  /\ UNCHANGED <<real, placeholder, position>>
             /\ \E p \in Orders : \A o \in Orders \ {p} : exchange'[o] = exchange[o]
  <2>1. worker[w].o \in Orders
    BY <1>2, BusyType DEF PlaceOrder, At, TypeOK
  <2>2. PICK x : exchange' = [exchange EXCEPT ![worker[w].o] = x]
    BY <1>2 DEF PlaceOrder
  <2>. QED
    BY <1>0, <1>2, <2>1, <2>2 DEF PlaceOrder, Books
<1>3. ASSUME NEW w \in Workers, NEW answered, CancelOrder(w, answered)
      PROVE  /\ UNCHANGED <<real, placeholder, position>>
             /\ \E p \in Orders : \A o \in Orders \ {p} : exchange'[o] = exchange[o]
  <2>1. worker[w].o \in Orders
    BY <1>3, BusyType DEF CancelOrder, At, TypeOK
  <2>. QED
    BY <1>0, <1>3, <2>1 DEF CancelOrder, Books
<1>4. ASSUME NEW p \in Orders, ExchangeStep(p)
      PROVE  /\ UNCHANGED <<real, placeholder, position>>
             /\ \A o \in Orders \ {p} : exchange'[o] = exchange[o]
  BY <1>0, <1>4 DEF ExchangeStep, Match, Expire, Trim, Books
<1>5. CASE Crash \/ UNCHANGED vars
  BY <1>5 DEF Crash, vars
<1>. QED
  BY <1>1, <1>2, <1>3, <1>4, <1>5 DEF Next

\* The empty tables are an empty ledger.
LEMMA LedgerInit == Init => Ledger!Init
<1>. SUFFICES ASSUME Init PROVE Ledger!Init
  OBVIOUS
<1>1. \A o \in Orders : exchange[o].executed = 0
  BY DEF Init
<1>2. ASSUME NEW o \in Orders PROVE Filled(o) = 0
  <2>1. real[o] = {} /\ placeholder[o] = NoPlaceholder
    BY DEF Init
  <2>. QED
    BY <2>1, FS_EmptySet DEF Filled, Total, NoPlaceholder, PlaceholderKinds
<1>3. Net(position) = 0
  BY DEF Init, Net, NoPosition
<1>. QED
  BY <1>1, <1>2, <1>3 DEF Ledger!Init

\* Every step of the settlement is a step of the ledger, or leaves it alone.
LEMMA LedgerMoves ==
    ASSUME ForeignTrades = 0, IInv, IInv', [Next]_vars
    PROVE  [Ledger!Next]_(Ledger!ledger)
<1>0. /\ TypeOK /\ TypeOK' /\ Qty \in [Orders -> Nat]
      /\ \A o \in Orders : exchange[o].executed \in 0..Qty[o]
      /\ \A o \in Orders : exchange'[o].executed \in 0..Qty[o]
      /\ \A o \in Orders : Filled(o) \in Nat
      /\ \A o \in Orders : Filled(o)' <= exchange'[o].executed
  BY QtyAssumption, FilledNat DEF IInv, LedgerInv, TypeOK, ExchangeOK, FilledIsNat
<1>1. CASE UNCHANGED exchange
  <2>1. ASSUME NEW o \in Orders, NEW q \in Nat, Settles(o, q)
        PROVE  Ledger!Record(o) \/ UNCHANGED Ledger!ledger
    <3>1. /\ Filled(o)' = Filled(o) + q /\ position' = ApplyFill(position, Side[o], q)
          /\ \A p \in Orders \ {o} : Filled(p)' = Filled(p)
      BY <2>1 DEF Settles
    <3>2. Net(position)' = Net(position) + Ledger!Direction(o) * q
      <4>1. position \in [side : {"LONG", "SHORT"}, quantity : Nat]
        BY <1>0 DEF TypeOK, FillsOK
      <4>2. Side[o] \in {"BUY", "SELL"}
        BY SideAssumption
      <4>3. Net(ApplyFill(position, Side[o], q)) - Net(position)
              = IF Side[o] = "BUY" THEN q ELSE 0 - q
        BY <4>1, <4>2, ApplyFillEffect
      <4>4. Net(position)' - Net(position) = IF Side[o] = "BUY" THEN q ELSE 0 - q
        BY <3>1, <4>3, Zenon DEF Net
      <4>5. Net(position) \in Int
        BY <4>1 DEF Net
      <4>6. Net(position)' \in Int
        BY <1>0 DEF TypeOK, FillsOK, Net
      <4>. QED
        BY <4>2, <4>4, <4>5, <4>6 DEF Ledger!Direction
    <3>3. CASE q = 0
      <4>1. Net(position)' = Net(position)
        BY <3>2, <3>3, <1>0 DEF TypeOK, FillsOK, Net, Ledger!Direction
      <4>2. \A p \in Orders : Filled(p)' = Filled(p)
        BY <1>0, <3>1, <3>3
      <4>. QED
        BY <1>1, <4>1, <4>2 DEF Ledger!ledger
    <3>4. CASE q # 0
      <4>1. q \in 1..(exchange[o].executed - Filled(o))
        <5>1. Filled(o) + q <= exchange[o].executed
          BY <1>0, <1>1, <3>1
        <5>2. exchange[o].executed \in Nat /\ Filled(o) \in Nat
          BY <1>0
        <5>. QED
          BY <3>4, <5>1, <5>2
      <4>2. FilledLots' = [FilledLots EXCEPT ![o] = @ + q]
        BY <3>1 DEF FilledLots
      <4>3. ExecutedLots' = ExecutedLots
        BY <1>1 DEF ExecutedLots
      <4>. QED
        BY <3>2, <4>1, <4>2, <4>3 DEF Ledger!Record, FilledLots, ExecutedLots
    <3>. QED
      BY <3>3, <3>4
  <2>2. CASE UNCHANGED <<real, placeholder, position>>
    BY <1>1, <2>2 DEF Ledger!ledger, Net, Filled, Total
  <2>. QED
    BY <1>0, <2>1, <2>2, StepFills DEF Ledger!Next
<1>2. CASE /\ UNCHANGED <<real, placeholder, position>>
           /\ \E p \in Orders : \A o \in Orders \ {p} : exchange'[o] = exchange[o]
  <2>1. PICK p \in Orders : \A o \in Orders \ {p} : exchange'[o] = exchange[o]
    BY <1>2
  <2>2. exchange[p].executed <= exchange'[p].executed
    BY RecordStep DEF Forward
  <2>3. UNCHANGED <<FilledLots, Net(position)>>
    BY <1>2 DEF FilledLots, Net, Filled, Total
  <2>. DEFINE n == exchange'[p].executed - exchange[p].executed
  <2>4. CASE n = 0
    <3>1. \A o \in Orders : exchange'[o].executed = exchange[o].executed
      BY <1>0, <2>1, <2>4
    <3>2. UNCHANGED ExecutedLots
      BY <3>1 DEF ExecutedLots
    <3>. QED
      BY <2>3, <3>2 DEF Ledger!ledger, FilledLots, ExecutedLots
  <2>5. CASE n # 0
    <3>1. n \in 1..(Qty[p] - exchange[p].executed)
      <4>1. Qty[p] \in Nat /\ exchange[p].executed \in 0..Qty[p]
            /\ exchange'[p].executed \in 0..Qty[p]
        BY <1>0
      <4>. QED
        BY <2>2, <2>5, <4>1
    <3>2. exchange'[p].executed = exchange[p].executed + n
      BY <1>0
    <3>3. ExecutedLots' = [ExecutedLots EXCEPT ![p] = @ + n]
      BY <2>1, <3>2 DEF ExecutedLots
    <3>. HIDE DEF n
    <3>4. Ledger!Execute(p)
      BY <2>3, <3>1, <3>3 DEF Ledger!Execute, FilledLots, ExecutedLots
    <3>. QED
      BY <3>4 DEF Ledger!Next
  <2>. QED
    BY <2>4, <2>5
<1>. QED
  BY <1>0, <1>1, <1>2, OneRecord

\* Settlement implements the ledger: when fetchRESTTradeReports is shown no
\* other order's trades, what the handlers of order.go do to fills and
\* position is to record executed lots, each once.
THEOREM RefinesLedger == Spec => (ForeignTrades = 0 => ImplementsLedger)
<1>. SUFFICES ASSUME ForeignTrades = 0 PROVE Spec => ImplementsLedger
  OBVIOUS
<1>1. IInv /\ IInv' /\ [Next]_vars => [Ledger!Next]_(Ledger!ledger)
  BY LedgerMoves
<1>. QED
  BY <1>1, LedgerInit, Inductive, PTL DEF Spec, ImplementsLedger, Ledger!Spec

=============================================================================
