-------------------------- MODULE MCFillSettlement --------------------------
(* Instances of FillSettlement for TLC. *)
EXTENDS FillSettlement, TLC

CONSTANTS buy, sell, w1, w2

MCQtyOne == [o \in {sell} |-> 2]
MCSideOne == [o \in {sell} |-> "SELL"]

MCQtyTwo == buy :> 1 @@ sell :> 2
MCSideTwo == buy :> "BUY" @@ sell :> "SELL"

MCQtyLive == [o \in {buy} |-> 2]
MCSideLive == [o \in {buy} |-> "BUY"]

\* w1 is the live session loop, which also submits; w2 answers HTTP sync
\* requests and is shown all trades or none.  An order that is cancelled or
\* expires is never FILLED afterwards, so FilledOrdersSettle says nothing of
\* it and those steps are left out.
HttpSync(w) ==
    /\ SyncStep(w) \/ ApplyStep(w)
    /\ At(w, "trades") => CompleteTrades(w)' \/ worker'[w].reply.trades = {}

SessionNext ==
    \/ SubmissionStep(w1) \/ SyncStep(w1) \/ ApplyStep(w1)
    \/ HttpSync(w2)
    \/ \E o \in Orders : Match(o)
    \/ Crash

FairSpec == Init /\ [][SessionNext]_vars /\ SessionFairness(w1)

Symmetry == Permutations(Workers)
=============================================================================
