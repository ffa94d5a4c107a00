----------------------------- MODULE FillLedger -----------------------------
(***************************************************************************)
(* What settlement promises, without workers, copies, replies or kinds of  *)
(* fills: the exchange executes lots of an order, and the lots executed    *)
(* but not yet recorded are recorded later, each one once, together with   *)
(* the position.  FillSettlement implements this specification.            *)
(***************************************************************************)
EXTENDS Integers

CONSTANTS
    Orders,    \* live orders of one account on one symbol
    Qty,       \* [Orders -> lots]
    Side       \* [Orders -> {"BUY", "SELL"}]

VARIABLES
    executed,  \* lots of each order the exchange executed
    filled,    \* lots of each order that stored fills account for
    net        \* the position of the account, long positive

ledger == <<executed, filled, net>>

Direction(o) == IF Side[o] = "BUY" THEN 1 ELSE -1

Init ==
    /\ executed = [o \in Orders |-> 0]
    /\ filled = [o \in Orders |-> 0]
    /\ net = 0

\* The exchange executes some more of order o.
Execute(o) ==
    /\ \E n \in 1..(Qty[o] - executed[o]) :
          executed' = [executed EXCEPT ![o] = @ + n]
    /\ UNCHANGED <<filled, net>>

\* One settlement records lots of order o that were executed and not
\* recorded, and moves the position by as many.
Record(o) ==
    /\ \E n \in 1..(executed[o] - filled[o]) :
          /\ filled' = [filled EXCEPT ![o] = @ + n]
          /\ net' = net + Direction(o) * n
    /\ UNCHANGED executed

Next == \E o \in Orders : Execute(o) \/ Record(o)

Spec == Init /\ [][Next]_ledger

=============================================================================
