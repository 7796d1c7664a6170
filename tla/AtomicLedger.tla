---------------------------- MODULE AtomicLedger ----------------------------
(***************************************************************************)
(* What the ledger promises its reader (docs/adr/0005, as the code in      *)
(* persistence/repository.py carries it out): cash and position change     *)
(* only when an order is booked, by exactly its fill, and an order is      *)
(* booked once, for good, and never sells what is not held.  Nothing is    *)
(* said of how, or by whom.                                                *)
(***************************************************************************)
EXTENDS Ledger

CONSTANT InitialCashQuote

VARIABLES
    booked,  \* the orders booked: rows with an id, its side in it, and a fill
    cash,    \* what a reader finds as cash
    held     \* what a reader finds as quantity held

ledger == <<booked, cash, held>>

Init ==
    /\ booked = {}
    /\ cash = InitialCashQuote
    /\ held = 0

(* One order is booked, with its effect on cash and quantity.  The row is  *)
(* whatever row the step adds.                                             *)
Book ==
    \E row \in booked' :
        /\ \A earlier \in booked : earlier.id # row.id
        /\ booked' = booked \cup {row}
        /\ cash' = cash + CashDelta(row.id.side, row.fill)
        /\ held' = held + QuantityDelta(row.id.side, row.fill)
        /\ held' >= 0

Spec == Init /\ [][Book]_ledger
=============================================================================
