------------------------------- MODULE Ledger -------------------------------
(***************************************************************************)
(* Folding an execution into the ledger (execution/ledger.py,              *)
(* domain/portfolio.py).  An execution carries at most one fill, so an     *)
(* execution is its fill, with quantity 0 for a rejected order.  The       *)
(* average price is left out: no decision and no property reads it.        *)
(***************************************************************************)
EXTENDS Integers

Fill == [quantity : Nat, price : Nat, fee : Nat]
NoFill == [quantity |-> 0, price |-> 0, fee |-> 0]

Notional(fill) == fill.quantity * fill.price

(* Fees are always subtracted from cash. *)
CashDelta(side, fill) ==
    IF side = "buy" THEN -(Notional(fill) + fill.fee)
                    ELSE Notional(fill) - fill.fee

QuantityDelta(side, fill) ==
    IF side = "buy" THEN fill.quantity ELSE -fill.quantity
=============================================================================
