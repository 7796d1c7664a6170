----------------------------- MODULE Portfolio ------------------------------
(***************************************************************************)
(* The position with its average price, execution after execution:         *)
(* Position.apply (domain/portfolio.py) folded over the fills of an        *)
(* execution (execution/ledger.py), between a read and a write of the      *)
(* position's row (persistence/repository.py).  Numbers are in the last    *)
(* digit of a Numeric(38, 18) column: a row holds integers.  Within an     *)
(* execution the average is an exact fraction; the 28 digits of Decimal,   *)
(* more than the column keeps, are left out.                               *)
(* Ledger has the cash side; TradingCycle runs executions side by side and *)
(* leaves the average out.                                                 *)
(***************************************************************************)
EXTENDS Ledger, Sequences, SequencesExt

CONSTANTS
    Quantities, Prices, Fees,  \* of the fills of an execution
    MaxFills,                  \* bound: fills of an execution
    MaxQuantity                \* bound: the quantity held

PortfolioAssumption ==
    /\ Quantities \subseteq Nat \ {0}
    /\ Prices \subseteq Nat \ {0}
    /\ Fees \subseteq Nat
    /\ {MaxFills, MaxQuantity} \subseteq Nat

VARIABLES
    row,    \* the row of table positions, or NoRow
    change, \* what the last execution added to the cash
    last,   \* history: its side and its fills
    paid    \* history: the prices paid since the position was last flat

vars == <<row, change, last, paid>>

-----------------------------------------------------------------------------
OrderSide == {"buy", "sell"}

Fills == [quantity : Quantities, price : Prices, fee : Fees]

NoRow == [quantity |-> -1, average |-> 0]
Flat == [quantity |-> 0, average |-> [num |-> 0, den |-> 1]]

SumOf(f(_), fills) ==
    LET sum[n \in 0 .. Len(fills)] == IF n = 0 THEN 0 ELSE sum[n - 1] + f(fills[n])
    IN  sum[Len(fills)]

Total(fills) == SumOf(LAMBDA fill : fill.quantity, fills)
FeesOf(fills) == SumOf(LAMBDA fill : fill.fee, fills)

-----------------------------------------------------------------------------
\* A mutant: the fee is netted into the average price.
BuyNettingFee(position, fill) ==
    LET quantity == position.quantity + fill.quantity
    IN  [quantity |-> quantity,
         average |-> [num |-> position.quantity * position.average.num
                              + position.average.den * (Notional(fill) + fill.fee),
                      den |-> position.average.den * quantity]]

(* Weighted average cost.                                                  *)
Buy(position, fill) ==
    LET quantity == position.quantity + fill.quantity
    IN  [quantity |-> quantity,
         average |-> [num |-> position.quantity * position.average.num
                              + position.average.den * Notional(fill),
                      den |-> position.average.den * quantity]]

(* Selling leaves the average, and a closed position has none.             *)
Sell(position, fill) ==
    IF fill.quantity = position.quantity THEN Flat
    ELSE [position EXCEPT !.quantity = @ - fill.quantity]

Apply(position, side, fill) ==
    IF side = "buy" THEN Buy(position, fill) ELSE Sell(position, fill)

(* The fold of apply_execution, without its cash.                          *)
ApplyExecution(position, side, fills) ==
    LET after[n \in 0 .. Len(fills)] ==
            IF n = 0 THEN position ELSE Apply(after[n - 1], side, fills[n])
    IN  after[Len(fills)]

CashAfter(side, fills) == SumOf(LAMBDA fill : CashDelta(side, fill), fills)

LoadPosition ==
    IF row = NoRow THEN Flat
    ELSE [quantity |-> row.quantity, average |-> [num |-> row.average, den |-> 1]]

\* A mutant: a column that keeps one binary digit less, cutting the rest.
StoredTruncated(fraction) == 2 * (fraction.num \div (2 * fraction.den))

(* The column rounds half up; averages are not negative.                   *)
Stored(fraction) == (2 * fraction.num + fraction.den) \div (2 * fraction.den)

SavePosition(position) ==
    row' = [quantity |-> position.quantity, average |-> Stored(position.average)]

-----------------------------------------------------------------------------
Init ==
    /\ row = NoRow
    /\ change = 0
    /\ last = [side |-> "buy", fills |-> <<>>]
    /\ paid = {}

(* Some fill sells more than is left when it is its turn.                  *)
Oversells(side, fills) ==
    side = "sell" /\ Total(fills) > LoadPosition.quantity

PricesPaid(side, fills) ==
    IF side = "buy" THEN paid \cup {fills[i].price : i \in DOMAIN fills}
    ELSE IF Total(fills) = LoadPosition.quantity THEN {} ELSE paid

(* An execution with its fills, none of them when the order was rejected,  *)
(* is folded, saved and committed.                                         *)
Book(side, fills) ==
    /\ ~Oversells(side, fills)
    /\ SavePosition(ApplyExecution(LoadPosition, side, fills))
    /\ change' = CashAfter(side, fills)
    /\ last' = [side |-> side, fills |-> fills]
    /\ paid' = PricesPaid(side, fills)

(* Position.apply raises, and the transaction is rolled back.              *)
Refuse(side, fills) ==
    /\ Oversells(side, fills)
    /\ change' = 0
    /\ last' = [side |-> side, fills |-> <<>>]
    /\ UNCHANGED <<row, paid>>

Next ==
    \E side \in OrderSide, fills \in SeqOf(Fills, MaxFills) :
        /\ side = "buy" => LoadPosition.quantity + Total(fills) <= MaxQuantity
        /\ Book(side, fills) \/ Refuse(side, fills)

Spec == Init /\ [][Next]_vars

-----------------------------------------------------------------------------
(* Nothing is ever short, and the average price lies between the least and *)
(* the greatest price paid since the position was last flat, whatever was  *)
(* sold between, however often it was rounded, and whatever the fees were; *)
(* a flat position has none.                                               *)
AverageIsBetweenPrices ==
    LET average == LoadPosition.average.num
    IN  IF LoadPosition.quantity = 0 THEN average = 0
        ELSE /\ LoadPosition.quantity > 0
             /\ \E price \in paid : price <= average
             /\ \E price \in paid : average <= price

(* What the position has cost, by its row.                                 *)
BookValue == LoadPosition.quantity * LoadPosition.average.num

(* What sales gain over an average cost. *)
Gain(fills, average) ==
    SumOf(LAMBDA fill : fill.quantity * (fill.price - average), fills)

(* "Realised profit and loss is derived from the cash side": buying turns  *)
(* cash into book value and loses nothing but the fees, up to half a last  *)
(* digit of the average on every unit held; selling realises exactly the   *)
(* difference between its prices and the average, less the fees.           *)
Realised ==
    LET gain == Gain(last'.fills, LoadPosition.average.num)
        profit == change' + BookValue' - BookValue + FeesOf(last'.fills)
    IN  IF last'.side = "sell" THEN profit = gain
        ELSE LET held == LoadPosition'.quantity
             IN  2 * profit \in -held .. held

OnlySalesRealise == [][Realised]_vars
=============================================================================
