----------------------------- MODULE RiskPolicy -----------------------------
(***************************************************************************)
(* The risk policy engine (policy/engine.py, policy/limits.py): the only   *)
(* place where an order acquires a size.  It is pure, so it is a set of    *)
(* operators.                                                              *)
(*                                                                         *)
(* Amounts are integers.  A quantity counts venue increments               *)
(* (QUANTITY_STEP), a price is quote units per increment, so quantity *    *)
(* price is in quote units.  A strength is a numerator over StrengthUnit.  *)
(* _quantize rounds down, which is what \div does on non-negative numbers; *)
(* the floor of the minimum of three notionals divided by the price is the *)
(* minimum of the three floors, which is how BuyQuantity is written.       *)
(***************************************************************************)
EXTENDS Integers, FiniteSetsExt

CONSTANTS
    MaxPositionQuote,       \* the largest notional the bot may hold
    MaxDailyLossQuote,      \* the loss since the day's opening that stops it
    MinOrderNotionalQuote,  \* orders below this notional are not sent
    StrengthUnit            \* the denominator of a signal's strength

ASSUME LimitsAssumption ==
    /\ MaxPositionQuote \in Nat \ {0}
    /\ MaxDailyLossQuote \in Nat \ {0}
    /\ MinOrderNotionalQuote \in Nat \ {0}
    /\ StrengthUnit \in Nat \ {0}

SignalAction == {"buy", "sell", "hold"}
OrderSide == {"buy", "sell"}
Signal == [action : SignalAction, strength : 0 .. StrengthUnit]

(* AccountState: cash may be negative (a fee can take it below zero), the  *)
(* quantity held may not, and an opening equity that is not positive never *)
(* gets as far as the engine.                                              *)
AccountState == [cash : Int, quantity : Nat, opening : Nat \ {0}]

EquityAt(account, price) == account.cash + account.quantity * price

DailyPnl(account, price) == EquityAt(account, price) - account.opening

-----------------------------------------------------------------------------
(* A quantity of 0 stands for a decision to hold. *)
Hold == 0

Headroom(account, price) == MaxPositionQuote - account.quantity * price

\* A mutant of BuyQuantity: the order is not cut to the headroom.
BuyQuantityUncapped(strength, account, price) ==
    Min({(MaxPositionQuote * strength) \div (StrengthUnit * price),
         account.cash \div price})

\* A mutant of BuyQuantity: the order is not cut to the cash on hand.
BuyQuantityOnCredit(strength, account, price) ==
    Min({(MaxPositionQuote * strength) \div (StrengthUnit * price),
         Headroom(account, price) \div price})

BuyQuantity(strength, account, price) ==
    Min({(MaxPositionQuote * strength) \div (StrengthUnit * price),
         Headroom(account, price) \div price,
         account.cash \div price})

\* A mutant of SellQuantity: rounded up instead of down.
SellQuantityRoundedUp(strength, account) ==
    ((account.quantity * strength) \div StrengthUnit) + 1

SellQuantity(strength, account) ==
    (account.quantity * strength) \div StrengthUnit

LargeEnough(quantity, price) ==
    quantity > 0 /\ quantity * price >= MinOrderNotionalQuote

\* A mutant of Finalise: an order exactly at the minimum is refused.
FinaliseStrictly(quantity, price) ==
    IF quantity * price > MinOrderNotionalQuote THEN quantity ELSE Hold

Finalise(quantity, price) ==
    IF LargeEnough(quantity, price) THEN quantity ELSE Hold

DecideBuy(strength, account, price) ==
    IF Headroom(account, price) <= 0 \/ account.cash <= 0
    THEN Hold
    ELSE Finalise(BuyQuantity(strength, account, price), price)

DecideSell(strength, account, price) ==
    IF account.quantity <= 0
    THEN Hold
    ELSE Finalise(SellQuantity(strength, account), price)

\* A mutant of LossBudgetBreached: exactly at the limit still trades.
LossBudgetBreachedLate(account, price) ==
    DailyPnl(account, price) < -MaxDailyLossQuote

LossBudgetBreached(account, price) ==
    DailyPnl(account, price) <= -MaxDailyLossQuote

\* A mutant of Decide: the kill switch is ignored.
DecideUnstoppable(signal, account, price, killed) ==
    IF LossBudgetBreached(account, price) THEN Hold
    ELSE CASE signal.action = "hold" -> Hold
           [] signal.action = "buy" ->
                DecideBuy(signal.strength, account, price)
           [] signal.action = "sell" ->
                DecideSell(signal.strength, account, price)

(* The quantity to submit on the signal's side, or Hold. *)
Decide(signal, account, price, killed) ==
    IF killed \/ LossBudgetBreached(account, price) THEN Hold
    ELSE CASE signal.action = "hold" -> Hold
           [] signal.action = "buy" ->
                DecideBuy(signal.strength, account, price)
           [] signal.action = "sell" ->
                DecideSell(signal.strength, account, price)
=============================================================================
