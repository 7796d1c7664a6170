---------------------------- MODULE PolicyEngine ----------------------------
(***************************************************************************)
(* PolicyEngine.decide put to the test one question at a time, against a   *)
(* reference definition of the answer: the largest quantity that fits.     *)
(* The engine keeps no state between questions, so one is enough.          *)
(***************************************************************************)
EXTENDS RiskPolicy

CONSTANTS
    AskedPrices,      \* mark prices
    AskedCash,        \* cash balances
    AskedQuantities,  \* quantities held
    AskedOpenings     \* day opening equities

ASSUME AskedAssumption ==
    /\ AskedPrices \subseteq Nat \ {0}
    /\ AskedCash \subseteq Int
    /\ AskedQuantities \subseteq Nat
    /\ AskedOpenings \subseteq Nat \ {0}

VARIABLES question, answer
vars == <<question, answer>>

Questions ==
    [signal : Signal, price : AskedPrices, killed : BOOLEAN,
     account : [cash : AskedCash, quantity : AskedQuantities,
                opening : AskedOpenings]]

Unanswered == -1

Init ==
    /\ question \in Questions
    /\ answer = Unanswered

Answer ==
    /\ answer = Unanswered
    /\ answer' = Decide(question.signal, question.account, question.price,
                        question.killed)
    /\ UNCHANGED question

Next == Answer
Spec == Init /\ [][Next]_vars

-----------------------------------------------------------------------------
(* The reference: what a quantity must respect. *)

FitsBuy(q, strength, account, price) ==
    /\ q * price * StrengthUnit <= MaxPositionQuote * strength
    /\ (account.quantity + q) * price <= MaxPositionQuote
    /\ q * price <= account.cash

FitsSell(q, strength, account) ==
    q * StrengthUnit <= account.quantity * strength

Fits(q, asked) ==
    CASE asked.signal.action = "buy" ->
            FitsBuy(q, asked.signal.strength, asked.account, asked.price)
      [] asked.signal.action = "sell" ->
            FitsSell(q, asked.signal.strength, asked.account)
      [] OTHER -> FALSE

MayTrade(asked) ==
    /\ ~asked.killed
    /\ ~LossBudgetBreached(asked.account, asked.price)

(* An approved order is worth sending, and is the largest that respects    *)
(* the signal's share of the position limit, the headroom under the limit  *)
(* and the cash on hand (a buy), or the signal's share of the quantity     *)
(* held (a sale): rounding down never gives up a whole increment and never *)
(* breaks a bound (_decide_buy, _decide_sell, _quantize).                  *)
OrdersAreTheLargestThatFit ==
    answer > 0 =>
        /\ MayTrade(question)
        /\ LargeEnough(answer, question.price)
        /\ Fits(answer, question)
        /\ ~Fits(answer + 1, question)

(* The engine holds only when it must: it was stopped, or no quantity that *)
(* fits is worth sending.  (No quantity above the limit and the quantity   *)
(* held together fits.)                                                    *)
HoldsAreForced ==
    answer = Hold /\ MayTrade(question) =>
        \A q \in 1 .. (MaxPositionQuote + question.account.quantity) :
            Fits(q, question) => ~LargeEnough(q, question.price)
=============================================================================
