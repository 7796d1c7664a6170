------------------------------ MODULE Exchange ------------------------------
(***************************************************************************)
(* The two exchange gateways: the deterministic in-process simulator       *)
(* (exchange/simulated.py) and the ccxt testnet gateway                    *)
(* (exchange/ccxt_sandbox.py) with the venue behind it.                    *)
(*                                                                         *)
(* What a submission may answer is a set of outcomes.  An outcome says     *)
(* what the cycle is told (status, fill), whether the venue kept an order  *)
(* (executed, with the fill it really made), and whether the call failed   *)
(* in transport (error).                                                   *)
(***************************************************************************)
EXTENDS Integers, Ledger

CONSTANTS
    Backend,      \* "simulated" or "ccxt_sandbox" (ExchangeBackend)
    FeeBps,       \* the simulator's fee, in basis points of the notional
    SlippageBps,  \* the simulator's slippage, in basis points of the price
    FeeStep,      \* the simulator's PRICE_STEP, to which it rounds a fee, in
                  \* the unit of cash (the unit of a price is PRICE_STEP)
    VenuePrices,  \* the average prices a venue may report
    VenueFees     \* the fees a venue may report

ASSUME ExchangeAssumption ==
    /\ Backend \in {"simulated", "ccxt_sandbox"}
    /\ FeeBps \in Nat
    /\ SlippageBps \in 0 .. 10000
    /\ FeeStep \in Nat \ {0}
    /\ VenuePrices \subseteq Nat \ {0}
    /\ VenueFees \subseteq Nat

BPS == 10000

OrderStatus == {"filled", "partially_filled", "rejected"}

Outcome == [status : OrderStatus, fill : Fill, executed : Fill,
            error : BOOLEAN]

(* quantize(..., ROUND_HALF_UP) of the non-negative fraction n / d. *)
RoundHalfUp(n, d) == (2 * n + d) \div (2 * d)

\* A mutant of SlippedPrice: the sign is not turned for a sale.
SlippedPriceUnsigned(side, price) ==
    RoundHalfUp(price * (BPS + SlippageBps), BPS)

(* Slippage always works against the bot. *)
SlippedPrice(side, price) ==
    RoundHalfUp(price * (IF side = "buy" THEN BPS + SlippageBps
                                         ELSE BPS - SlippageBps), BPS)

(* SimulatedExchange.submit: complete, immediate, and without any memory   *)
(* of earlier orders.                                                      *)
SimulatedFill(side, quantity, price) ==
    LET filled == SlippedPrice(side, price)
    IN  [quantity |-> quantity,
         price |-> filled,
         fee |-> FeeStep
                   * RoundHalfUp(quantity * filled * FeeBps, BPS * FeeStep)]

SimulatedOutcomes(side, quantity, price) ==
    {[status |-> "filled", fill |-> SimulatedFill(side, quantity, price),
      executed |-> NoFill, error |-> FALSE]}

-----------------------------------------------------------------------------
(* CcxtSandboxExchange.submit.  Every exception, the refusal of a repeated *)
(* client order id and the loss of the answer included, becomes a REJECTED *)
(* execution; so does an answer that reports no fill (yet).                *)
Rejected(executed, error) ==
    [status |-> "rejected", fill |-> NoFill, executed |-> executed,
     error |-> error]

VenueFills(quantity) ==
    [quantity : 1 .. quantity, price : VenuePrices, fee : VenueFees]

StatusOf(fill, quantity) ==
    IF fill.quantity >= quantity THEN "filled" ELSE "partially_filled"

\* A mutant of CcxtOutcomes: an unanswered order is taken to be filled.
CcxtOutcomesOptimistic(quantity, known) ==
    {Rejected(NoFill, TRUE)}
    \cup (IF known THEN {Rejected(NoFill, FALSE)} ELSE
          {[status |-> "filled", fill |-> f, executed |-> NoFill,
            error |-> TRUE] : f \in VenueFills(quantity)})

CcxtOutcomes(quantity, known) ==
    {Rejected(NoFill, TRUE), Rejected(NoFill, FALSE)}
    \cup (IF known THEN {} ELSE
          {Rejected(f, TRUE) : f \in VenueFills(quantity)}
          \cup {Rejected(f, FALSE) : f \in VenueFills(quantity)}
          \cup {[status |-> StatusOf(f, quantity), fill |-> f, executed |-> f,
                 error |-> FALSE] : f \in VenueFills(quantity)})

(* known: the venue already holds an order with this client order id. *)
SubmitOutcomes(side, quantity, price, known) ==
    IF Backend = "simulated"
    THEN SimulatedOutcomes(side, quantity, price)
    ELSE CcxtOutcomes(quantity, known)
=============================================================================
