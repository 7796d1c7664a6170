---------------------------- MODULE Calculations ----------------------------
(***************************************************************************)
(* PolicyEngine, Portfolio, SmaCrossover and Timeframes for TLC in one     *)
(* run.  They share no state: a behaviour belongs to the component its     *)
(* first state names, and the others rest.                                 *)
(***************************************************************************)
EXTENDS PolicyEngineMC

CONSTANTS
    FillQuantities, FillPrices, Fees, MaxFills, MaxQuantity,      \* Portfolio
    FastWindow, SlowWindow, Limit, StrengthScale, ClosePrices,    \* SmaCrossover
    Moments, Amounts, Units, MaxSnapshotAgeFactor, MaxLag         \* Timeframes

VARIABLES
    component,
    row, change, last, paid,
    backend, closes, seen, barSignals, settled, sides,
    settings, clock, pc, now, asOf, fetchedAt, acceptedFetch

P == INSTANCE Portfolio WITH Quantities <- FillQuantities, Prices <- FillPrices

S == INSTANCE SmaCrossover WITH Prices <- ClosePrices

T == INSTANCE Timeframes WITH last <- acceptedFetch

policy == <<question, answer>>
portfolio == <<row, change, last, paid>>
strategy == <<backend, closes, seen, barSignals, settled, sides>>
timeframes == <<settings, clock, pc, now, asOf, fetchedAt, acceptedFetch>>
calculations == <<component, policy, portfolio, strategy, timeframes>>

ASSUME CalculationsAssumption ==
    P!PortfolioAssumption /\ S!SmaAssumption /\ T!TimeframesAssumption

\* Where the components rest.
AnyQuestion == CHOOSE q \in Questions : TRUE
AnyClose == CHOOSE p \in ClosePrices : TRUE
AnySettings ==
    [backend |-> "simulated",
     timeframe |-> [amount |-> CHOOSE a \in Amounts : TRUE,
                    unit |-> CHOOSE u \in Units : TRUE]]
AnyMoment == CHOOSE m \in Moments : TRUE

CalculationsInit ==
    /\ component \in {"PolicyEngine", "Portfolio", "SmaCrossover", "Timeframes"}
    /\ component # "PolicyEngine" => question = AnyQuestion
    /\ Init
    /\ P!Init
    /\ component # "SmaCrossover" =>
          backend = "ccxt_sandbox" /\ closes = <<AnyClose>>
    /\ S!Init
    /\ component # "Timeframes" => settings = AnySettings /\ clock = AnyMoment
    /\ T!Init

PolicyStep ==
    component = "PolicyEngine" /\ Next
    /\ UNCHANGED <<component, portfolio, strategy, timeframes>>

PortfolioStep ==
    component = "Portfolio" /\ P!Next
    /\ UNCHANGED <<component, policy, strategy, timeframes>>

StrategyStep ==
    component = "SmaCrossover" /\ S!Next
    /\ UNCHANGED <<component, policy, portfolio, timeframes>>

TimeframesStep ==
    component = "Timeframes" /\ T!Next
    /\ UNCHANGED <<component, policy, portfolio, strategy>>

CalculationsNext == PolicyStep \/ PortfolioStep \/ StrategyStep \/ TimeframesStep

CalculationsSpec == CalculationsInit /\ [][CalculationsNext]_calculations

-----------------------------------------------------------------------------
(* The average price stays an average of prices paid (Position.apply).     *)
AverageIsBetweenPrices ==
    component = "Portfolio" => P!AverageIsBetweenPrices

(* Cash and position together gain by selling alone (apply_execution).     *)
OnlySalesRealise == P!OnlySalesRealise

(* No crossing is lost while every final close is evaluated (evaluate).    *)
CrossingsAreSignalled ==
    component = "SmaCrossover" => S!CrossingsAreSignalled

(* A bar is bought and sold only after a touch of the averages (evaluate). *)
OppositeSignalsNeedATouch ==
    component = "SmaCrossover" => S!OppositeSignalsNeedATouch

(* Buying and selling are mirror images (evaluate).                        *)
SignalsAreSymmetric ==
    component = "SmaCrossover" => S!SignalsAreSymmetric

(* The simulator's newest bar has closed, and is never stale.              *)
SimulatedBarsAreFinalAndFresh ==
    component = "Timeframes" => T!SimulatedBarsAreFinalAndFresh

(* Executions within a bar act on the same bar of the simulator.           *)
OneIdPerBar ==
    component = "Timeframes" => T!OneIdPerBar

(* A snapshot the age check accepts misses few bars (is_stale).            *)
AcceptedMissesFewBars ==
    component = "Timeframes" => T!AcceptedMissesFewBars
=============================================================================
