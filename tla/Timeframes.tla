----------------------------- MODULE Timeframes -----------------------------
(***************************************************************************)
(* Which bar an execution acts on: the timeframe arithmetic                *)
(* (exchange/timeframes.py) with its two users, the simulated exchange     *)
(* (exchange/simulated.py), which derives the newest bar from its own      *)
(* reading of the clock, and the cycle (cycle.py), which reads the clock   *)
(* before it asks for the bars and judges their age by that reading.       *)
(* Moments are minutes since the Unix epoch, in UTC like every clock of    *)
(* the program.  The bars of a ccxt venue are external: aligned like the   *)
(* simulator's, the newest still forming or up to MaxLag bars behind.      *)
(* Executions follow each other here; TradingCycle lets them overlap.      *)
(***************************************************************************)
EXTENDS Integers

CONSTANTS
    Moments,               \* the moments at which a clock may be read
    Amounts, Units,        \* the amounts and the units of timeframes
    MaxSnapshotAgeFactor,  \* MAX_SNAPSHOT_AGE_FACTOR
    MaxLag                 \* bound: bars a venue may be behind

TimeframesAssumption ==
    /\ Moments \subseteq Nat /\ Moments # {}
    /\ Amounts \subseteq Nat
    /\ MaxSnapshotAgeFactor \in Nat \ {0}
    /\ MaxLag \in Nat

VARIABLES
    settings,   \* exchange_backend and timeframe of the deployment
    clock,      \* the moment it is
    pc,         \* where the execution is
    now,        \* its reading of the clock
    asOf,       \* the open time of the newest bar it was given
    fetchedAt,  \* the moment at which it was given
    last        \* history: the last accepted fetch before this one

vars == <<settings, clock, pc, now, asOf, fetchedAt, last>>

-----------------------------------------------------------------------------
Minutes == [m |-> 1, h |-> 60, d |-> 24 * 60, w |-> 7 * 24 * 60]

(* Anything else is a ConfigurationError.                                  *)
Supported(timeframe) ==
    timeframe.unit \in DOMAIN Minutes /\ timeframe.amount >= 1

ParseTimeframe(timeframe) == timeframe.amount * Minutes[timeframe.unit]

\* A mutant: bars of the length of the timeframe that end at the moment.
FloorRolling(moment, timeframe) == moment

FloorToTimeframe(moment, timeframe) ==
    LET step == ParseTimeframe(timeframe)
    IN  step * (moment \div step)

\* A mutant: the age is counted in whole bars.
IsStaleWholeBars(bar, timeframe, reading) ==
    (reading - bar) \div ParseTimeframe(timeframe) > MaxSnapshotAgeFactor

IsStale(bar, timeframe, reading) ==
    reading - bar > ParseTimeframe(timeframe) * MaxSnapshotAgeFactor

(* The newest bar of the simulator is the last one that has closed.        *)
\* A mutant: the one that has just opened.
LastOpenForming(moment, timeframe) == FloorToTimeframe(moment, timeframe)

LastOpen(moment, timeframe) ==
    FloorToTimeframe(moment, timeframe) - ParseTimeframe(timeframe)

VenueBars(moment, timeframe) ==
    {FloorToTimeframe(moment, timeframe) - lag * ParseTimeframe(timeframe) :
        lag \in 0 .. MaxLag}

-----------------------------------------------------------------------------
Nothing == [asOf |-> 0, fetchedAt |-> -1]

Init ==
    /\ settings \in [backend : {"simulated", "ccxt_sandbox"},
                     timeframe : [amount : Amounts, unit : Units]]
    /\ clock \in Moments
    /\ pc = "idle"
    /\ now = 0
    /\ asOf = 0
    /\ fetchedAt = 0
    /\ last = Nothing

TimePasses ==
    /\ \E moment \in Moments : moment > clock /\ clock' = moment
    /\ UNCHANGED <<settings, pc, now, asOf, fetchedAt, last>>

ReadClock ==
    /\ pc = "idle"
    /\ now' = clock
    /\ pc' = "fetch"
    /\ UNCHANGED <<settings, clock, asOf, fetchedAt, last>>

FetchSnapshot ==
    /\ pc = "fetch"
    /\ Supported(settings.timeframe)
    /\ asOf' \in IF settings.backend = "simulated"
                 THEN {LastOpen(clock, settings.timeframe)}
                 ELSE VenueBars(clock, settings.timeframe)
    /\ fetchedAt' = clock
    /\ pc' = "check"
    /\ UNCHANGED <<settings, clock, now, last>>

(* The timeframe is parsed while fetching or, with a venue that knows it,  *)
(* by is_stale; the venue may also fail.  Either way nothing is written.   *)
FetchFails ==
    /\ pc = "fetch"
    /\ settings.backend = "ccxt_sandbox" \/ ~Supported(settings.timeframe)
    /\ pc' = "failed"
    /\ UNCHANGED <<settings, clock, now, asOf, fetchedAt, last>>

CheckAge ==
    /\ pc = "check"
    /\ pc' = IF IsStale(asOf, settings.timeframe, now) THEN "stale" ELSE "accepted"
    /\ UNCHANGED <<settings, clock, now, asOf, fetchedAt, last>>

(* The execution is over, and another one may start.                       *)
End ==
    /\ pc \in {"accepted", "stale", "failed"}
    /\ pc' = "idle"
    /\ last' = IF pc = "accepted" THEN [asOf |-> asOf, fetchedAt |-> fetchedAt]
                                  ELSE last
    /\ now' = 0 /\ asOf' = 0 /\ fetchedAt' = 0
    /\ UNCHANGED <<settings, clock>>

Next == TimePasses \/ ReadClock \/ FetchSnapshot \/ FetchFails \/ CheckAge \/ End

Spec == Init /\ [][Next]_vars

-----------------------------------------------------------------------------
Simulated == settings.backend = "simulated"

(* The simulator shows no bar that is still open, so that what a strategy  *)
(* reads of a bar is final; and its bars never fail the age check, however *)
(* long the fetch lasts and wherever in a bar the two readings fall.       *)
SimulatedBarsAreFinalAndFresh ==
    Simulated =>
        /\ pc # "stale"
        /\ pc \in {"check", "accepted"} =>
               asOf + ParseTimeframe(settings.timeframe) <= fetchedAt

(* A cycle is identified by the bar it acted on (cycle.py:43-55): two      *)
(* executions on the simulator act on the same bar exactly when they       *)
(* fetched within the same bar of the clock.                               *)
OneIdPerBar ==
    Simulated /\ pc = "accepted" /\ last # Nothing =>
        LET step == ParseTimeframe(settings.timeframe)
        IN  (asOf = last.asOf) <=> (fetchedAt \div step = last.fetchedAt \div step)

(* Accepted bars are so recent that, when the execution began, at most     *)
(* MaxSnapshotAgeFactor later bars had opened, and the last of them only   *)
(* at that moment: what TradingCycle's IsStale counts in bars.             *)
AcceptedMissesFewBars ==
    pc = "accepted" =>
        LET step == ParseTimeframe(settings.timeframe)
            opened == (now \div step) - (asOf \div step)
        IN  \/ opened < MaxSnapshotAgeFactor
            \/ opened = MaxSnapshotAgeFactor /\ now % step = 0
=============================================================================
