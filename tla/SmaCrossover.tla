---------------------------- MODULE SmaCrossover ----------------------------
(***************************************************************************)
(* The moving average crossover (strategy/sma_crossover.py) over the bars  *)
(* of a market: every execution is a new process that sees the last        *)
(* candles and nothing of the signals before.  The simulator shows it the  *)
(* same closes at every call; a venue shows a last candle that is still    *)
(* forming, whose close moves between two executions and becomes final     *)
(* when the next one opens.  Means are compared by cross-multiplication,   *)
(* so no division is rounded.                                              *)
(***************************************************************************)
EXTENDS Integers, Sequences, SequencesExt

CONSTANTS
    FastWindow, SlowWindow,   \* BOT_SMA_FAST, BOT_SMA_SLOW
    Limit,                    \* BOT_CANDLE_LIMIT
    StrengthScale,            \* 1 / strength_scale_ratio
    Prices                    \* candidate closes

SmaAssumption ==
    /\ FastWindow \in Nat /\ FastWindow >= 2
    /\ SlowWindow \in Nat /\ FastWindow < SlowWindow
    /\ Limit \in Nat /\ SlowWindow < Limit
    /\ StrengthScale \in Nat \ {0}
    /\ Prices \subseteq Nat \ {0}
    /\ \E p \in Prices : \A q \in Prices : q <= p

VARIABLES
    backend,     \* BOT_EXCHANGE_BACKEND
    closes,      \* the closes a snapshot taken now holds, oldest first
    seen,        \* has an execution evaluated these closes?
    barSignals,  \* history: the signals of the newest bar's executions
    settled,     \* history: the last signal given on a bar's final close
    sides        \* history: the sides of the slow average on which closed
                 \* bars have left the fast one, since the last bar whose
                 \* final close no execution evaluated

vars == <<backend, closes, seen, barSignals, settled, sides>>

-----------------------------------------------------------------------------
Total(s) ==
    LET sum[n \in 0 .. Len(s)] == IF n = 0 THEN 0 ELSE sum[n - 1] + s[n]
    IN  sum[Len(s)]

LastOf(s, n) == SubSeq(s, Len(s) - n + 1, Len(s))

(* The sign of fast average minus slow average, as a difference of         *)
(* fractions over FastWindow * SlowWindow.                                 *)
Spread(s) == Total(LastOf(s, FastWindow)) * SlowWindow
             - Total(LastOf(s, SlowWindow)) * FastWindow

Previous(s) == Front(s)

Enough(s) == Len(s) >= SlowWindow + 1

Abs(n) == IF n < 0 THEN -n ELSE n

Capped(num, den) ==
    IF num >= den THEN [num |-> 1, den |-> 1] ELSE [num |-> num, den |-> den]

(* _strength: the spread over the slow average, scaled, at most 1.         *)
Strength(s) ==
    Capped(StrengthScale * Abs(Spread(s)),
           FastWindow * Total(LastOf(s, SlowWindow)))

\* Mutants: a touch before the crossing hides it; a touch from above is a
\* crossing down; being below is, whatever the bar before.
CrossedUpStrictly(s) == Spread(Previous(s)) < 0 /\ Spread(s) > 0
CrossedDownOnTouch(s) == Spread(Previous(s)) >= 0 /\ Spread(s) <= 0
CrossedDownAnyway(s) == Spread(s) < 0

CrossedUp(s) == Spread(Previous(s)) <= 0 /\ Spread(s) > 0

CrossedDown(s) == Spread(Previous(s)) >= 0 /\ Spread(s) < 0

NoStrength == [num |-> 0, den |-> 1]

Hold == [action |-> "hold", strength |-> NoStrength]

Evaluate(s) ==
    IF ~Enough(s) \/ ~(CrossedUp(s) \/ CrossedDown(s))
    THEN Hold
    ELSE [action |-> IF CrossedUp(s) THEN "buy" ELSE "sell",
          strength |-> Strength(s)]

-----------------------------------------------------------------------------
(* The simulator always has Limit candles, a venue as many as there are.   *)
Histories(b) ==
    UNION {[1 .. n -> Prices] :
             n \in IF b = "simulated" THEN {Limit} ELSE 1 .. Limit}

Init ==
    /\ backend \in {"simulated", "ccxt_sandbox"}
    /\ closes \in Histories(backend)
    /\ seen = FALSE
    /\ barSignals = {}
    /\ settled = "hold"
    /\ sides = {}

(* An execution evaluates what the exchange shows.  One that fails, or is  *)
(* given fewer candles than it needs, leaves nothing behind.               *)
Execute ==
    /\ seen' = TRUE
    /\ barSignals' = barSignals \cup ({Evaluate(closes).action} \ {"hold"})
    /\ UNCHANGED <<backend, closes, settled, sides>>

(* The close of the candle that is still forming moves. *)
Move ==
    /\ backend = "ccxt_sandbox"
    /\ \E p \in Prices \ {Last(closes)} :
          closes' = [closes EXCEPT ![Len(closes)] = p]
    /\ seen' = FALSE
    /\ UNCHANGED <<backend, barSignals, settled, sides>>

Latest(s) == IF Len(s) > Limit THEN LastOf(s, Limit) ELSE s

(* The next bar opens: the simulator, which seeds its generator anew at    *)
(* every call, shows the same closes under later times.                    *)
NextCloses ==
    IF backend = "simulated" THEN {closes}
    ELSE {Latest(Append(closes, p)) : p \in Prices}

Side(s) == IF ~Enough(s) \/ Spread(s) = 0 THEN {}
           ELSE IF Spread(s) > 0 THEN {"buy"} ELSE {"sell"}

NewBar ==
    /\ closes' \in NextCloses
    /\ seen' = FALSE
    /\ barSignals' = {}
    /\ settled' = IF seen /\ Evaluate(closes).action # "hold"
                  THEN Evaluate(closes).action ELSE settled
    /\ sides' = IF seen THEN sides \cup Side(closes) ELSE {}
    /\ UNCHANGED backend

Next == Execute \/ Move \/ NewBar

Spec == Init /\ [][Next]_vars

-----------------------------------------------------------------------------
(* The side on which the newest closed bar left the fast average.          *)
ClosedSide ==
    IF ~Enough(closes) \/ Spread(Previous(closes)) = 0 THEN {}
    ELSE IF Spread(Previous(closes)) > 0 THEN {"buy"} ELSE {"sell"}

(* No crossing is lost while the final close of every bar is evaluated by  *)
(* an execution, whatever earlier executions of the bar made of it,        *)
(* although the averages may touch for some bars on the way and no process *)
(* remembers the bars before: once closed bars have been on both sides,    *)
(* the last signal given on a final close is the side of the newest closed *)
(* bar.  Exactly the signals have a strength, at most 1: the engine would  *)
(* not place the order of a signal without one.                            *)
CrossingsAreSignalled ==
    /\ sides = {"buy", "sell"} => ClosedSide \in {{}, {settled}}
    /\ Evaluate(closes).strength.num \in 0 .. Evaluate(closes).strength.den
    /\ Evaluate(closes).action \in {"buy", "sell"}
          <=> Evaluate(closes).strength.num > 0

(* Executions of one bar, which see its close move, call for a purchase    *)
(* and for a sale only when the averages touched exactly at the close of   *)
(* the bar before: the two orders the client order id does not tell apart  *)
(* as a repetition (_cycle_id, for_cycle) need such a touch.               *)
OppositeSignalsNeedATouch ==
    barSignals = {"buy", "sell"} => Spread(Previous(closes)) = 0

Opposite(action) == CASE action = "buy" -> "sell"
                     [] action = "sell" -> "buy"
                     [] OTHER -> action

Highest == CHOOSE p \in Prices : \A q \in Prices : q <= p

Mirrored(s) == [i \in DOMAIN s |-> Highest + 1 - s[i]]

(* Buying and selling are mirror images: the market turned upside down     *)
(* gives the opposite signal, touches included.                            *)
SignalsAreSymmetric ==
    Evaluate(Mirrored(closes)).action = Opposite(Evaluate(closes).action)
=============================================================================
