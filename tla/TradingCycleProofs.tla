------------------------- MODULE TradingCycleProofs -------------------------
(***************************************************************************)
(* Type correctness of TradingCycle, and one order per bar, for any number *)
(* of overlapping executions, crashes and retries.                         *)
(***************************************************************************)
EXTENDS TradingCycle, RiskPolicyProofs

-----------------------------------------------------------------------------
(* What an exchange may answer. *)

LEMMA RoundHalfUpType ==
    ASSUME NEW n \in Nat, NEW d \in Nat \ {0}
    PROVE  RoundHalfUp(n, d) \in Nat
  <1> DEFINE dividend == 2 * n + d
             divisor == 2 * d
  <1>1. dividend \in Nat /\ divisor \in Nat /\ divisor > 0
    OBVIOUS
  <1> HIDE DEF dividend, divisor
  <1>2. dividend \div divisor \in Nat
    BY <1>1
  <1> QED BY <1>2 DEF RoundHalfUp, dividend, divisor

LEMMA SimulatedFillType ==
    ASSUME NEW side \in OrderSide, NEW quantity \in Nat, NEW price \in Nat
    PROVE  /\ SimulatedFill(side, quantity, price) \in Fill
           /\ SimulatedFill(side, quantity, price).quantity = quantity
  <1> DEFINE factor == IF side = "buy" THEN BPS + SlippageBps
                                       ELSE BPS - SlippageBps
             slipped == SlippedPrice(side, price)
  <1>1. factor \in Nat /\ FeeBps \in Nat
    BY ExchangeAssumption DEF BPS
  <1>2. price * factor \in Nat
    BY <1>1, SMT
  <1>3. slipped \in Nat
    BY <1>2, RoundHalfUpType DEF SlippedPrice, BPS
  <1> HIDE DEF slipped
  <1>4. quantity * slipped * FeeBps \in Nat
    <2>1. quantity * slipped \in Nat
      BY <1>3, SMT
    <2> QED BY <2>1, <1>1, SMT
  <1> DEFINE fee == FeeStep
                      * RoundHalfUp(quantity * slipped * FeeBps, BPS * FeeStep)
  <1>5. fee \in Nat
    <2>1. FeeStep \in Nat /\ BPS * FeeStep \in Nat \ {0}
      BY ExchangeAssumption DEF BPS
    <2>2. RoundHalfUp(quantity * slipped * FeeBps, BPS * FeeStep) \in Nat
      BY <1>4, <2>1, RoundHalfUpType
    <2> QED BY <2>1, <2>2, SMT
  <1> QED BY <1>3, <1>5 DEF SimulatedFill, Fill, slipped

LEMMA RejectedType ==
    ASSUME NEW f \in Fill, NEW e \in BOOLEAN
    PROVE  /\ Rejected(f, e) \in Outcome
           /\ Rejected(f, e).fill = NoFill
           /\ Rejected(f, e).executed = f
  BY DEF Rejected, Outcome, OrderStatus, NoFill, Fill

LEMMA VenueFillType ==
    ASSUME NEW quantity \in Nat, NEW f \in VenueFills(quantity)
    PROVE  f \in Fill /\ f.quantity <= quantity
  <1>1. /\ f = [quantity |-> f.quantity, price |-> f.price, fee |-> f.fee]
        /\ f.quantity \in 1 .. quantity
        /\ f.price \in VenuePrices
        /\ f.fee \in VenueFees
    BY DEF VenueFills
  <1>2. f.quantity \in Nat /\ f.price \in Nat /\ f.fee \in Nat
    BY <1>1, ExchangeAssumption
  <1> QED BY <1>1, <1>2 DEF Fill

LEMMA OutcomeType ==
    ASSUME NEW side \in OrderSide, NEW quantity \in Nat \ {0},
           NEW price \in Nat \ {0}, NEW known \in BOOLEAN,
           NEW o \in SubmitOutcomes(side, quantity, price, known)
    PROVE  /\ o \in Outcome
           /\ o.fill.quantity <= quantity
           /\ known => o.executed = NoFill
  <1>1. NoFill \in Fill /\ NoFill.quantity = 0
    BY DEF NoFill, Fill
  <1>2. CASE Backend = "simulated"
    <2>1. PICK f \in Fill : /\ f = SimulatedFill(side, quantity, price)
                            /\ f.quantity = quantity
      BY SimulatedFillType
    <2>2. o = [status |-> "filled", fill |-> f, executed |-> NoFill,
               error |-> FALSE]
      BY <1>2, <2>1 DEF SubmitOutcomes, SimulatedOutcomes
    <2> QED BY <1>1, <2>1, <2>2 DEF Outcome, OrderStatus
  <1>3. CASE Backend # "simulated"
    <2>1. o \in CcxtOutcomes(quantity, known)
      BY <1>3 DEF SubmitOutcomes
    <2>2. CASE o \in {Rejected(NoFill, TRUE), Rejected(NoFill, FALSE)}
      <3>1. PICK e \in BOOLEAN : o = Rejected(NoFill, e)
        BY <2>2
      <3> QED BY <3>1, <1>1, RejectedType
    <2>3. CASE ~known /\ \E f \in VenueFills(quantity), e \in BOOLEAN :
                            o = Rejected(f, e)
      <3>1. PICK f \in VenueFills(quantity), e \in BOOLEAN : o = Rejected(f, e)
        BY <2>3
      <3>2. f \in Fill
        BY VenueFillType
      <3>3. o \in Outcome /\ o.fill = NoFill
        BY <3>1, <3>2, RejectedType
      <3>4. ~known
        BY <2>3
      <3> QED BY <3>3, <3>4, <1>1
    <2>4. CASE ~known /\ \E f \in VenueFills(quantity) :
                 o = [status |-> StatusOf(f, quantity), fill |-> f,
                      executed |-> f, error |-> FALSE]
      <3>1. PICK f \in VenueFills(quantity) :
                 o = [status |-> StatusOf(f, quantity), fill |-> f,
                      executed |-> f, error |-> FALSE]
        BY <2>4
      <3>2. f \in Fill /\ f.quantity <= quantity
        BY VenueFillType
      <3>3. StatusOf(f, quantity) \in OrderStatus
        BY DEF StatusOf, OrderStatus
      <3> QED BY <3>1, <3>2, <3>3, <2>4 DEF Outcome
    <2>5. CASE known
      BY <2>1, <2>2, <2>5 DEF CcxtOutcomes
    <2>6. CASE ~known
      <3>1. \/ o \in {Rejected(NoFill, TRUE), Rejected(NoFill, FALSE)}
            \/ o \in {Rejected(f, TRUE) : f \in VenueFills(quantity)}
            \/ o \in {Rejected(f, FALSE) : f \in VenueFills(quantity)}
            \/ o \in {[status |-> StatusOf(f, quantity), fill |-> f,
                       executed |-> f, error |-> FALSE] :
                       f \in VenueFills(quantity)}
        BY <2>1, <2>6, Zenon DEF CcxtOutcomes
      <3> QED BY <3>1, <2>2, <2>3, <2>4, <2>6
    <2> QED BY <2>5, <2>6
  <1> QED BY <1>2, <1>3

LEMMA DeltaTypes ==
    ASSUME NEW side \in OrderSide, NEW fill \in Fill
    PROVE  /\ CashDelta(side, fill) \in Int
           /\ QuantityDelta(side, fill) \in Int
  <1>1. fill.quantity \in Nat /\ fill.price \in Nat /\ fill.fee \in Nat
    BY DEF Fill
  <1>2. fill.quantity * fill.price \in Int
    BY <1>1, SMT
  <1> QED BY <1>1, <1>2 DEF CashDelta, QuantityDelta, Notional

-----------------------------------------------------------------------------
(* The strengthening of TypeOK: an order that waits to be sent was sized   *)
(* by the policy, so it has a side, a quantity and, for a sale, no more    *)
(* than the cycle holds; the opening equity of such a cycle is positive.   *)

Unsubmitted == {"fetch", "read_cash", "read_position", "decide", "check",
                "submit"}

ApprovedAt(at, c) ==
    /\ at \in {"check", "submit", "save", "commit"} => c.opening > 0
    /\ at \in {"check", "submit"} =>
         /\ c.signal.action \in OrderSide
         /\ c.order > 0
         /\ c.signal.action = "sell" => c.order <= c.quantity
    /\ at \notin {"idle", "failed", "fetch", "succeeded", "gave_up"} =>
         c.price > 0
    /\ c.submitted => at \notin Unsubmitted /\ c.signal.action \in OrderSide

Approved == \A e \in Executions : ApprovedAt(pc[e], cycle[e])

(* The snapshots have a latest row and, from any moment on, a first one.   *)
Ordered ==
    /\ snapshots # {} =>
         \E s \in snapshots : \A t \in snapshots : t.takenAt <= s.takenAt
    /\ \A start \in Nat : SnapshotsSince(start) # {} =>
         \E s \in SnapshotsSince(start) :
            \A t \in SnapshotsSince(start) : s.takenAt <= t.takenAt

TypeInv == TypeOK /\ Approved /\ Ordered

WorldTypes ==
    /\ market \in Seq(Bar) /\ market # <<>>
    /\ clock \in Nat
    /\ midnight \in 0 .. clock
    /\ killSwitch \in [engaged : BOOLEAN, since : 0 .. clock, flips : Nat]

DatabaseTypes ==
    /\ orders \subseteq OrderRow
    /\ position \in Nat \cup {NoRow}
    /\ snapshots \subseteq SnapshotRow
    /\ book \in [cash : Int, quantity : Int]

ProcessTypes ==
    /\ pc \in [Executions -> Locations]
    /\ attempt \in [Executions -> Nat]
    /\ cycle \in [Executions -> Local]

LEMMA TypeOKParts ==
    TypeOK <=> /\ WorldTypes /\ DatabaseTypes /\ ProcessTypes
               /\ venue \subseteq VenueRow
  BY DEF TypeOK, WorldTypes, DatabaseTypes, ProcessTypes

LEMMA BlankType ==
    /\ Blank \in Local
    /\ \A at : at \in {"idle", "failed", "fetch"} \cup Ended => ApprovedAt(at, Blank)
  <1>1. NoOutcome \in Outcome
    BY DEF NoOutcome, Outcome, NoFill, Fill, OrderStatus
  <1>2. [action |-> "hold", strength |-> 0] \in Signal
    BY LimitsAssumption DEF Signal, SignalAction
  <1>3. Blank \in Local
    BY <1>1, <1>2 DEF Blank, Local, Hold, NoRow
  <1>4. Blank.submitted = FALSE
    BY DEF Blank
  <1> QED BY <1>3, <1>4 DEF ApprovedAt, Ended

LEMMA SignalsAreSignals == Signals \subseteq Signal
  <1> SUFFICES ASSUME NEW s \in Signals PROVE s \in Signal
    OBVIOUS
  <1>1. CASE s = [action |-> "hold", strength |-> 0]
    BY <1>1, LimitsAssumption DEF Signal, SignalAction
  <1>2. CASE s \in [action : OrderSide, strength : Strengths]
    BY <1>2, CycleAssumption DEF Signal, SignalAction, OrderSide
  <1> QED BY <1>1, <1>2 DEF Signals

LEMMA BarFacts ==
    ASSUME TypeInv, NEW b \in 1 .. Len(market)
    PROVE  /\ market[b].price \in Nat \ {0}
           /\ market[b].signal \in Signals
           /\ market[b].signal \in Signal
  <1>1. market[b] \in Bar
    BY DEF TypeInv, TypeOK
  <1>2. market[b].price \in Prices /\ market[b].signal \in Signals
    BY <1>1 DEF Bar
  <1> QED BY <1>2, SignalsAreSignals, CycleAssumption

-----------------------------------------------------------------------------
(* One attempt moves: what stays typed whatever the step does to the rows. *)

LEMMA MoveKeepsTypes ==
    ASSUME TypeInv, NEW e \in Executions, NEW to \in Locations, NEW c \in Local,
           ApprovedAt(to, c),
           pc' = [pc EXCEPT ![e] = to],
           cycle' = [cycle EXCEPT ![e] = c]
    PROVE  /\ pc' \in [Executions -> Locations]
           /\ cycle' \in [Executions -> Local]
           /\ Approved'
  <1>1. /\ pc \in [Executions -> Locations]
        /\ cycle \in [Executions -> Local]
        /\ Approved
    BY DEF TypeInv, TypeOK
  <1>2. pc' \in [Executions -> Locations] /\ cycle' \in [Executions -> Local]
    BY <1>1
  <1>3. ASSUME NEW x \in Executions
        PROVE  ApprovedAt(pc'[x], cycle'[x])
    <2>1. CASE x = e
      <3>1. pc'[x] = to /\ cycle'[x] = c
        BY <1>1, <2>1
      <3> QED BY <3>1
    <2>2. CASE x # e
      <3>1. pc'[x] = pc[x] /\ cycle'[x] = cycle[x]
        BY <1>1, <2>2
      <3> QED BY <1>1, <3>1 DEF Approved
    <2> QED BY <2>1, <2>2
  <1> QED BY <1>2, <1>3 DEF Approved

LEMMA WorldKept ==
    ASSUME TypeInv, UNCHANGED <<world, clock>>
    PROVE  WorldTypes'
  BY TypeOKParts DEF TypeInv, WorldTypes, world

LEMMA DatabaseKept ==
    ASSUME TypeInv, UNCHANGED database
    PROVE  DatabaseTypes' /\ Ordered'
  <1>1. DatabaseTypes'
    BY TypeOKParts DEF TypeInv, DatabaseTypes, database
  <1>2. Ordered'
    BY DEF TypeInv, Ordered, SnapshotsSince, database
  <1> QED BY <1>1, <1>2

(* A step that leaves the tables and the venue alone. *)
LEMMA QuietStep ==
    ASSUME TypeInv, NEW e \in Executions, NEW to \in Locations, NEW c \in Local,
           ApprovedAt(to, c),
           pc' = [pc EXCEPT ![e] = to],
           cycle' = [cycle EXCEPT ![e] = c],
           UNCHANGED <<world, clock, attempt, venue, database>>
    PROVE  TypeInv'
  <1>1. ProcessTypes' /\ Approved'
    BY MoveKeepsTypes DEF ProcessTypes, TypeInv, TypeOK
  <1>2. WorldTypes' /\ DatabaseTypes' /\ Ordered'
    BY WorldKept, DatabaseKept
  <1>3. venue' \subseteq VenueRow
    BY DEF TypeInv, TypeOK
  <1>4. (WorldTypes /\ DatabaseTypes /\ ProcessTypes
           /\ venue \subseteq VenueRow)'
    BY <1>1, <1>2, <1>3
  <1>5. TypeOK'
    BY <1>4 DEF TypeOK, WorldTypes, DatabaseTypes, ProcessTypes
  <1> QED BY <1>1, <1>2, <1>5 DEF TypeInv

LEMMA LocalFacts ==
    ASSUME TypeInv, NEW e \in Executions
    PROVE  /\ cycle[e] \in Local
           /\ pc[e] \in Locations
           /\ ApprovedAt(pc[e], cycle[e])
  BY DEF TypeInv, TypeOK, Approved

LEMMA FailKeepsTypes ==
    ASSUME TypeInv, NEW e \in Executions, Fail(e), UNCHANGED venue
    PROVE  TypeInv'
  <1>1. "failed" \in Locations /\ ApprovedAt("failed", Blank)
    BY BlankType DEF Locations
  <1> QED BY <1>1, BlankType, QuietStep DEF Fail

-----------------------------------------------------------------------------
(* One lemma per action. *)

LEMMA FetchKeepsTypes ==
    ASSUME TypeInv, NEW e \in Executions, Fetch(e)
    PROVE  TypeInv'
  <1>1. PICK b \in Visible :
            /\ Step(e, "fetch", "read_cash",
                    [cycle[e] EXCEPT !.bar = b,
                                     !.price = market[b].price,
                                     !.signal = market[b].signal])
            /\ UNCHANGED <<venue, database>>
    BY DEF Fetch
  <1> DEFINE c == [cycle[e] EXCEPT !.bar = b,
                                   !.price = market[b].price,
                                   !.signal = market[b].signal]
  <1>2. market \in Seq(Bar) /\ market # <<>>
    BY DEF TypeInv, TypeOK
  <1>3. b \in 1 .. Len(market)
    BY <1>2 DEF Visible
  <1>5. market[b].price \in Nat \ {0} /\ market[b].signal \in Signal
    BY <1>3, BarFacts
  <1>6. cycle[e] \in Local /\ pc[e] = "fetch" /\ ApprovedAt("fetch", cycle[e])
    BY <1>1, LocalFacts DEF Step
  <1>7. c \in Local
    <2>1. b \in Nat /\ market[b].price \in Nat
      BY <1>2, <1>3, <1>5
    <2> QED BY <2>1, <1>5, <1>6, Zenon DEF Local
  <1>8. ApprovedAt("read_cash", c)
    <2>1. ~cycle[e].submitted
      BY <1>6 DEF ApprovedAt, Unsubmitted
    <2> QED BY <1>5, <1>6, <2>1 DEF ApprovedAt, Local
  <1>9. "read_cash" \in Locations /\ pc' = [pc EXCEPT ![e] = "read_cash"]
        /\ cycle' = [cycle EXCEPT ![e] = c]
        /\ UNCHANGED <<world, clock, attempt, venue, database>>
    BY <1>1 DEF Step, Locations, Running
  <1> HIDE DEF c
  <1> QED BY <1>7, <1>8, <1>9, QuietStep

LEMMA CashOnRecordType ==
    ASSUME TypeInv
    PROVE  CashOnRecord \in Int
  <1>1. snapshots \subseteq SnapshotRow
    BY DEF TypeInv, TypeOK
  <1>2. ASSUME snapshots # {} PROVE LatestSnapshot \in snapshots
    BY <1>2 DEF TypeInv, Ordered, LatestSnapshot
  <1>3. ASSUME snapshots # {} PROVE LatestSnapshot.cash \in Int
    <2>1. LatestSnapshot \in SnapshotRow
      BY <1>1, <1>2, <1>3
    <2> QED BY <2>1 DEF SnapshotRow
  <1> QED BY <1>3, CycleAssumption DEF CashOnRecord

LEMMA DayOpeningType ==
    ASSUME TypeInv, NEW start \in Nat, NEW fallback \in Int
    PROVE  DayOpeningEquity(start, fallback) \in Int
  <1> DEFINE first == CHOOSE s \in SnapshotsSince(start) :
                        \A t \in SnapshotsSince(start) : s.takenAt <= t.takenAt
  <1>1. ASSUME SnapshotsSince(start) # {} PROVE first \in SnapshotsSince(start)
    BY <1>1 DEF TypeInv, Ordered
  <1>2. SnapshotsSince(start) \subseteq SnapshotRow
    BY DEF TypeInv, TypeOK, SnapshotsSince
  <1>3. ASSUME SnapshotsSince(start) # {} PROVE first.equity \in Int
    <2>1. first \in SnapshotRow
      BY <1>1, <1>2, <1>3
    <2> HIDE DEF first
    <2> QED BY <2>1 DEF SnapshotRow
  <1>4. DayOpeningEquity(start, fallback) =
            IF SnapshotsSince(start) = {} THEN fallback ELSE first.equity
    BY DEF DayOpeningEquity
  <1> HIDE DEF first
  <1> QED BY <1>3, <1>4

LEMMA ReadCashKeepsTypes ==
    ASSUME TypeInv, NEW e \in Executions, ReadCash(e)
    PROVE  TypeInv'
  <1> DEFINE c == [cycle[e] EXCEPT !.cash = CashOnRecord]
  <1>1. cycle[e] \in Local /\ ApprovedAt("read_cash", cycle[e])
    BY LocalFacts DEF ReadCash, Step
  <1>2. c \in Local
    BY <1>1, CashOnRecordType, Zenon DEF Local
  <1>3. ApprovedAt("read_position", c)
    BY <1>1 DEF ApprovedAt, Local, Unsubmitted
  <1>4. "read_position" \in Locations
    BY DEF Locations, Running
  <1> QED BY <1>2, <1>3, <1>4, QuietStep DEF ReadCash, Step

LEMMA ReadPositionKeepsTypes ==
    ASSUME TypeInv, NEW e \in Executions, ReadPosition(e)
    PROVE  TypeInv'
  <1> DEFINE c == [cycle[e] EXCEPT !.quantity = Held(position)]
  <1>1. cycle[e] \in Local /\ ApprovedAt("read_position", cycle[e])
    BY LocalFacts DEF ReadPosition, Step
  <1>2. Held(position) \in Nat
    BY DEF TypeInv, TypeOK, Held
  <1>3. c \in Local
    BY <1>1, <1>2, Zenon DEF Local
  <1>4. ApprovedAt("decide", c)
    BY <1>1 DEF ApprovedAt, Local, Unsubmitted
  <1>5. "decide" \in Locations
    BY DEF Locations, Running
  <1> QED BY <1>3, <1>4, <1>5, QuietStep DEF ReadPosition, Step

LEMMA DecideKeepsTypes ==
    ASSUME TypeInv, NEW e \in Executions, DecideOrder(e)
    PROVE  TypeInv'
  <1> DEFINE l == cycle[e]
             opening == OpeningFor(l)
             c == [l EXCEPT !.opening = opening]
             order == Decide(c.signal, Account(c), c.price, c.killed)
             to == IF order = Hold THEN "commit" ELSE "check"
             d == [c EXCEPT !.order = order]
  <1>1. l \in Local /\ ApprovedAt("decide", l)
    BY LocalFacts DEF DecideOrder, Step
  <1>2. l.dayStart \in Nat /\ l.cash \in Int /\ l.quantity \in Nat
        /\ l.price \in Nat \ {0} /\ l.signal \in Signal /\ l.killed \in BOOLEAN
    BY <1>1 DEF Local, ApprovedAt
  <1>3. l.cash + l.quantity * l.price \in Int
    <2>1. l.quantity * l.price \in Int
      BY <1>2, SMT
    <2> QED BY <1>2, <2>1
  <1>4. opening \in Nat \ {0}
    <2>1. opening \in Int
      BY <1>2, <1>3, DayOpeningType DEF OpeningFor
    <2>2. c.opening = opening
      BY <1>1 DEF Local
    <2>3. c.opening > 0
      BY DEF DecideOrder
    <2> QED BY <2>1, <2>2, <2>3
  <1> HIDE DEF opening
  <1>5. c \in Local
    BY <1>1, <1>4, Zenon DEF Local
  <1>6. Account(c) \in AccountState /\ Account(c).quantity = c.quantity
    BY <1>1, <1>2, <1>4 DEF Account, AccountState, Local
  <1>7. c.signal = l.signal /\ c.price = l.price /\ c.killed = l.killed
        /\ c.opening = opening /\ c.quantity = l.quantity
        /\ c.submitted = l.submitted
    BY <1>1 DEF Local
  <1>8. /\ order \in Nat
        /\ order # Hold => /\ c.signal.action \in OrderSide
                           /\ c.signal.action = "sell" => order <= c.quantity
    BY <1>2, <1>6, <1>7, DecideType
  <1>9. ~l.submitted
    BY <1>1 DEF ApprovedAt, Unsubmitted
  <1>10. Step(e, "decide", to, d) /\ UNCHANGED <<venue, database>>
    BY DEF DecideOrder, opening
  <1> HIDE DEF c, order
  <1>11. d \in Local
    BY <1>5, <1>8, Zenon DEF Local
  <1>12. d.order = order /\ d.opening = c.opening /\ d.signal = c.signal
         /\ d.price = c.price /\ d.quantity = c.quantity
         /\ d.submitted = c.submitted
    BY <1>5 DEF Local
  <1>13. ApprovedAt(to, d)
    BY <1>2, <1>4, <1>7, <1>8, <1>9, <1>12 DEF ApprovedAt, Hold, Unsubmitted
  <1>14. to \in Locations
    BY DEF Locations, Running
  <1> HIDE DEF d, to
  <1> QED BY <1>10, <1>11, <1>13, <1>14, QuietStep DEF Step

LEMMA CheckKeepsTypes ==
    ASSUME TypeInv, NEW e \in Executions, CheckDuplicate(e)
    PROVE  TypeInv'
  <1> DEFINE to == IF AlreadyExecuted(IdOf(cycle[e])) THEN "commit" ELSE "submit"
  <1>1. cycle[e] \in Local /\ ApprovedAt("check", cycle[e])
    BY LocalFacts DEF CheckDuplicate, Step
  <1>2. to \in {"commit", "submit"}
    OBVIOUS
  <1>3. Step(e, "check", to, cycle[e]) /\ UNCHANGED <<venue, database>>
    BY DEF CheckDuplicate
  <1> HIDE DEF to
  <1>4. ApprovedAt(to, cycle[e])
    BY <1>1, <1>2 DEF ApprovedAt, Unsubmitted
  <1>5. to \in Locations
    BY <1>2 DEF Locations, Running
  <1> QED BY <1>1, <1>3, <1>4, <1>5, QuietStep DEF Step

LEMMA SubmitKeepsTypes ==
    ASSUME TypeInv, NEW e \in Executions, Submit(e)
    PROVE  TypeInv'
  <1> DEFINE c == cycle[e]
             side == c.signal.action
  <1>1. PICK o \in SubmitOutcomes(side, c.order, c.price, KnownToVenue(IdOf(c))) :
            /\ Step(e, "submit", "save", Settled(c, o))
            /\ venue' = VenueAfter(c, o.executed)
            /\ UNCHANGED database
    BY DEF Submit
  <1>2. c \in Local /\ ApprovedAt("submit", c)
    BY <1>1, LocalFacts DEF Step
  <1>3. /\ side \in OrderSide
        /\ c.order \in Nat \ {0}
        /\ c.price \in Nat \ {0}
        /\ c.quantity \in Nat
        /\ c.cash \in Int
        /\ c.bar \in Nat
        /\ side = "sell" => c.order <= c.quantity
    BY <1>2 DEF ApprovedAt, Local
  <1>4. KnownToVenue(IdOf(c)) \in BOOLEAN
    BY DEF KnownToVenue
  <1>5. o \in Outcome /\ o.fill.quantity <= c.order
    BY <1>1, <1>3, <1>4, OutcomeType
  <1>6. o.fill \in Fill /\ o.executed \in Fill
    BY <1>5 DEF Outcome
  <1>7. c.cash + CashDelta(side, o.fill) \in Int
    BY <1>3, <1>6, DeltaTypes
  <1>8. c.quantity + QuantityDelta(side, o.fill) \in Nat
    <2>1. o.fill.quantity \in Nat
      BY <1>6 DEF Fill
    <2> QED BY <1>3, <1>5, <2>1 DEF QuantityDelta, OrderSide
  <1>9. Settled(c, o) \in Local
    BY <1>2, <1>5, <1>7, <1>8, Zenon DEF Settled, Local
  <1>10. ApprovedAt("save", Settled(c, o))
    <2>1. /\ Settled(c, o).opening = c.opening
          /\ Settled(c, o).price = c.price
          /\ Settled(c, o).signal = c.signal
      BY <1>2 DEF Settled, Local
    <2> QED BY <1>2, <1>3, <2>1 DEF ApprovedAt, Unsubmitted
  <1>11. "save" \in Locations
    BY DEF Locations, Running
  <1>12. ProcessTypes' /\ Approved'
    BY <1>1, <1>9, <1>10, <1>11, MoveKeepsTypes
       DEF Step, ProcessTypes, TypeInv, TypeOK
  <1>13. WorldTypes' /\ DatabaseTypes' /\ Ordered'
    BY <1>1, WorldKept, DatabaseKept DEF Step
  <1>14. venue' \subseteq VenueRow
    <2>1. IdOf(c) \in ClientOrderId
      BY <1>3 DEF IdOf, CycleId, ClientOrderId
    <2>2. [id |-> IdOf(c), bar |-> c.bar, fill |-> o.executed] \in VenueRow
      BY <1>3, <1>6, <2>1 DEF VenueRow
    <2>3. venue \subseteq VenueRow
      BY DEF TypeInv, TypeOK
    <2> QED BY <1>1, <2>2, <2>3 DEF VenueAfter
  <1>15. TypeOK'
    BY <1>12, <1>13, <1>14 DEF TypeOK, WorldTypes, DatabaseTypes, ProcessTypes
  <1> QED BY <1>12, <1>13, <1>15 DEF TypeInv

LEMMA SaveKeepsTypes ==
    ASSUME TypeInv, NEW e \in Executions, SavePosition(e)
    PROVE  TypeInv'
  <1> DEFINE c == [cycle[e] EXCEPT !.row = position]
  <1>1. cycle[e] \in Local /\ ApprovedAt("save", cycle[e])
    BY LocalFacts DEF SavePosition, Step
  <1>2. position \in Nat \cup {NoRow}
    BY DEF TypeInv, TypeOK
  <1>3. c \in Local
    BY <1>1, <1>2, Zenon DEF Local
  <1>4. ApprovedAt("commit", c)
    BY <1>1 DEF ApprovedAt, Local, Unsubmitted
  <1>5. "commit" \in Locations
    BY DEF Locations, Running
  <1> QED BY <1>3, <1>4, <1>5, QuietStep DEF SavePosition, Step

LEMMA ExitKeepsTypes ==
    ASSUME TypeInv, NEW e \in Executions, Exit(e)
    PROVE  TypeInv'
  <1> DEFINE error == cycle[e].outcome.error
             c == [Blank EXCEPT !.outcome.error = error]
  <1>1. error \in BOOLEAN
    BY LocalFacts DEF Local, Outcome
  <1>2. [NoOutcome EXCEPT !.error = error] \in Outcome
    BY <1>1 DEF NoOutcome, Outcome, NoFill, Fill, OrderStatus
  <1>3. Blank.outcome = NoOutcome
    BY DEF Blank
  <1>4. c = [Blank EXCEPT !.outcome = [NoOutcome EXCEPT !.error = error]]
    BY <1>3
  <1>5. c \in Local /\ ~c.submitted
    <2>1. c \in Local
      BY <1>2, <1>4, BlankType, Zenon DEF Local
    <2> QED BY <2>1, <1>4 DEF Blank
  <1>6. Step(e, "exit", "succeeded", c) /\ UNCHANGED <<venue, database>>
    BY DEF Exit
  <1> HIDE DEF c
  <1>7. ApprovedAt("succeeded", c)
    BY <1>5 DEF ApprovedAt
  <1>8. "succeeded" \in Locations
    BY DEF Locations, Ended
  <1> QED BY <1>5, <1>6, <1>7, <1>8, QuietStep DEF Step

(* A new row keeps the snapshots ordered: it is the latest, or it is not;  *)
(* it is the first from a given moment on, or it is not.                   *)
LEMMA RowKeepsOrder ==
    ASSUME TypeInv, NEW r \in SnapshotRow, snapshots' = snapshots \cup {r}
    PROVE  Ordered'
  <1>1. snapshots \subseteq SnapshotRow
    BY DEF TypeInv, TypeOK
  <1>2. r.takenAt \in Nat /\ \A s \in snapshots : s.takenAt \in Nat
    BY <1>1 DEF SnapshotRow
  <1>3. \E s \in snapshots' : \A t \in snapshots' : t.takenAt <= s.takenAt
    <2>1. CASE \A t \in snapshots : t.takenAt <= r.takenAt
      BY <1>2, <2>1
    <2>2. CASE \E t \in snapshots : ~(t.takenAt <= r.takenAt)
      <3>1. PICK s \in snapshots : \A t \in snapshots : t.takenAt <= s.takenAt
        BY <2>2 DEF TypeInv, Ordered
      <3>2. r.takenAt <= s.takenAt
        BY <1>2, <2>2, <3>1
      <3> QED BY <3>1, <3>2
    <2> QED BY <2>1, <2>2
  <1>4. ASSUME NEW start \in Nat, SnapshotsSince(start)' # {}
        PROVE  \E s \in SnapshotsSince(start)' :
                  \A t \in SnapshotsSince(start)' : s.takenAt <= t.takenAt
    <2> DEFINE old == SnapshotsSince(start)
               new == SnapshotsSince(start)'
    <2>1. new = IF r.takenAt >= start THEN old \cup {r} ELSE old
      BY DEF SnapshotsSince
    <2>2. \A s \in old : s \in snapshots
      BY DEF SnapshotsSince
    <2>3. old # {} => \E s \in old : \A t \in old : s.takenAt <= t.takenAt
      BY DEF TypeInv, Ordered
    <2> HIDE DEF old, new
    <2>4. CASE \A t \in old : r.takenAt <= t.takenAt
      BY <1>2, <1>4, <2>1, <2>3, <2>4 DEF new
    <2>5. CASE \E t \in old : ~(r.takenAt <= t.takenAt)
      <3>1. PICK s \in old : \A t \in old : s.takenAt <= t.takenAt
        BY <2>3, <2>5
      <3>2. s.takenAt <= r.takenAt
        BY <1>2, <2>2, <2>5, <3>1
      <3> QED BY <2>1, <3>1, <3>2 DEF new
    <2> QED BY <2>4, <2>5
  <1> QED BY <1>3, <1>4 DEF Ordered

LEMMA CommitKeepsTypes ==
    ASSUME TypeInv, NEW e \in Executions, Commit(e)
    PROVE  TypeInv'
  <1> DEFINE c == cycle[e]
             side == c.signal.action
             fill == c.outcome.fill
  <1>1. c \in Local /\ ApprovedAt("commit", c)
    BY LocalFacts DEF Commit, Step
  <1>2. /\ c.now \in Nat /\ c.bar \in Nat /\ c.price \in Nat
        /\ c.cash \in Int /\ c.quantity \in Nat
        /\ c.opening \in Nat \ {0}
        /\ c.outcome \in Outcome
        /\ c.submitted => side \in OrderSide
    BY <1>1 DEF ApprovedAt, Local
  <1>3. fill \in Fill /\ c.outcome.status \in OrderStatus
    BY <1>2 DEF Outcome
  <1>4. Step(e, "commit", "exit", c) /\ venue' = venue
    BY DEF Commit
  <1>5. ProcessTypes' /\ Approved'
    <2>1. ApprovedAt("exit", c)
      BY <1>1 DEF ApprovedAt, Unsubmitted
    <2>2. "exit" \in Locations
      BY DEF Locations, Running
    <2> QED BY <1>1, <1>4, <2>1, <2>2, MoveKeepsTypes
            DEF Step, ProcessTypes, TypeInv, TypeOK
  <1>6. WorldTypes'
    BY <1>4, WorldKept DEF Step
  <1>7. orders' \subseteq OrderRow
    <2>1. ASSUME c.submitted PROVE OrderOf(c) \in OrderRow
      <3>1. IdOf(c) \in ClientOrderId
        BY <1>2, <2>1 DEF IdOf, CycleId, ClientOrderId
      <3> QED BY <1>2, <1>3, <3>1 DEF OrderOf, OrderRow
    <2>2. orders \subseteq OrderRow
      BY DEF TypeInv, TypeOK
    <2> QED BY <2>1, <2>2 DEF Commit
  <1>8. position' \in Nat \cup {NoRow}
    BY <1>2 DEF Commit, PositionAfter, TypeInv, TypeOK
  <1>9. SnapshotOf(c) \in SnapshotRow
    <2>1. c.cash + c.quantity * c.price \in Int
      <3>1. c.quantity * c.price \in Int
        BY <1>2, SMT
      <3> QED BY <1>2, <3>1
    <2> QED BY <1>2, <2>1 DEF SnapshotOf, SnapshotRow
  <1>10. snapshots' = snapshots \cup {SnapshotOf(c)}
    BY DEF Commit
  <1>11. snapshots' \subseteq SnapshotRow
    BY <1>9, <1>10 DEF TypeInv, TypeOK
  <1>12. Ordered'
    BY <1>9, <1>10, RowKeepsOrder
  <1>13. book' \in [cash : Int, quantity : Int]
    <2>1. book \in [cash : Int, quantity : Int]
      BY DEF TypeInv, TypeOK
    <2>2. CASE c.submitted
      <3>1. CashDelta(side, fill) \in Int /\ QuantityDelta(side, fill) \in Int
        BY <1>2, <1>3, <2>2, DeltaTypes
      <3> QED BY <2>1, <2>2, <3>1 DEF Commit
    <2>3. CASE ~c.submitted
      BY <2>1, <2>3 DEF Commit
    <2> QED BY <2>2, <2>3
  <1>14. TypeOK'
    <2>1. venue' \subseteq VenueRow
      BY <1>4 DEF TypeInv, TypeOK
    <2> QED BY <1>5, <1>6, <1>7, <1>8, <1>11, <1>13, <2>1
            DEF TypeOK, WorldTypes, ProcessTypes
  <1> QED BY <1>5, <1>12, <1>14 DEF TypeInv

LEMMA StartKeepsTypes ==
    ASSUME TypeInv, NEW e \in Executions, StartAttempt(e)
    PROVE  TypeInv'
  <1> DEFINE c == [Blank EXCEPT !.killed = killSwitch.engaged,
                                !.now = clock,
                                !.dayStart = midnight,
                                !.interval = Len(market)]
  <1>1. WorldTypes /\ ProcessTypes
    BY DEF TypeInv, TypeOK, WorldTypes, ProcessTypes
  <1>2. /\ killSwitch.engaged \in BOOLEAN /\ clock \in Nat
        /\ midnight \in Nat /\ Len(market) \in Nat
    BY <1>1 DEF WorldTypes
  <1>3. c \in Local
    BY <1>2, BlankType, Zenon DEF Local
  <1>4. c.submitted = FALSE
    BY DEF Blank
  <1>5. ApprovedAt("fetch", c)
    BY <1>4 DEF ApprovedAt
  <1>6. "fetch" \in Locations
    BY DEF Locations, Running
  <1>7. /\ pc' \in [Executions -> Locations]
        /\ cycle' \in [Executions -> Local]
        /\ Approved'
    <2> HIDE DEF c
    <2>1. pc' = [pc EXCEPT ![e] = "fetch"] /\ cycle' = [cycle EXCEPT ![e] = c]
      BY DEF StartAttempt, c
    <2> QED BY <1>3, <1>5, <1>6, <2>1, MoveKeepsTypes
  <1>8. attempt' \in [Executions -> Nat]
    BY <1>1 DEF StartAttempt, ProcessTypes
  <1>9. WorldTypes'
    BY <1>1, <1>2 DEF StartAttempt, WorldTypes, world
  <1>10. DatabaseTypes' /\ Ordered'
    BY DatabaseKept DEF StartAttempt
  <1>11. venue' \subseteq VenueRow
    BY DEF StartAttempt, TypeInv, TypeOK
  <1>12. TypeOK'
    BY <1>7, <1>8, <1>9, <1>10, <1>11
       DEF TypeOK, WorldTypes, DatabaseTypes
  <1> QED BY <1>7, <1>10, <1>12 DEF TypeInv

LEMMA GiveUpKeepsTypes ==
    ASSUME TypeInv, NEW e \in Executions, GiveUp(e)
    PROVE  TypeInv'
  <1>1. cycle[e] \in Local /\ ApprovedAt("failed", cycle[e])
    BY LocalFacts DEF GiveUp
  <1>2. ApprovedAt("gave_up", cycle[e])
    BY <1>1 DEF ApprovedAt, Unsubmitted
  <1>3. "gave_up" \in Locations
    BY DEF Locations, Ended
  <1>4. cycle' = [cycle EXCEPT ![e] = cycle[e]]
    BY DEF GiveUp, TypeInv, TypeOK
  <1> QED BY <1>1, <1>2, <1>3, <1>4, QuietStep DEF GiveUp

LEMMA NextBarsAreBars ==
    ASSUME market \in Seq(Bar), market # <<>>
    PROVE  NextBars \subseteq Bar
  <1>1. market[Len(market)] \in Bar
    OBVIOUS
  <1> QED BY <1>1 DEF NextBars

LEMMA WorldStepsKeepTypes ==
    ASSUME TypeInv, NewBar \/ Reprice \/ FlipKillSwitch
    PROVE  TypeInv'
  <1>1. WorldTypes
    BY DEF TypeInv, TypeOK, WorldTypes
  <1>2. UNCHANGED <<clock, venue, pc, attempt, cycle, database>>
    BY DEF NewBar, Reprice, FlipKillSwitch
  <1>3. market' \in Seq(Bar) /\ market' # <<>>
    <2>1. market \in Seq(Bar) /\ market # <<>>
      BY <1>1 DEF WorldTypes
    <2>2. CASE NewBar
      <3>1. PICK b \in Bar : market' = Append(market, b)
        BY <2>1, <2>2, NextBarsAreBars DEF NewBar
      <3> QED BY <2>1, <3>1
    <2>3. CASE Reprice
      <3>1. PICK b \in Bar : market' = [market EXCEPT ![Len(market)] = b]
        BY <2>3 DEF Reprice
      <3> QED BY <2>1, <3>1
    <2>4. CASE FlipKillSwitch
      BY <2>1, <2>4 DEF FlipKillSwitch
    <2> QED BY <2>2, <2>3, <2>4
  <1>4. midnight' \in 0 .. clock'
    BY <1>1, <1>2 DEF WorldTypes, NewBar, Reprice, FlipKillSwitch
  <1>5. killSwitch' \in [engaged : BOOLEAN, since : 0 .. clock', flips : Nat]
    <2>1. /\ clock \in Nat /\ clock' = clock
          /\ killSwitch \in [engaged : BOOLEAN, since : 0 .. clock, flips : Nat]
      BY <1>1, <1>2 DEF WorldTypes
    <2>2. CASE NewBar \/ Reprice
      BY <2>1, <2>2 DEF NewBar, Reprice
    <2>3. CASE FlipKillSwitch
      <3>1. killSwitch.flips + 1 \in Nat /\ clock \in 0 .. clock
        BY <2>1
      <3>2. (~killSwitch.engaged) \in BOOLEAN
        OBVIOUS
      <3> QED BY <2>1, <2>3, <3>1, <3>2 DEF FlipKillSwitch
    <2> QED BY <2>2, <2>3
  <1>6. DatabaseTypes' /\ Ordered'
    BY <1>2, DatabaseKept
  <1>7. TypeOK'
    BY <1>1, <1>2, <1>3, <1>4, <1>5, <1>6
       DEF TypeInv, TypeOK, WorldTypes, DatabaseTypes
  <1>8. Approved'
    BY <1>2 DEF TypeInv, Approved
  <1> QED BY <1>6, <1>7, <1>8 DEF TypeInv

-----------------------------------------------------------------------------
LEMMA InitTypes == Init => TypeInv
  <1> SUFFICES ASSUME Init PROVE TypeInv
    OBVIOUS
  <1>1. WorldTypes
    BY DEF Init, WorldTypes
  <1>2. DatabaseTypes /\ venue \subseteq VenueRow
    BY CycleAssumption DEF Init, DatabaseTypes
  <1>3. ProcessTypes
    BY BlankType DEF Init, ProcessTypes, Locations
  <1>4. Approved
    BY BlankType DEF Init, Approved
  <1>5. Ordered
    BY DEF Init, Ordered, SnapshotsSince
  <1> QED BY <1>1, <1>2, <1>3, <1>4, <1>5, TypeOKParts DEF TypeInv

LEMMA NextKeepsTypes == TypeInv /\ [Next]_vars => TypeInv'
  <1> SUFFICES ASSUME TypeInv, [Next]_vars PROVE TypeInv'
    OBVIOUS
  <1>1. CASE NewBar \/ Reprice \/ FlipKillSwitch
    BY <1>1, WorldStepsKeepTypes
  <1>2. ASSUME NEW e \in Executions,
               Launch(e) \/ Platform(e) \/ Attempt(e) \/ Abort(e)
        PROVE  TypeInv'
    <2>1. CASE Launch(e) \/ Retry(e)
      BY <2>1, StartKeepsTypes DEF Launch, Retry
    <2>2. CASE GiveUp(e)
      BY <2>2, GiveUpKeepsTypes
    <2>3. CASE Abort(e) \/ FetchStale(e) \/ OpeningInvalid(e) \/ CommitConflict(e)
      BY <2>3, FailKeepsTypes
         DEF Abort, FetchStale, OpeningInvalid, CommitConflict
    <2>4. CASE Fetch(e)
      BY <2>4, FetchKeepsTypes
    <2>5. CASE ReadCash(e)
      BY <2>5, ReadCashKeepsTypes
    <2>6. CASE ReadPosition(e)
      BY <2>6, ReadPositionKeepsTypes
    <2>7. CASE DecideOrder(e)
      BY <2>7, DecideKeepsTypes
    <2>8. CASE CheckDuplicate(e)
      BY <2>8, CheckKeepsTypes
    <2>9. CASE Submit(e)
      BY <2>9, SubmitKeepsTypes
    <2>10. CASE SavePosition(e)
      BY <2>10, SaveKeepsTypes
    <2>11. CASE Commit(e)
      BY <2>11, CommitKeepsTypes
    <2>12. CASE Exit(e)
      BY <2>12, ExitKeepsTypes
    <2> QED BY <1>2, <2>1, <2>2, <2>3, <2>4, <2>5, <2>6, <2>7, <2>8, <2>9,
               <2>10, <2>11, <2>12 DEF Attempt, Platform
  <1>3. CASE UNCHANGED vars
    <2>1. UNCHANGED <<world, clock>> /\ UNCHANGED database
          /\ UNCHANGED <<venue, pc, attempt, cycle>>
      BY <1>3 DEF vars, world, database
    <2>2. WorldTypes' /\ DatabaseTypes' /\ Ordered'
      BY <2>1, WorldKept, DatabaseKept
    <2>3. TypeOK'
      BY <2>1, <2>2 DEF TypeInv, TypeOK, WorldTypes, DatabaseTypes
    <2>4. Approved'
      BY <2>1 DEF TypeInv, Approved
    <2> QED BY <2>2, <2>3, <2>4 DEF TypeInv
  <1> QED BY <1>1, <1>2, <1>3 DEF Next

LEMMA TypeInvariant == Spec => []TypeInv
  BY InitTypes, NextKeepsTypes, PTL DEF Spec

(* Type correctness for every number of executions, retries and bars and   *)
(* for every backend: no cycle ever holds, books or records a negative     *)
(* quantity, and no ledger row loses its type.                             *)
THEOREM TypeCorrect == Spec => []TypeOK
  <1>1. TypeInv => TypeOK
    BY DEF TypeInv
  <1> QED BY <1>1, TypeInvariant, PTL
=============================================================================
