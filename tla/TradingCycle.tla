---------------------------- MODULE TradingCycle ----------------------------
(***************************************************************************)
(* The trading job: executions of main() (__main__.py), each running one   *)
(* TradingCycle (cycle.py) inside one database transaction                 *)
(* (persistence/repository.py) against one exchange, with the risk policy  *)
(* and the ledger arithmetic of the modules this one extends.              *)
(*                                                                         *)
(* An execution is started by the cron schedule or by hand and is retried  *)
(* by the platform when it fails.  Within an execution every statement     *)
(* that reads or writes something shared is an action of its own: the      *)
(* process start (environment and clock), the market data call, the three  *)
(* ledger reads, the duplicate check, the order submission, the re-read of *)
(* the position row, the commit.  Rows become visible at the commit; a     *)
(* unique violation, an error or a killed process rolls everything back.   *)
(***************************************************************************)
EXTENDS RiskPolicy, Exchange, Sequences

CONSTANTS
    Executions,         \* job executions
    MaxRetries,         \* replica_retry_limit
    Overlap,            \* may one execution start before another has ended?
    BarsChange,         \* may what the exchange shows of the newest bar
                        \* still change?
    MaxSnapshotAge,     \* MAX_SNAPSHOT_AGE_FACTOR, in bars
    Prices,             \* the prices a bar may close at
    Strengths,          \* the strengths a signal may have
    InitialCashQuote,   \* the cash of an empty database
    BarsPerDay,         \* bars in a UTC day
    MaxBars,            \* bound: bars in a behaviour
    MaxSwitches         \* bound: flips of the kill switch

ASSUME CycleAssumption ==
    /\ MaxRetries \in Nat
    /\ Overlap \in BOOLEAN
    /\ BarsChange \in BOOLEAN
    /\ MaxSnapshotAge \in Nat \ {0}
    /\ Prices \subseteq Nat \ {0}
    /\ Strengths \subseteq 0 .. StrengthUnit
    /\ InitialCashQuote \in Nat \ {0}
    /\ BarsPerDay \in Nat \ {0}
    /\ MaxBars \in Nat \ {0}
    /\ MaxSwitches \in Nat

VARIABLES
    market,      \* the bars the exchange has shown, each with what the strategy
                 \* says of it: [price, signal]
    clock,       \* counts the readings of the wall clock
    midnight,    \* the clock at the last UTC midnight
    killSwitch,  \* the kill switch setting: [engaged, since, flips]
    orders,      \* table orders, each row with its fill
    position,    \* table positions: the quantity held, or NoRow
    snapshots,   \* table equity_snapshots
    venue,       \* the orders a ccxt venue executed
    pc,          \* pc[e]: where execution e is
    attempt,     \* attempt[e]: the attempts execution e has started
    cycle,       \* cycle[e]: the local variables of e's running attempt
    book         \* history: the fills committed so far, added up

database == <<orders, position, snapshots, book>>
world == <<market, midnight, killSwitch>>
vars == <<market, clock, midnight, killSwitch, orders, position, snapshots,
          venue, pc, attempt, cycle, book>>

-----------------------------------------------------------------------------
NoRow == -1

(* A hold has strength 0; a buy or a sell has the strength of its cross.   *)
Signals == {[action |-> "hold", strength |-> 0]}
           \cup [action : OrderSide, strength : Strengths]

Bar == [price : Prices, signal : Signals]

(* A client order id: the cycle id and the side. *)
ClientOrderId == [cycleId : Nat, side : OrderSide]

OrderRow == [id : ClientOrderId, bar : Nat, status : OrderStatus, fill : Fill]

SnapshotRow == [takenAt : Nat, price : Nat, cash : Int, quantity : Nat,
                equity : Int, opening : Nat \ {0}]

VenueRow == [id : ClientOrderId, bar : Nat, fill : Fill]

(* The local variables of an attempt, with the values they have before     *)
(* they are assigned.  order is the approved quantity, outcome what submit *)
(* returned, row the position row save_position found.                     *)
NoOutcome == [status |-> "rejected", fill |-> NoFill, executed |-> NoFill,
              error |-> FALSE]

Blank == [killed |-> FALSE, now |-> 0, dayStart |-> 0, interval |-> 0,
          bar |-> 0, price |-> 0,
          signal |-> [action |-> "hold", strength |-> 0],
          cash |-> 0, quantity |-> 0, opening |-> 0, order |-> Hold,
          submitted |-> FALSE, outcome |-> NoOutcome, row |-> NoRow]

Local == [killed : BOOLEAN, now : Nat, dayStart : Nat, interval : Nat,
          bar : Nat, price : Nat, signal : Signal,
          cash : Int, quantity : Nat, opening : Nat, order : Nat,
          submitted : BOOLEAN, outcome : Outcome, row : Nat \cup {NoRow}]

(* Where an attempt is: named for what it is about to do. *)
Running == {"fetch", "read_cash", "read_position", "decide", "check",
            "submit", "save", "commit", "exit"}
Ended == {"succeeded", "gave_up"}
Locations == {"idle", "failed"} \cup Running \cup Ended

Active(e) == pc[e] \notin {"idle"} \cup Ended

-----------------------------------------------------------------------------
(* What the repository reads. *)

\* A mutant of LatestSnapshot: the oldest row instead of the newest.
LatestSnapshotAscending ==
    CHOOSE s \in snapshots : \A t \in snapshots : s.takenAt <= t.takenAt

LatestSnapshot ==
    CHOOSE s \in snapshots : \A t \in snapshots : t.takenAt <= s.takenAt

CashOnRecord ==
    IF snapshots = {} THEN InitialCashQuote ELSE LatestSnapshot.cash

Held(row) == IF row = NoRow THEN 0 ELSE row

SnapshotsSince(start) == {s \in snapshots : s.takenAt >= start}

\* A mutant of DayOpeningEquity: the day's last snapshot instead of its first.
DayOpeningEquityLast(start, fallback) ==
    IF SnapshotsSince(start) = {} THEN fallback
    ELSE (CHOOSE s \in SnapshotsSince(start) :
            \A t \in SnapshotsSince(start) : t.takenAt <= s.takenAt).equity

DayOpeningEquity(start, fallback) ==
    IF SnapshotsSince(start) = {} THEN fallback
    ELSE (CHOOSE s \in SnapshotsSince(start) :
            \A t \in SnapshotsSince(start) : s.takenAt <= t.takenAt).equity

AlreadyExecuted(id) == \E o \in orders : o.id = id

-----------------------------------------------------------------------------
(* The identity of a cycle and of its order. *)

\* A mutant of CycleId: the wall clock instead of the bar.
CycleIdFromClock(c) == c.now

CycleId(c) == c.bar

IdOf(c) == [cycleId |-> CycleId(c), side |-> c.signal.action]

Account(c) == [cash |-> c.cash, quantity |-> c.quantity, opening |-> c.opening]

KnownToVenue(id) == \E v \in venue : v.id = id

-----------------------------------------------------------------------------
Init ==
    /\ \E b \in Bar : market = <<b>>
    /\ clock = 0
    /\ midnight = 0
    /\ killSwitch \in [engaged : BOOLEAN, since : {0}, flips : {0}]
    /\ orders = {}
    /\ position = NoRow
    /\ snapshots = {}
    /\ venue = {}
    /\ pc = [e \in Executions |-> "idle"]
    /\ attempt = [e \in Executions |-> 0]
    /\ cycle = [e \in Executions |-> Blank]
    /\ book = [cash |-> InitialCashQuote, quantity |-> 0]

-----------------------------------------------------------------------------
(* The world around the job. *)

(* A venue's next bar may be any bar.  The simulator seeds its generator    *)
(* from the configuration alone, so it shows the same closes at every call *)
(* and only their times move: its next bar repeats the last.               *)
NextBars == IF Backend = "simulated" THEN {market[Len(market)]} ELSE Bar

(* The exchange shows the next bar; the first bar of a day brings midnight.*)
NewBar ==
    /\ Len(market) < MaxBars
    /\ \E b \in NextBars : market' = Append(market, b)
    /\ midnight' = IF Len(market) % BarsPerDay = 0 THEN clock ELSE midnight
    /\ UNCHANGED <<clock, killSwitch, venue, pc, attempt, cycle, database>>

(* The exchange shows another newest bar: on a venue because the bar is    *)
(* still forming, on the simulator because other settings (its seed, its   *)
(* start price, the strategy's windows) have been deployed.                *)
Reprice ==
    /\ BarsChange
    /\ \E b \in Bar : market' = [market EXCEPT ![Len(market)] = b]
    /\ UNCHANGED <<clock, midnight, killSwitch, venue, pc, attempt, cycle,
                   database>>

(* The operator sets the kill-switch secret. *)
FlipKillSwitch ==
    /\ killSwitch.flips < MaxSwitches
    /\ killSwitch' = [engaged |-> ~killSwitch.engaged, since |-> clock,
                      flips |-> killSwitch.flips + 1]
    /\ UNCHANGED <<market, clock, midnight, venue, pc, attempt, cycle,
                   database>>

-----------------------------------------------------------------------------
(* The platform. *)

(* A process starts: Settings() fixes the kill switch, the cycle reads the *)
(* clock.                                                                  *)
StartAttempt(e) ==
    /\ pc' = [pc EXCEPT ![e] = "fetch"]
    /\ attempt' = [attempt EXCEPT ![e] = @ + 1]
    /\ cycle' = [cycle EXCEPT ![e] =
                    [Blank EXCEPT !.killed = killSwitch.engaged,
                                  !.now = clock,
                                  !.dayStart = midnight,
                                  !.interval = Len(market)]]
    /\ clock' = clock + 1
    /\ UNCHANGED <<world, venue, database>>

Launch(e) ==
    /\ pc[e] = "idle"
    /\ Overlap \/ \A other \in Executions : ~Active(other)
    /\ StartAttempt(e)

Retry(e) ==
    /\ pc[e] = "failed"
    /\ attempt[e] <= MaxRetries
    /\ StartAttempt(e)

\* A mutant of GiveUp: off by one, the last failure is never reported.
GiveUpLate(e) ==
    /\ pc[e] = "failed"
    /\ attempt[e] > MaxRetries + 1
    /\ pc' = [pc EXCEPT ![e] = "gave_up"]
    /\ UNCHANGED <<world, clock, venue, attempt, cycle, database>>

GiveUp(e) ==
    /\ pc[e] = "failed"
    /\ attempt[e] > MaxRetries
    /\ pc' = [pc EXCEPT ![e] = "gave_up"]
    /\ UNCHANGED <<world, clock, venue, attempt, cycle, database>>

(* The attempt ends with a non-zero exit.  Its session closes without a    *)
(* commit, so nothing it added to the session reaches a table.             *)
Fail(e) ==
    /\ pc' = [pc EXCEPT ![e] = "failed"]
    /\ cycle' = [cycle EXCEPT ![e] = Blank]
    /\ UNCHANGED <<world, clock, attempt, database>>

(* An exception, a timeout or a lost node, at any point: before the commit *)
(* or, when flushing the telemetry, after it.                              *)
Abort(e) ==
    /\ pc[e] \in Running
    /\ Fail(e)
    /\ UNCHANGED venue

-----------------------------------------------------------------------------
(* The steps of an attempt. *)

Step(e, from, to, c) ==
    /\ pc[e] = from
    /\ pc' = [pc EXCEPT ![e] = to]
    /\ cycle' = [cycle EXCEPT ![e] = c]
    /\ UNCHANGED <<world, clock, attempt>>

(* The simulator shows the newest bar; a venue may answer with old data.   *)
Visible ==
    IF Backend = "simulated" THEN {Len(market)} ELSE 1 .. Len(market)

IsStale(bar, interval) == interval - bar >= MaxSnapshotAge

Fetch(e) ==
    \E b \in Visible :
        /\ ~IsStale(b, cycle[e].interval)
        /\ Step(e, "fetch", "read_cash",
                [cycle[e] EXCEPT !.bar = b,
                                 !.price = market[b].price,
                                 !.signal = market[b].signal])
        /\ UNCHANGED <<venue, database>>

FetchStale(e) ==
    /\ pc[e] = "fetch"
    /\ \E b \in Visible : IsStale(b, cycle[e].interval)
    /\ Fail(e)
    /\ UNCHANGED venue

ReadCash(e) ==
    /\ Step(e, "read_cash", "read_position",
            [cycle[e] EXCEPT !.cash = CashOnRecord])
    /\ UNCHANGED <<venue, database>>

ReadPosition(e) ==
    /\ Step(e, "read_position", "decide",
            [cycle[e] EXCEPT !.quantity = Held(position)])
    /\ UNCHANGED <<venue, database>>

(* The day's opening is read last; an opening that is not positive fails   *)
(* the validation of AccountState.                                         *)
OpeningFor(c) ==
    DayOpeningEquity(c.dayStart, c.cash + c.quantity * c.price)

OpeningInvalid(e) ==
    /\ pc[e] = "decide"
    /\ OpeningFor(cycle[e]) <= 0
    /\ Fail(e)
    /\ UNCHANGED venue

DecideOrder(e) ==
    LET c == [cycle[e] EXCEPT !.opening = OpeningFor(cycle[e])]
        order == Decide(c.signal, Account(c), c.price, c.killed)
    IN  /\ c.opening > 0
        /\ Step(e, "decide", IF order = Hold THEN "commit" ELSE "check",
                [c EXCEPT !.order = order])
        /\ UNCHANGED <<venue, database>>

\* A mutant of CheckDuplicate: the earlier order is not looked for.
CheckNothing(e) ==
    /\ Step(e, "check", "submit", cycle[e])
    /\ UNCHANGED <<venue, database>>

CheckDuplicate(e) ==
    /\ Step(e, "check",
            IF AlreadyExecuted(IdOf(cycle[e])) THEN "commit" ELSE "submit",
            cycle[e])
    /\ UNCHANGED <<venue, database>>

(* The venue's memory after it executed fill for the order of c. *)
VenueAfter(c, fill) ==
    IF fill = NoFill THEN venue
    ELSE venue \cup {[id |-> IdOf(c), bar |-> c.bar, fill |-> fill]}

(* record_execution and apply_execution. *)
Settled(c, o) ==
    [c EXCEPT !.submitted = TRUE,
              !.outcome = o,
              !.cash = @ + CashDelta(c.signal.action, o.fill),
              !.quantity = @ + QuantityDelta(c.signal.action, o.fill)]

Submit(e) ==
    LET c == cycle[e]
    IN  \E o \in SubmitOutcomes(c.signal.action, c.order, c.price,
                                KnownToVenue(IdOf(c))) :
            /\ Step(e, "submit", "save", Settled(c, o))
            /\ venue' = VenueAfter(c, o.executed)
            /\ UNCHANGED database

(* save_position looks the row up again: it decides between INSERT and     *)
(* UPDATE, and an unchanged column is not part of an UPDATE.               *)
SavePosition(e) ==
    /\ Step(e, "save", "commit", [cycle[e] EXCEPT !.row = position])
    /\ UNCHANGED <<venue, database>>

\* A mutant of PositionAfter: the first position is never inserted.
PositionAfterUpdateOnly(c) ==
    IF ~c.submitted \/ c.row = NoRow THEN position ELSE c.quantity

PositionAfter(c) ==
    IF ~c.submitted \/ c.quantity = c.row THEN position ELSE c.quantity

OrderOf(c) ==
    [id |-> IdOf(c), bar |-> c.bar, status |-> c.outcome.status,
     fill |-> c.outcome.fill]

SnapshotOf(c) ==
    [takenAt |-> c.now, price |-> c.price, cash |-> c.cash,
     quantity |-> c.quantity, equity |-> c.cash + c.quantity * c.price,
     opening |-> c.opening]

(* client_order_id and the symbol of a position are unique. *)
Conflicts(c) ==
    /\ c.submitted
    /\ AlreadyExecuted(IdOf(c)) \/ (c.row = NoRow /\ position # NoRow)

\* A mutant of CommitConflict: main catches the error and reports success.
CommitConflictSwallowed(e) ==
    /\ pc[e] = "commit"
    /\ Conflicts(cycle[e])
    /\ Step(e, "commit", "exit", cycle[e])
    /\ UNCHANGED <<venue, database>>

CommitConflict(e) ==
    /\ pc[e] = "commit"
    /\ Conflicts(cycle[e])
    /\ Fail(e)
    /\ UNCHANGED venue

Commit(e) ==
    LET c == cycle[e]
    IN  /\ ~Conflicts(c)
        /\ Step(e, "commit", "exit", c)
        /\ orders' = IF c.submitted THEN orders \cup {OrderOf(c)} ELSE orders
        /\ position' = PositionAfter(c)
        /\ snapshots' = snapshots \cup {SnapshotOf(c)}
        /\ book' = IF c.submitted
                   THEN [cash |-> book.cash
                           + CashDelta(c.signal.action, c.outcome.fill),
                         quantity |-> book.quantity
                           + QuantityDelta(c.signal.action, c.outcome.fill)]
                   ELSE book
        /\ UNCHANGED venue

(* The process is gone; whether its order met an error is remembered.      *)
Exit(e) ==
    /\ Step(e, "exit", "succeeded",
            [Blank EXCEPT !.outcome.error = cycle[e].outcome.error])
    /\ UNCHANGED <<venue, database>>

-----------------------------------------------------------------------------
Attempt(e) ==
    \/ Fetch(e) \/ FetchStale(e)
    \/ ReadCash(e) \/ ReadPosition(e)
    \/ OpeningInvalid(e) \/ DecideOrder(e)
    \/ CheckDuplicate(e) \/ Submit(e) \/ SavePosition(e)
    \/ CommitConflict(e) \/ Commit(e) \/ Exit(e)

Platform(e) == Retry(e) \/ GiveUp(e)

Next ==
    \/ NewBar \/ Reprice \/ FlipKillSwitch
    \/ \E e \in Executions : Launch(e) \/ Platform(e) \/ Attempt(e) \/ Abort(e)

Spec == Init /\ [][Next]_vars

(* A process that runs keeps running, and the platform acts on a failed    *)
(* one.  Nothing obliges anybody to launch an execution.                   *)
Fairness == \A e \in Executions : WF_vars(Attempt(e)) /\ WF_vars(Platform(e))

FairSpec == Spec /\ Fairness

-----------------------------------------------------------------------------
(* Properties. *)

(* Every variable keeps its type: in particular the quantity held never    *)
(* goes below zero, however sizes are rounded and fills are applied        *)
(* (Position.quantity, Field(ge=0)).                                       *)
TypeOK ==
    /\ market \in Seq(Bar) /\ market # <<>>
    /\ clock \in Nat
    /\ midnight \in 0 .. clock
    /\ killSwitch \in [engaged : BOOLEAN, since : 0 .. clock, flips : Nat]
    /\ orders \subseteq OrderRow
    /\ position \in Nat \cup {NoRow}
    /\ snapshots \subseteq SnapshotRow
    /\ venue \subseteq VenueRow
    /\ pc \in [Executions -> Locations]
    /\ attempt \in [Executions -> Nat]
    /\ cycle \in [Executions -> Local]
    /\ book \in [cash : Int, quantity : Int]

(* "Cash and position are derived from the fills the bot recorded, and     *)
(* cash is carried forward by the most recent equity_snapshots row"        *)
(* (ADR-0005): what the next cycle will read is the initial cash and the   *)
(* committed fills added up.                                               *)
LedgerMatchesFills ==
    /\ CashOnRecord = book.cash
    /\ Held(position) = book.quantity

(* Two cycles within one bar are one cycle (ADR-0006): one order row per   *)
(* bar at most, whatever overlaps, crashes and retries.                    *)
OneOrderPerBar == \A o, p \in orders : o.bar = p.bar => o = p

(* The same of the venue, which also keeps what the database rolled back.  *)
VenueTradesBarOnce == \A v, w \in venue : v.bar = w.bar => v = w

(* What is left of both when bars are acted on while they still form: the   *)
(* side of a client order id keeps a bar from being bought or sold twice.  *)
OnePerBarAndSide(rows) ==
    \A r, s \in rows : r.bar = s.bar /\ r.id.side = s.id.side => r = s

OneOrderPerBarAndSide == OnePerBarAndSide(orders) /\ OnePerBarAndSide(venue)

(* A fill is booked only as the venue made it: no row of the ledger        *)
(* invents, doubles or alters an execution.                                *)
BookedOnlyWhatVenueExecuted ==
    \A o \in orders : o.status # "rejected" =>
        \E v \in venue : v.id = o.id /\ v.fill = o.fill

(* All the cycles of a day after its first measure their loss against the  *)
(* same number, the equity of that first one (day_opening_equity).         *)
OneOpeningPerDay ==
    \A s, t \in SnapshotsSince(midnight) :
        (/\ \A u \in SnapshotsSince(midnight) : s.takenAt <= u.takenAt
         /\ s # t) => t.opening = s.equity

(* Snapshot t is the first one after s, or the first one of all. *)
Follows(s, t) ==
    /\ s.takenAt < t.takenAt
    /\ \A u \in snapshots : u.takenAt <= s.takenAt \/ t.takenAt <= u.takenAt

IsFirst(t) == \A u \in snapshots : t.takenAt <= u.takenAt

(* Slippage, fees and rounding always work against the bot: valued at the  *)
(* price its cycle saw, the account a cycle leaves is never worth more     *)
(* than the account it found, whether it bought, sold or held              *)
(* (_signed_slippage, _round, apply_execution).                            *)
SimulatorNeverFlatters ==
    Backend = "simulated" =>
        \A t \in snapshots :
            /\ IsFirst(t) => t.equity <= InitialCashQuote
            /\ \A s \in snapshots :
                  Follows(s, t) => t.equity <= s.cash + s.quantity * t.price

(* When executions do not overlap, the look-up before the submission finds *)
(* every earlier order of the bar: no commit fails on a unique constraint, *)
(* so a replay is a success and not a failed execution.                    *)
ReplaysAreCaughtEarly ==
    \A e \in Executions : pc[e] = "commit" => ~Conflicts(cycle[e])

(* Execution e sends its order in this step. *)
Submits(e) == pc[e] = "submit" /\ pc'[e] = "save"

(* An order fits the fills the ledger has really recorded at the moment it *)
(* is sent, not only the state its cycle read earlier: a buy stays within  *)
(* the position limit and the cash on hand, a sale within what is held.    *)
FitsBook(c) ==
    IF c.signal.action = "buy"
    THEN /\ (book.quantity + c.order) * c.price <= MaxPositionQuote
         /\ c.order * c.price <= book.cash
    ELSE c.order <= book.quantity

OrdersFitTheBook ==
    [][\A e \in Executions : Submits(e) => FitsBook(cycle[e])]_vars

(* No order is sent once the recorded fills, at the price the cycle saw,   *)
(* have lost the daily limit against the day's opening.                    *)
WithinLossBudget(c) ==
    LET equity == book.cash + book.quantity * c.price
    IN  equity - DayOpeningEquity(c.dayStart, equity) > -MaxDailyLossQuote

OrdersWithinLossBudget ==
    [][\A e \in Executions : Submits(e) => WithinLossBudget(cycle[e])]_vars

(* While the kill switch is engaged, only a process that was started       *)
(* before it was engaged may still send an order.                          *)
EngagedSwitchStopsNewCycles ==
    [][\A e \in Executions :
        Submits(e) /\ killSwitch.engaged => cycle[e].now < killSwitch.since]_vars

(* Every execution that starts ends, in success or in a reported failure.  *)
EveryExecutionEnds ==
    \A e \in Executions : pc[e] = "fetch" ~> pc[e] \in Ended

(* The runbook's reading of the daily loss limit: a drawdown larger than   *)
(* the limit allows does not happen.  A fall between two cycles may take   *)
(* the first snapshot below the limit; the later ones of the day should    *)
(* then show no larger loss.                                               *)
LossStopsAtLimit ==
    \A s, t \in SnapshotsSince(midnight) :
        s.takenAt < t.takenAt /\ s.opening - s.equity >= MaxDailyLossQuote
            => t.opening - t.equity <= s.opening - s.equity

(* "A transient venue error deserves a second attempt" (container_apps):   *)
(* an execution whose order met one does not end in success.               *)
VenueErrorsAreRetried ==
    \A e \in Executions : pc[e] = "succeeded" => ~cycle[e].outcome.error
=============================================================================
