---------------------------- MODULE OverlapProofs ----------------------------
(***************************************************************************)
(* What executions keep however they overlap, crash and are retried: the   *)
(* properties of TradingCycle that need no order between executions.       *)
(***************************************************************************)
EXTENDS TradingCycleProofs, LedgerRefinement

-----------------------------------------------------------------------------
(* The shapes of a step.  Most invariants only ask which of these a step   *)
(* has, and what it does to the instant, the switch and the bar its        *)
(* attempt started from.                                                   *)

Moves(e, to, c) ==
    /\ pc' = [pc EXCEPT ![e] = to]
    /\ cycle' = [cycle EXCEPT ![e] = c]

OutsideStep ==
    /\ UNCHANGED <<clock, venue, pc, attempt, cycle, database>>
    /\ killSwitch' = killSwitch \/ killSwitch'.since = clock
    /\ midnight' = midnight \/ midnight' = clock

StartStep(e) ==
    /\ \/ pc[e] = "failed"
       \/ pc[e] = "idle" /\ (Overlap \/ \A x \in Executions : ~Active(x))
    /\ StartAttempt(e)

(* An attempt ends, well or not, or the platform gives up. *)
EndStep(e, to, c) ==
    /\ \/ pc[e] \in Running /\ to = "failed"
       \/ pc[e] = "exit" /\ to = "succeeded"
       \/ pc[e] = "failed" /\ to = "gave_up"
    /\ c \in Local /\ (~c.submitted \/ c = cycle[e])
    /\ Moves(e, to, c)
    /\ UNCHANGED <<world, clock, venue, database>>

(* An attempt gets further. *)
Further(e, to, c) ==
    /\ pc[e] \in Running \ {"exit"}
    /\ to \in Running \ {"fetch"}
    /\ c \in Local
    /\ c.now = cycle[e].now /\ c.killed = cycle[e].killed
    /\ c.dayStart = cycle[e].dayStart
    /\ Moves(e, to, c)
    /\ UNCHANGED <<world, clock>>

(* It gets further before its commit.  Only an unstopped cycle gets an     *)
(* order approved, and an order that is waiting does not change.           *)
QuietFurther(e, to, c) ==
    /\ Further(e, to, c)
    /\ pc[e] # "commit" /\ to # "exit"
    /\ to = "check" => ~c.killed
    /\ to = "submit" => pc[e] = "check"
    /\ UNCHANGED database

LEMMA MovedTo ==
    ASSUME TypeInv, NEW e \in Executions, NEW to, NEW c, Moves(e, to, c)
    PROVE  /\ pc'[e] = to /\ cycle'[e] = c
           /\ \A x \in Executions : x # e => pc'[x] = pc[x] /\ cycle'[x] = cycle[x]
  BY DEF Moves, TypeInv, TypeOK

-----------------------------------------------------------------------------
LEMMA FetchShape ==
    ASSUME TypeInv, NEW e \in Executions, Fetch(e)
    PROVE  \E c : /\ QuietFurther(e, "read_cash", c) /\ pc[e] = "fetch"
                  /\ venue' = venue /\ ~c.submitted
                  /\ c.bar \in 1 .. Len(market)
                  /\ c.price = market[c.bar].price
  <1>1. PICK b \in Visible :
            /\ Step(e, "fetch", "read_cash",
                    [cycle[e] EXCEPT !.bar = b,
                                     !.price = market[b].price,
                                     !.signal = market[b].signal])
            /\ UNCHANGED <<venue, database>>
    BY DEF Fetch
  <1> DEFINE c == [cycle[e] EXCEPT !.bar = b,
                                   !.price = market[b].price,
                                   !.signal = market[b].signal]
  <1>2. b \in 1 .. Len(market)
    BY DEF Visible, TypeInv, TypeOK
  <1>3. market[b].price \in Nat /\ market[b].signal \in Signal
    BY <1>2, BarFacts
  <1>4. cycle[e] \in Local /\ ApprovedAt("fetch", cycle[e])
    BY <1>1, LocalFacts DEF Step
  <1>5. c \in Local
    <2>1. b \in Nat
      BY <1>2
    <2> QED BY <1>3, <1>4, <2>1, Zenon DEF Local
  <1>6. /\ c.now = cycle[e].now /\ c.killed = cycle[e].killed
        /\ c.dayStart = cycle[e].dayStart /\ c.bar = b
        /\ c.price = market[b].price /\ ~c.submitted
    BY <1>4 DEF Local, ApprovedAt, Unsubmitted
  <1> HIDE DEF c
  <1>7. Further(e, "read_cash", c)
    BY <1>1, <1>5, <1>6 DEF Further, Moves, Step, Running, c
  <1> QED BY <1>1, <1>2, <1>6, <1>7 DEF QuietFurther, Step

(* What identifies an order and what became of it. *)
SameOrder(c, d) ==
    /\ d.signal = c.signal /\ d.bar = c.bar /\ d.price = c.price
    /\ d.submitted = c.submitted /\ d.outcome = c.outcome

LEMMA ReadCashShape ==
    ASSUME TypeInv, NEW e \in Executions, ReadCash(e)
    PROVE  \E c : /\ QuietFurther(e, "read_position", c)
                  /\ pc[e] = "read_cash" /\ venue' = venue
                  /\ SameOrder(cycle[e], c) /\ c.cash = CashOnRecord
  <1> DEFINE c == [cycle[e] EXCEPT !.cash = CashOnRecord]
  <1>1. Step(e, "read_cash", "read_position", c) /\ UNCHANGED <<venue, database>>
    BY DEF ReadCash
  <1>2. cycle[e] \in Local
    BY LocalFacts
  <1>3. c \in Local
    BY <1>2, CashOnRecordType, Zenon DEF Local
  <1>4. /\ c.now = cycle[e].now /\ c.killed = cycle[e].killed
        /\ c.dayStart = cycle[e].dayStart /\ c.cash = CashOnRecord
        /\ SameOrder(cycle[e], c)
    BY <1>2 DEF Local, SameOrder
  <1> HIDE DEF c
  <1>5. Further(e, "read_position", c)
    BY <1>1, <1>3, <1>4 DEF Further, Moves, Step, Running
  <1> QED BY <1>1, <1>4, <1>5 DEF QuietFurther, Step

LEMMA ReadPositionShape ==
    ASSUME TypeInv, NEW e \in Executions, ReadPosition(e)
    PROVE  \E c : /\ QuietFurther(e, "decide", c)
                  /\ pc[e] = "read_position" /\ venue' = venue
                  /\ SameOrder(cycle[e], c)
                  /\ c.cash = cycle[e].cash /\ c.quantity = Held(position)
  <1> DEFINE c == [cycle[e] EXCEPT !.quantity = Held(position)]
  <1>1. Step(e, "read_position", "decide", c) /\ UNCHANGED <<venue, database>>
    BY DEF ReadPosition
  <1>2. cycle[e] \in Local
    BY LocalFacts
  <1>3. Held(position) \in Nat
    BY DEF TypeInv, TypeOK, Held
  <1>4. c \in Local
    BY <1>2, <1>3, Zenon DEF Local
  <1>5. /\ c.now = cycle[e].now /\ c.killed = cycle[e].killed
        /\ c.dayStart = cycle[e].dayStart
        /\ c.cash = cycle[e].cash /\ c.quantity = Held(position)
        /\ SameOrder(cycle[e], c)
    BY <1>2 DEF Local, SameOrder
  <1> HIDE DEF c
  <1>6. Further(e, "decide", c)
    BY <1>1, <1>4, <1>5 DEF Further, Moves, Step, Running
  <1> QED BY <1>1, <1>5, <1>6 DEF QuietFurther, Step

LEMMA DecideShape ==
    ASSUME TypeInv, NEW e \in Executions, DecideOrder(e)
    PROVE  \E c, to :
              /\ to \in {"check", "commit"}
              /\ QuietFurther(e, to, c)
              /\ pc[e] = "decide" /\ venue' = venue
              /\ SameOrder(cycle[e], c)
              /\ c.cash = cycle[e].cash /\ c.quantity = cycle[e].quantity
              /\ c.opening = OpeningFor(cycle[e]) /\ c.opening > 0
              /\ c.order = Decide(c.signal, Account(c), c.price, c.killed)
              /\ to = "check" <=> c.order # Hold
  <1> DEFINE l == cycle[e]
             opening == OpeningFor(l)
             b == [l EXCEPT !.opening = opening]
             order == Decide(b.signal, Account(b), b.price, b.killed)
             to == IF order = Hold THEN "commit" ELSE "check"
             c == [b EXCEPT !.order = order]
  <1>1. Step(e, "decide", to, c) /\ UNCHANGED <<venue, database>>
        /\ b.opening > 0
    BY DEF DecideOrder
  <1>2. l \in Local /\ ~l.submitted
    BY <1>1, LocalFacts DEF Step, ApprovedAt, Unsubmitted
  <1>3. TypeInv'
    BY DecideKeepsTypes
  <1>4. c \in Local
    <2>1. cycle'[e] \in Local
      BY <1>3 DEF TypeInv, TypeOK
    <2>2. cycle'[e] = c
      BY <1>1 DEF Step, TypeInv, TypeOK
    <2> QED BY <2>1, <2>2
  <1> HIDE DEF opening, order
  <1>5. /\ b.opening = opening /\ b.cash = l.cash /\ b.quantity = l.quantity
        /\ b.signal = l.signal /\ b.price = l.price /\ b.killed = l.killed
    BY <1>2 DEF Local
  <1>6. /\ c.now = l.now /\ c.killed = l.killed /\ c.dayStart = l.dayStart
        /\ c.cash = l.cash /\ c.quantity = l.quantity
        /\ c.opening = opening /\ c.order = order
        /\ SameOrder(l, c)
    BY <1>2 DEF Local, SameOrder
  <1>7. order = Decide(c.signal, Account(c), c.price, c.killed)
    BY <1>5, <1>6 DEF order, Account, SameOrder
  <1>8. order # Hold => ~c.killed
    BY <1>7 DEF Decide
  <1> HIDE DEF b, c
  <1>9. Further(e, to, c)
    BY <1>1, <1>4, <1>6 DEF Further, Moves, Step, Running
  <1>10. QuietFurther(e, to, c) /\ pc[e] = "decide"
    BY <1>1, <1>8, <1>9 DEF QuietFurther, Step
  <1>11. c.opening > 0
    BY <1>1, <1>5, <1>6
  <1> QED BY <1>1, <1>6, <1>7, <1>10, <1>11 DEF opening

LEMMA CheckShape ==
    ASSUME TypeInv, NEW e \in Executions, CheckDuplicate(e)
    PROVE  \E to \in {"commit", "submit"} :
              /\ QuietFurther(e, to, cycle[e])
              /\ pc[e] = "check" /\ venue' = venue
              /\ to = "submit" <=> ~AlreadyExecuted(IdOf(cycle[e]))
  <1> DEFINE to == IF AlreadyExecuted(IdOf(cycle[e])) THEN "commit" ELSE "submit"
  <1>1. Step(e, "check", to, cycle[e]) /\ UNCHANGED <<venue, database>>
    BY DEF CheckDuplicate
  <1>2. to \in {"commit", "submit"}
    OBVIOUS
  <1>3. to = "submit" <=> ~AlreadyExecuted(IdOf(cycle[e]))
    OBVIOUS
  <1> HIDE DEF to
  <1>4. Further(e, to, cycle[e])
    BY <1>1, <1>2, LocalFacts DEF Further, Moves, Step, Running
  <1> QED BY <1>1, <1>2, <1>3, <1>4 DEF QuietFurther, Step

LEMMA SubmitShape ==
    ASSUME TypeInv, NEW e \in Executions, Submit(e)
    PROVE  \E o \in SubmitOutcomes(cycle[e].signal.action, cycle[e].order,
                                   cycle[e].price,
                                   KnownToVenue(IdOf(cycle[e]))) :
              /\ QuietFurther(e, "save", Settled(cycle[e], o))
              /\ pc[e] = "submit" /\ venue' = VenueAfter(cycle[e], o.executed)
              /\ o \in Outcome /\ Settled(cycle[e], o).submitted
              /\ Settled(cycle[e], o).outcome = o
              /\ Settled(cycle[e], o).signal = cycle[e].signal
              /\ Settled(cycle[e], o).bar = cycle[e].bar
              /\ Settled(cycle[e], o).price = cycle[e].price
              /\ Settled(cycle[e], o).cash = cycle[e].cash
                    + CashDelta(cycle[e].signal.action, o.fill)
              /\ Settled(cycle[e], o).quantity = cycle[e].quantity
                    + QuantityDelta(cycle[e].signal.action, o.fill)
  <1> DEFINE c == cycle[e]
  <1>1. PICK o \in SubmitOutcomes(c.signal.action, c.order, c.price,
                                  KnownToVenue(IdOf(c))) :
            /\ Step(e, "submit", "save", Settled(c, o))
            /\ venue' = VenueAfter(c, o.executed)
            /\ UNCHANGED database
    BY DEF Submit
  <1>2. c \in Local /\ ApprovedAt("submit", c)
    BY <1>1, LocalFacts DEF Step
  <1>3. o \in Outcome
    <2>1. c.signal.action \in OrderSide /\ c.order \in Nat \ {0}
          /\ c.price \in Nat \ {0} /\ KnownToVenue(IdOf(c)) \in BOOLEAN
      BY <1>2 DEF ApprovedAt, Local, KnownToVenue
    <2> QED BY <1>1, <2>1, OutcomeType
  <1> DEFINE d == Settled(c, o)
  <1>4. d \in Local
    <2>1. TypeInv'
      BY SubmitKeepsTypes
    <2>2. cycle'[e] = d /\ cycle'[e] \in Local
      BY <1>1, <2>1 DEF Step, TypeInv, TypeOK
    <2> QED BY <2>2
  <1>5. /\ d.now = c.now /\ d.killed = c.killed /\ d.dayStart = c.dayStart
        /\ d.signal = c.signal /\ d.bar = c.bar /\ d.price = c.price
        /\ d.submitted /\ d.outcome = o
        /\ d.cash = c.cash + CashDelta(c.signal.action, o.fill)
        /\ d.quantity = c.quantity + QuantityDelta(c.signal.action, o.fill)
    BY <1>2 DEF Settled, Local
  <1> HIDE DEF d
  <1>6. Further(e, "save", d)
    BY <1>1, <1>4, <1>5 DEF Further, Moves, Step, Running, d
  <1>7. QuietFurther(e, "save", d)
    BY <1>1, <1>6 DEF QuietFurther, Step
  <1> QED BY <1>1, <1>3, <1>5, <1>7 DEF Step, d

LEMMA SaveShape ==
    ASSUME TypeInv, NEW e \in Executions, SavePosition(e)
    PROVE  \E c : /\ QuietFurther(e, "commit", c)
                  /\ pc[e] = "save" /\ venue' = venue
                  /\ SameOrder(cycle[e], c)
                  /\ c.cash = cycle[e].cash /\ c.quantity = cycle[e].quantity
                  /\ c.opening = cycle[e].opening
                  /\ c.row = position
  <1> DEFINE c == [cycle[e] EXCEPT !.row = position]
  <1>1. Step(e, "save", "commit", c) /\ UNCHANGED <<venue, database>>
    BY DEF SavePosition
  <1>2. cycle[e] \in Local
    BY LocalFacts
  <1>3. position \in Nat \cup {NoRow}
    BY DEF TypeInv, TypeOK
  <1>4. c \in Local
    BY <1>2, <1>3, Zenon DEF Local
  <1>5. /\ c.now = cycle[e].now /\ c.killed = cycle[e].killed
        /\ c.dayStart = cycle[e].dayStart /\ c.row = position
        /\ c.cash = cycle[e].cash /\ c.quantity = cycle[e].quantity
        /\ c.opening = cycle[e].opening
        /\ SameOrder(cycle[e], c)
    BY <1>2 DEF Local, SameOrder
  <1> HIDE DEF c
  <1>6. Further(e, "commit", c)
    BY <1>1, <1>4, <1>5 DEF Further, Moves, Step, Running
  <1> QED BY <1>1, <1>5, <1>6 DEF QuietFurther, Step

LEMMA CommitShape ==
    ASSUME TypeInv, NEW e \in Executions, Commit(e)
    PROVE  /\ Further(e, "exit", cycle[e])
           /\ pc[e] = "commit" /\ venue' = venue
           /\ snapshots' = snapshots \cup {SnapshotOf(cycle[e])}
           /\ ~Conflicts(cycle[e])
  <1>1. Step(e, "commit", "exit", cycle[e])
    BY DEF Commit
  <1>2. Further(e, "exit", cycle[e])
    BY <1>1, LocalFacts DEF Further, Moves, Step, Running
  <1> QED BY <1>1, <1>2 DEF Commit, Step

LEMMA EndShape ==
    ASSUME TypeInv, NEW e \in Executions,
           \/ Abort(e) \/ FetchStale(e) \/ OpeningInvalid(e)
           \/ CommitConflict(e) \/ Exit(e) \/ GiveUp(e)
    PROVE  \E to, c : EndStep(e, to, c)
  <1>1. CASE Abort(e) \/ FetchStale(e) \/ OpeningInvalid(e) \/ CommitConflict(e)
    <2>1. pc[e] \in Running /\ Fail(e) /\ venue' = venue
      BY <1>1 DEF Abort, FetchStale, OpeningInvalid, CommitConflict, Running
    <2>2. Blank \in Local /\ ~Blank.submitted
      BY BlankType DEF Blank
    <2>3. EndStep(e, "failed", Blank)
      BY <2>1, <2>2 DEF EndStep, Fail, Moves
    <2> QED BY <2>3
  <1>2. CASE Exit(e)
    <2> DEFINE c == [Blank EXCEPT !.outcome.error = cycle[e].outcome.error]
    <2>1. Step(e, "exit", "succeeded", c) /\ UNCHANGED <<venue, database>>
      BY <1>2 DEF Exit
    <2>2. cycle'[e] = c /\ cycle'[e] \in Local
      BY <2>1, <1>2, ExitKeepsTypes DEF Step, TypeInv, TypeOK
    <2>3. c \in Local /\ ~c.submitted
      BY <2>2 DEF Blank
    <2> HIDE DEF c
    <2>4. EndStep(e, "succeeded", c)
      BY <2>1, <2>3 DEF EndStep, Step, Moves
    <2> QED BY <2>4
  <1>3. CASE GiveUp(e)
    <2>1. cycle' = [cycle EXCEPT ![e] = cycle[e]]
      BY <1>3 DEF GiveUp, TypeInv, TypeOK
    <2>2. EndStep(e, "gave_up", cycle[e])
      BY <1>3, <2>1, LocalFacts DEF EndStep, GiveUp, Moves
    <2> QED BY <2>2
  <1> QED BY <1>1, <1>2, <1>3

(* The steps of an attempt that change nothing but the attempt, and the    *)
(* venue's memory.                                                         *)
Quiet(e) ==
    \/ Fetch(e) \/ ReadCash(e) \/ ReadPosition(e) \/ DecideOrder(e)
    \/ CheckDuplicate(e) \/ Submit(e) \/ SavePosition(e)

LEMMA QuietShape ==
    ASSUME TypeInv, NEW e \in Executions, Quiet(e)
    PROVE  \E to, c : QuietFurther(e, to, c)
  BY FetchShape, ReadCashShape, ReadPositionShape, DecideShape, CheckShape,
     SubmitShape, SaveShape, Zenon DEF Quiet

LEMMA EveryStep ==
    ASSUME TypeInv, [Next]_vars
    PROVE  \/ OutsideStep
           \/ \E e \in Executions : StartStep(e)
           \/ \E e \in Executions : \E to, c : EndStep(e, to, c)
           \/ \E e \in Executions : Quiet(e)
           \/ \E e \in Executions : Commit(e)
  <1>1. CASE NewBar \/ Reprice \/ FlipKillSwitch \/ UNCHANGED vars
    BY <1>1 DEF NewBar, Reprice, FlipKillSwitch, vars, OutsideStep, database
  <1>2. ASSUME NEW e \in Executions,
               Launch(e) \/ Platform(e) \/ Attempt(e) \/ Abort(e)
        PROVE  \/ StartStep(e)
               \/ \E to, c : EndStep(e, to, c)
               \/ Quiet(e)
               \/ Commit(e)
    <2>1. CASE Launch(e) \/ Retry(e)
      BY <2>1 DEF Launch, Retry, StartStep
    <2>2. CASE \/ Abort(e) \/ FetchStale(e) \/ OpeningInvalid(e)
               \/ CommitConflict(e) \/ Exit(e) \/ GiveUp(e)
      BY <2>2, EndShape
    <2> QED BY <1>2, <2>1, <2>2, Zenon DEF Attempt, Platform, Quiet
  <1> QED BY <1>1, <1>2, Zenon DEF Next

(* What a started attempt begins with. *)
LEMMA StartFacts ==
    ASSUME TypeInv, NEW e \in Executions, StartAttempt(e)
    PROVE  /\ Moves(e, "fetch", cycle'[e])
           /\ cycle'[e].now = clock /\ cycle'[e].dayStart = midnight
           /\ cycle'[e].killed = killSwitch.engaged
           /\ ~cycle'[e].submitted
           /\ clock' = clock + 1
           /\ UNCHANGED <<world, venue, database>>
  <1> DEFINE c == [Blank EXCEPT !.killed = killSwitch.engaged,
                                !.now = clock,
                                !.dayStart = midnight,
                                !.interval = Len(market)]
  <1>1. cycle' = [cycle EXCEPT ![e] = c] /\ cycle'[e] = c
    BY DEF StartAttempt, TypeInv, TypeOK
  <1>2. /\ c.now = clock /\ c.dayStart = midnight
        /\ c.killed = killSwitch.engaged /\ ~c.submitted
    BY DEF Blank
  <1> HIDE DEF c
  <1> QED BY <1>1, <1>2 DEF StartAttempt, Moves

-----------------------------------------------------------------------------
(* Two orders of one bar and side have the same client order id, so the    *)
(* unique key of the table and the venue's refusal exclude the second one  *)
(* even when the bar changes between them.                                 *)
IdsNameTheirBar(rows) ==
    /\ \A r \in rows : r.id.cycleId = r.bar
    /\ \A r, s \in rows : r.id = s.id => r = s

RowsInv ==
    /\ IdsNameTheirBar(orders) /\ orders \subseteq OrderRow
    /\ IdsNameTheirBar(venue) /\ venue \subseteq VenueRow

LEMMA RowsInvSuffices == RowsInv => OneOrderPerBarAndSide
  <1>1. ASSUME NEW r \in orders \cup venue, NEW s \in orders \cup venue,
               RowsInv, r.id.cycleId = s.id.cycleId, r.id.side = s.id.side
        PROVE  r.id = s.id
    <2>1. r.id \in ClientOrderId /\ s.id \in ClientOrderId
      BY <1>1 DEF RowsInv, OrderRow, VenueRow
    <2> QED BY <1>1, <2>1 DEF ClientOrderId
  <1> QED BY <1>1 DEF RowsInv, IdsNameTheirBar, OneOrderPerBarAndSide,
                      OnePerBarAndSide

LEMMA NewRowNamesItsBar ==
    ASSUME NEW rows, IdsNameTheirBar(rows), NEW c, NEW r, r.id = IdOf(c),
           r.bar = c.bar, \A s \in rows : s.id # r.id
    PROVE  IdsNameTheirBar(rows \cup {r})
  <1>1. r.id.cycleId = r.bar
    BY DEF IdOf, CycleId
  <1> QED BY <1>1 DEF IdsNameTheirBar

LEMMA NextKeepsRows ==
    TypeInv /\ RowsInv /\ [Next]_vars => RowsInv'
  <1> SUFFICES ASSUME TypeInv, RowsInv, [Next]_vars PROVE RowsInv'
    OBVIOUS
  <1>1. orders' \subseteq OrderRow /\ venue' \subseteq VenueRow
    BY NextKeepsTypes DEF TypeInv, TypeOK
  <1>2. CASE UNCHANGED <<orders, venue>>
    BY <1>2 DEF RowsInv, IdsNameTheirBar
  <1>3. ASSUME NEW e \in Executions, Submit(e) PROVE RowsInv'
    <2> DEFINE c == cycle[e]
    <2>1. PICK o \in SubmitOutcomes(c.signal.action, c.order, c.price,
                                    KnownToVenue(IdOf(c))) :
              /\ Step(e, "submit", "save", Settled(c, o))
              /\ venue' = VenueAfter(c, o.executed)
              /\ UNCHANGED database
      BY <1>3 DEF Submit
    <2>2. CASE o.executed = NoFill
      BY <1>2, <2>1, <2>2 DEF VenueAfter, database
    <2>3. CASE o.executed # NoFill
      <3> DEFINE r == [id |-> IdOf(c), bar |-> c.bar, fill |-> o.executed]
      <3>1. venue' = venue \cup {r} /\ orders' = orders
        BY <2>1, <2>3 DEF VenueAfter, database
      <3>2. ~KnownToVenue(IdOf(c))
        <4>1. c \in Local /\ ApprovedAt("submit", c)
          BY <2>1, LocalFacts DEF Step
        <4>2. c.signal.action \in OrderSide /\ c.order \in Nat \ {0}
              /\ c.price \in Nat \ {0} /\ KnownToVenue(IdOf(c)) \in BOOLEAN
          BY <4>1 DEF ApprovedAt, Local, KnownToVenue
        <4> QED BY <2>1, <2>3, <4>2, OutcomeType
      <3>3. \A v \in venue : v.id # r.id
        BY <3>2 DEF KnownToVenue
      <3>4. r.id = IdOf(c) /\ r.bar = c.bar
        OBVIOUS
      <3> HIDE DEF r
      <3>5. IdsNameTheirBar(venue \cup {r})
        BY <3>3, <3>4, NewRowNamesItsBar DEF RowsInv
      <3> QED BY <1>1, <3>1, <3>5 DEF RowsInv, IdsNameTheirBar
    <2> QED BY <2>2, <2>3
  <1>4. ASSUME NEW e \in Executions, Commit(e) PROVE RowsInv'
    <2> DEFINE c == cycle[e]
    <2>1. ~Conflicts(c) /\ venue' = venue
          /\ orders' = IF c.submitted THEN orders \cup {OrderOf(c)} ELSE orders
      BY <1>4 DEF Commit
    <2>2. CASE ~c.submitted
      BY <1>2, <2>1, <2>2
    <2>3. CASE c.submitted
      <3>1. OrderOf(c).id = IdOf(c) /\ OrderOf(c).bar = c.bar
        BY DEF OrderOf
      <3>2. \A o \in orders : o.id # OrderOf(c).id
        BY <2>1, <2>3, <3>1 DEF Conflicts, AlreadyExecuted
      <3>3. IdsNameTheirBar(orders \cup {OrderOf(c)})
        BY <3>1, <3>2, NewRowNamesItsBar DEF RowsInv
      <3> QED BY <1>1, <2>1, <2>3, <3>3 DEF RowsInv, IdsNameTheirBar
    <2> QED BY <2>2, <2>3
  <1>5. \/ \E e \in Executions : Submit(e)
        \/ \E e \in Executions : Commit(e)
        \/ UNCHANGED <<orders, venue>>
    BY DEF Next, NewBar, Reprice, FlipKillSwitch, Launch, Platform, Retry, GiveUp,
           StartAttempt, Attempt, Fetch, FetchStale, ReadCash, ReadPosition,
           OpeningInvalid, DecideOrder, CheckDuplicate, SavePosition,
           CommitConflict, Exit, Abort, Fail, vars, database
  <1> QED BY <1>2, <1>3, <1>4, <1>5

(* A client order id names the bar and the side, so no bar is bought or    *)
(* sold twice, in the table or at the venue, even while bars still form    *)
(* and executions overlap (build_client_order_id, the unique key of        *)
(* orders, the refusal of the venue).                                      *)
THEOREM OneOrderPerBarAndSideAlways == Spec => []OneOrderPerBarAndSide
  <1>1. Init => RowsInv
    BY DEF Init, RowsInv, IdsNameTheirBar
  <1>2. Spec => []RowsInv
    BY <1>1, NextKeepsRows, TypeInvariant, PTL DEF Spec
  <1> QED BY <1>2, RowsInvSuffices, PTL

-----------------------------------------------------------------------------
(* A cycle that was told of a fill holds the fill the venue remembers under *)
(* the id of its order, until it is booked.                                *)
ToldTheTruth(rows, c) ==
    c.submitted /\ c.outcome.status # "rejected" =>
        \E v \in rows : v.id = IdOf(c) /\ v.fill = c.outcome.fill

FillsInv ==
    /\ \A e \in Executions : ToldTheTruth(venue, cycle[e])
    /\ BookedOnlyWhatVenueExecuted

LEMMA OutcomeIsExecuted ==
    ASSUME Backend # "simulated", NEW side, NEW quantity \in Nat, NEW price,
           NEW known,
           NEW o \in SubmitOutcomes(side, quantity, price, known),
           o.status # "rejected"
    PROVE  o.executed = o.fill /\ o.fill # NoFill
  <1>1. o \in CcxtOutcomes(quantity, known)
    BY DEF SubmitOutcomes
  <1>2. ~(\E f, error : o = Rejected(f, error))
    BY DEF Rejected
  <1>3. PICK f \in VenueFills(quantity) :
            o = [status |-> StatusOf(f, quantity), fill |-> f, executed |-> f,
                 error |-> FALSE]
    BY <1>1, <1>2, Zenon DEF CcxtOutcomes
  <1>4. f.quantity \in 1 .. quantity
    BY DEF VenueFills
  <1> QED BY <1>3, <1>4 DEF NoFill

LEMMA NextKeepsFills ==
    ASSUME Backend # "simulated"
    PROVE  TypeInv /\ FillsInv /\ [Next]_vars => FillsInv'
  <1> SUFFICES ASSUME TypeInv, FillsInv, [Next]_vars PROVE FillsInv'
    OBVIOUS
  <1>1. ASSUME venue \subseteq venue', NEW e \in Executions, NEW to, NEW c,
               Moves(e, to, c), ToldTheTruth(venue', c)
        PROVE  \A x \in Executions : ToldTheTruth(venue', cycle'[x])
    <2> SUFFICES ASSUME NEW x \in Executions PROVE ToldTheTruth(venue', cycle'[x])
      OBVIOUS
    <2>1. CASE x = e
      <3>1. cycle'[x] = c
        BY <1>1, <2>1, MovedTo
      <3> QED BY <1>1, <3>1 DEF ToldTheTruth
    <2>2. CASE x # e
      <3>1. cycle'[x] = cycle[x]
        BY <1>1, <2>2, MovedTo
      <3> QED BY <1>1, <3>1 DEF FillsInv, ToldTheTruth
    <2> QED BY <2>1, <2>2
  <1>2. ASSUME venue \subseteq venue', orders' = orders
        PROVE  BookedOnlyWhatVenueExecuted'
    BY <1>2 DEF FillsInv, BookedOnlyWhatVenueExecuted
  <1>3. CASE OutsideStep
    BY <1>3 DEF OutsideStep, database, FillsInv, BookedOnlyWhatVenueExecuted,
                ToldTheTruth
  <1>4. ASSUME NEW e \in Executions, StartStep(e) PROVE FillsInv'
    <2>1. /\ Moves(e, "fetch", cycle'[e]) /\ ~cycle'[e].submitted
          /\ venue' = venue /\ orders' = orders
      BY <1>4, StartFacts DEF StartStep, database
    <2>2. ToldTheTruth(venue', cycle'[e])
      BY <2>1 DEF ToldTheTruth
    <2> QED BY <1>1, <1>2, <2>1, <2>2 DEF FillsInv
  <1>5. ASSUME NEW e \in Executions, NEW to, NEW c, EndStep(e, to, c)
        PROVE  FillsInv'
    <2>1. venue' = venue /\ orders' = orders /\ Moves(e, to, c)
      BY <1>5 DEF EndStep, database
    <2>2. ToldTheTruth(venue', c)
      BY <1>5, <2>1 DEF EndStep, ToldTheTruth, FillsInv
    <2> QED BY <1>1, <1>2, <2>1, <2>2 DEF FillsInv
  <1>6. ASSUME NEW e \in Executions, Submit(e) PROVE FillsInv'
    <2>1. PICK o \in SubmitOutcomes(cycle[e].signal.action, cycle[e].order,
                                    cycle[e].price,
                                    KnownToVenue(IdOf(cycle[e]))) :
              /\ QuietFurther(e, "save", Settled(cycle[e], o))
              /\ pc[e] = "submit"
              /\ venue' = VenueAfter(cycle[e], o.executed)
              /\ Settled(cycle[e], o).outcome = o
              /\ Settled(cycle[e], o).signal = cycle[e].signal
              /\ Settled(cycle[e], o).bar = cycle[e].bar
      BY <1>6, SubmitShape
    <2> DEFINE d == Settled(cycle[e], o)
    <2>2. venue \subseteq venue' /\ orders' = orders /\ Moves(e, "save", d)
      BY <2>1 DEF VenueAfter, QuietFurther, Further, database
    <2>3. o.status # "rejected" =>
              \E v \in venue' : v.id = IdOf(cycle[e]) /\ v.fill = o.fill
      <3>1. cycle[e].order \in Nat
        BY LocalFacts DEF Local
      <3>2. ASSUME o.status # "rejected"
            PROVE  o.executed = o.fill /\ o.fill # NoFill
        BY <3>1, <3>2, OutcomeIsExecuted
      <3>3. ASSUME o.status # "rejected"
            PROVE  [id |-> IdOf(cycle[e]), bar |-> cycle[e].bar,
                    fill |-> o.fill] \in venue'
        BY <2>1, <3>2, <3>3 DEF VenueAfter
      <3> QED BY <3>3
    <2>4. IdOf(d) = IdOf(cycle[e])
      BY <2>1 DEF IdOf, CycleId
    <2>5. d.outcome = o
      BY <2>1
    <2> HIDE DEF d
    <2>6. ToldTheTruth(venue', d)
      BY <2>3, <2>4, <2>5 DEF ToldTheTruth
    <2> QED BY <1>1, <1>2, <2>2, <2>6 DEF FillsInv
  <1>7. ASSUME NEW e \in Executions, NEW to, NEW c, QuietFurther(e, to, c),
               venue' = venue,
               SameOrder(cycle[e], c) \/ ~c.submitted
        PROVE  FillsInv'
    <2>1. orders' = orders /\ Moves(e, to, c)
      BY <1>7 DEF QuietFurther, Further, database
    <2>2. ToldTheTruth(venue', c)
      BY <1>7 DEF ToldTheTruth, FillsInv, SameOrder, IdOf, CycleId
    <2> QED BY <1>1, <1>2, <1>7, <2>1, <2>2 DEF FillsInv
  <1>8. ASSUME NEW e \in Executions,
               \/ Fetch(e) \/ ReadCash(e) \/ ReadPosition(e) \/ DecideOrder(e)
               \/ CheckDuplicate(e) \/ SavePosition(e)
        PROVE  FillsInv'
    <2>1. PICK to, c : /\ QuietFurther(e, to, c) /\ venue' = venue
                       /\ SameOrder(cycle[e], c) \/ ~c.submitted
      <3>1. SameOrder(cycle[e], cycle[e])
        BY DEF SameOrder
      <3> QED BY <1>8, <3>1, FetchShape, ReadCashShape, ReadPositionShape,
                 DecideShape, CheckShape, SaveShape, Zenon
    <2> QED BY <1>7, <2>1
  <1>9. ASSUME NEW e \in Executions, Commit(e) PROVE FillsInv'
    <2>1. Moves(e, "exit", cycle[e]) /\ venue' = venue
      BY <1>9, CommitShape DEF Further
    <2>2. ToldTheTruth(venue, cycle[e])
      BY DEF FillsInv
    <2>3. \A x \in Executions : ToldTheTruth(venue', cycle'[x])
      BY <1>1, <2>1, <2>2
    <2>4. orders' = IF cycle[e].submitted THEN orders \cup {OrderOf(cycle[e])}
                                          ELSE orders
      BY <1>9 DEF Commit
    <2>5. BookedOnlyWhatVenueExecuted'
      <3> SUFFICES ASSUME NEW o \in orders', o.status # "rejected"
                   PROVE  \E v \in venue : v.id = o.id /\ v.fill = o.fill
        BY <2>1 DEF BookedOnlyWhatVenueExecuted
      <3>1. CASE o \in orders
        BY <3>1 DEF FillsInv, BookedOnlyWhatVenueExecuted
      <3>2. CASE o \notin orders
        <4>1. o = OrderOf(cycle[e]) /\ cycle[e].submitted
          BY <2>4, <3>2
        <4>2. /\ o.id = IdOf(cycle[e]) /\ o.fill = cycle[e].outcome.fill
              /\ o.status = cycle[e].outcome.status
          BY <4>1 DEF OrderOf
        <4> QED BY <2>2, <4>1, <4>2 DEF ToldTheTruth
      <3> QED BY <3>1, <3>2
    <2> QED BY <2>3, <2>5 DEF FillsInv
  <1>10. \/ OutsideStep
         \/ \E e \in Executions : StartStep(e)
         \/ \E e \in Executions : \E to, c : EndStep(e, to, c)
         \/ \E e \in Executions : Quiet(e)
         \/ \E e \in Executions : Commit(e)
    BY EveryStep
  <1> QED BY <1>3, <1>4, <1>5, <1>6, <1>8, <1>9, <1>10 DEF Quiet

(* An executed or partly executed order of the table is the order the      *)
(* venue keeps under its id, with the fill the venue made, whatever        *)
(* answers are lost, late or repeated and wherever an attempt dies         *)
(* (record_execution, _to_execution).  The simulator keeps no orders.      *)
THEOREM BookedOnlyWhatVenueExecutedAlways ==
    ASSUME Backend # "simulated"
    PROVE  Spec => []BookedOnlyWhatVenueExecuted
  <1>1. Init => FillsInv
    BY DEF Init, FillsInv, ToldTheTruth, Blank, BookedOnlyWhatVenueExecuted
  <1>2. TypeInv /\ FillsInv /\ [Next]_vars => FillsInv'
    BY NextKeepsFills
  <1>3. FillsInv => BookedOnlyWhatVenueExecuted
    BY DEF FillsInv
  <1> QED BY <1>1, <1>2, <1>3, TypeInvariant, PTL DEF Spec

-----------------------------------------------------------------------------
(* A cycle that found the switch clear started before the switch was       *)
(* engaged, if it is engaged now, and only such a cycle has an order.      *)
FoundClear(switch, now, at, c) ==
    /\ at \in Running =>
         /\ c.now < now
         /\ switch.engaged /\ ~c.killed => c.now < switch.since
    /\ at \in {"check", "submit"} => ~c.killed

SwitchInv == \A e \in Executions : FoundClear(killSwitch, clock, pc[e], cycle[e])

LEMMA NextKeepsSwitch ==
    TypeInv /\ SwitchInv /\ [Next]_vars => SwitchInv'
  <1> SUFFICES ASSUME TypeInv, SwitchInv, [Next]_vars PROVE SwitchInv'
    OBVIOUS
  <1>1. /\ clock \in Nat
        /\ \A e \in Executions : cycle[e].now \in Nat
        /\ killSwitch.since \in Nat
    BY LocalFacts DEF Local, TypeInv, TypeOK
  <1>2. ASSUME NEW e \in Executions, NEW to, NEW c, Moves(e, to, c),
               killSwitch' = killSwitch, clock' \in {clock, clock + 1},
               FoundClear(killSwitch, clock', to, c)
        PROVE  SwitchInv'
    <2> SUFFICES ASSUME NEW x \in Executions
                 PROVE  FoundClear(killSwitch, clock', pc'[x], cycle'[x])
      BY <1>2 DEF SwitchInv
    <2>1. CASE x = e
      <3>1. pc'[x] = to /\ cycle'[x] = c
        BY <1>2, <2>1, MovedTo
      <3> QED BY <1>2, <3>1
    <2>2. CASE x # e
      <3>1. pc'[x] = pc[x] /\ cycle'[x] = cycle[x]
        BY <1>2, <2>2, MovedTo
      <3>2. FoundClear(killSwitch, clock, pc[x], cycle[x])
        BY DEF SwitchInv
      <3> QED BY <1>1, <1>2, <3>1, <3>2 DEF FoundClear
    <2> QED BY <2>1, <2>2
  <1>3. CASE OutsideStep
    <2> SUFFICES ASSUME NEW e \in Executions
                 PROVE  FoundClear(killSwitch', clock, pc[e], cycle[e])
      BY <1>3 DEF SwitchInv, OutsideStep
    <2>1. FoundClear(killSwitch, clock, pc[e], cycle[e])
      BY DEF SwitchInv
    <2> QED BY <1>3, <2>1 DEF OutsideStep, FoundClear
  <1>4. ASSUME NEW e \in Executions, StartStep(e) PROVE SwitchInv'
    <2>1. /\ Moves(e, "fetch", cycle'[e])
          /\ cycle'[e].now = clock /\ clock' = clock + 1
          /\ cycle'[e].killed = killSwitch.engaged
          /\ killSwitch' = killSwitch
      BY <1>4, StartFacts DEF StartStep, world
    <2>2. FoundClear(killSwitch, clock', "fetch", cycle'[e])
      BY <1>1, <2>1 DEF FoundClear
    <2> QED BY <1>2, <2>1, <2>2
  <1>5. ASSUME NEW e \in Executions, NEW to, NEW c, EndStep(e, to, c)
        PROVE  SwitchInv'
    <2>1. FoundClear(killSwitch, clock, to, c)
      BY <1>5 DEF EndStep, FoundClear, Running
    <2> QED BY <1>2, <1>5, <2>1 DEF EndStep, world
  <1>6. ASSUME NEW e \in Executions, Quiet(e) PROVE SwitchInv'
    <2>1. PICK to, c : QuietFurther(e, to, c)
      BY <1>6, QuietShape
    <2>2. FoundClear(killSwitch, clock, pc[e], cycle[e])
      BY DEF SwitchInv
    <2>3. FoundClear(killSwitch, clock, to, c)
      BY <2>1, <2>2 DEF QuietFurther, Further, FoundClear
    <2> QED BY <1>2, <2>1, <2>3 DEF QuietFurther, Further, world
  <1>7. ASSUME NEW e \in Executions, Commit(e) PROVE SwitchInv'
    <2>1. Further(e, "exit", cycle[e])
      BY <1>7, CommitShape
    <2>2. FoundClear(killSwitch, clock, pc[e], cycle[e])
      BY DEF SwitchInv
    <2>3. FoundClear(killSwitch, clock, "exit", cycle[e])
      BY <2>1, <2>2 DEF Further, FoundClear
    <2> QED BY <1>2, <2>1, <2>3 DEF Further, world
  <1> QED BY <1>3, <1>4, <1>5, <1>6, <1>7, EveryStep

(* Only a process that was started before the switch was engaged still     *)
(* sends an order while it is (Settings.kill_switch, read once, and the    *)
(* first check of decide).                                                 *)
THEOREM EngagedSwitchStopsNewCyclesAlways == Spec => EngagedSwitchStopsNewCycles
  <1>1. Init => SwitchInv
    BY DEF Init, SwitchInv, FoundClear, Running
  <1>2. SwitchInv =>
          \A e \in Executions :
            Submits(e) /\ killSwitch.engaged => cycle[e].now < killSwitch.since
    BY DEF SwitchInv, FoundClear, Submits, Running
  <1> QED BY <1>1, <1>2, NextKeepsSwitch, TypeInvariant, PTL
          DEF Spec, EngagedSwitchStopsNewCycles

-----------------------------------------------------------------------------
(* Every attempt has an instant of its own, so a snapshot with the instant *)
(* of a running attempt is the one this attempt committed.                 *)
HasCommitted(rows, c) == \E s \in rows : s.takenAt = c.now

DatesInv ==
    /\ \A s \in snapshots : s.takenAt < clock
    /\ \A e \in Executions : pc[e] \in Running =>
         /\ cycle[e].now < clock
         /\ HasCommitted(snapshots, cycle[e]) <=> pc[e] = "exit"
    /\ \A e, f \in Executions :
         pc[e] \in Running /\ pc[f] \in Running /\ cycle[e].now = cycle[f].now
            => e = f

LEMMA NextKeepsDates ==
    TypeInv /\ DatesInv /\ [Next]_vars => DatesInv'
  <1> SUFFICES ASSUME TypeInv, DatesInv, [Next]_vars PROVE DatesInv'
    OBVIOUS
  <1>1. /\ clock \in Nat
        /\ \A e \in Executions : cycle[e].now \in Nat
        /\ \A s \in snapshots : s.takenAt \in Nat
    BY LocalFacts DEF Local, TypeInv, TypeOK, SnapshotRow
  <1>2. CASE OutsideStep
    BY <1>2 DEF OutsideStep, database, DatesInv, HasCommitted
  <1>3. ASSUME NEW e \in Executions, StartStep(e) PROVE DatesInv'
    <2>1. /\ Moves(e, "fetch", cycle'[e]) /\ cycle'[e].now = clock
          /\ clock' = clock + 1 /\ snapshots' = snapshots
      BY <1>3, StartFacts DEF StartStep, database
    <2>2. pc'[e] = "fetch"
          /\ \A x \in Executions : x # e => pc'[x] = pc[x] /\ cycle'[x] = cycle[x]
      BY <2>1, MovedTo
    <2>3. \A s \in snapshots' : s.takenAt < clock'
      BY <1>1, <2>1 DEF DatesInv
    <2>4. ASSUME NEW x \in Executions, pc'[x] \in Running
          PROVE  /\ cycle'[x].now < clock'
                 /\ HasCommitted(snapshots', cycle'[x]) <=> pc'[x] = "exit"
      <3>1. CASE x = e
        BY <1>1, <2>1, <2>2, <3>1 DEF DatesInv, HasCommitted
      <3>2. CASE x # e
        BY <1>1, <2>1, <2>2, <2>4, <3>2 DEF DatesInv, HasCommitted
      <3> QED BY <3>1, <3>2
    <2>5. ASSUME NEW x \in Executions, NEW y \in Executions,
                 pc'[x] \in Running, pc'[y] \in Running,
                 cycle'[x].now = cycle'[y].now
          PROVE  x = y
      BY <1>1, <2>1, <2>2, <2>5 DEF DatesInv
    <2> QED BY <2>3, <2>4, <2>5 DEF DatesInv
  <1>4. ASSUME NEW e \in Executions, NEW to, NEW c, Moves(e, to, c),
               to \in Running => c.now = cycle[e].now /\ pc[e] \in Running,
               pc[e] \in Running =>
                   (pc[e] # "exit" /\ to # "exit") \/ to \notin Running,
               clock' = clock, snapshots' = snapshots
        PROVE  DatesInv'
    <2>1. pc'[e] = to /\ cycle'[e] = c
          /\ \A x \in Executions : x # e => pc'[x] = pc[x] /\ cycle'[x] = cycle[x]
      BY <1>4, MovedTo
    <2>2. ASSUME NEW x \in Executions, pc'[x] \in Running
          PROVE  /\ pc[x] \in Running /\ cycle'[x].now = cycle[x].now
                 /\ pc'[x] = "exit" <=> pc[x] = "exit"
      BY <1>4, <2>1, <2>2
    <2> QED BY <1>4, <2>2 DEF DatesInv, HasCommitted
  <1>5. ASSUME NEW e \in Executions, NEW to, NEW c, EndStep(e, to, c)
        PROVE  DatesInv'
    <2>1. to \notin Running
      BY <1>5 DEF EndStep, Running
    <2> QED BY <1>4, <1>5, <2>1 DEF EndStep, database
  <1>6. ASSUME NEW e \in Executions, Quiet(e) PROVE DatesInv'
    <2>1. PICK to, c : QuietFurther(e, to, c)
      BY <1>6, QuietShape
    <2> QED BY <1>4, <2>1 DEF QuietFurther, Further, database
  <1>7. ASSUME NEW e \in Executions, Commit(e) PROVE DatesInv'
    <2>1. /\ Further(e, "exit", cycle[e]) /\ pc[e] = "commit"
          /\ snapshots' = snapshots \cup {SnapshotOf(cycle[e])}
      BY <1>7, CommitShape
    <2>2. SnapshotOf(cycle[e]).takenAt = cycle[e].now
      BY DEF SnapshotOf
    <2>3. pc'[e] = "exit" /\ cycle'[e] = cycle[e] /\ clock' = clock
          /\ \A x \in Executions : x # e => pc'[x] = pc[x] /\ cycle'[x] = cycle[x]
      BY <2>1, MovedTo DEF Further
    <2>4. pc[e] \in Running
      BY <2>1 DEF Running
    <2>5. \A s \in snapshots' : s.takenAt < clock'
      BY <2>1, <2>2, <2>3, <2>4 DEF DatesInv
    <2>6. ASSUME NEW x \in Executions, pc'[x] \in Running
          PROVE  /\ pc[x] \in Running /\ cycle'[x].now = cycle[x].now
                 /\ HasCommitted(snapshots', cycle'[x]) <=> pc'[x] = "exit"
      <3>1. CASE x = e
        BY <2>1, <2>2, <2>3, <2>4, <3>1 DEF HasCommitted
      <3>2. CASE x # e
        <4>1. pc'[x] = pc[x] /\ cycle'[x] = cycle[x] /\ pc[x] \in Running
          BY <2>3, <2>6, <3>2
        <4>2. cycle[x].now # cycle[e].now
          BY <2>4, <3>2, <4>1 DEF DatesInv
        <4>3. HasCommitted(snapshots', cycle[x]) <=> HasCommitted(snapshots, cycle[x])
          BY <2>1, <2>2, <4>2 DEF HasCommitted
        <4> QED BY <4>1, <4>3 DEF DatesInv
      <3> QED BY <3>1, <3>2
    <2> QED BY <2>3, <2>5, <2>6 DEF DatesInv
  <1> QED BY <1>2, <1>3, <1>5, <1>6, <1>7, EveryStep

LEMMA InitDates == Init => DatesInv
  BY DEF Init, DatesInv, Running

LEMMA DatesInvariant == Spec => []DatesInv
  BY InitDates, NextKeepsDates, TypeInvariant, PTL DEF Spec

(* The stage of an attempt, location by location. *)
StageAt(at) ==
    CASE at = "idle" -> "idle"
      [] at = "succeeded" -> "succeeded"
      [] at \in {"failed", "gave_up"} -> "failed"
      [] at = "exit" -> "booked"
      [] OTHER -> "running"

StagesFollowLocations == \A e \in Executions : Stage(e) = StageAt(pc[e])

LEMMA StageOfLocation == TypeInv /\ DatesInv => StagesFollowLocations
  <1> SUFFICES ASSUME TypeInv, DatesInv, NEW e \in Executions
               PROVE  Stage(e) = StageAt(pc[e])
    BY DEF StagesFollowLocations
  <1>1. pc[e] \in Locations
    BY LocalFacts
  <1>2. pc[e] \in Running =>
           ((\E s \in snapshots : s.takenAt = cycle[e].now) <=> pc[e] = "exit")
    BY DEF DatesInv, HasCommitted
  <1> QED BY <1>1, <1>2 DEF Stage, StageAt, Locations, Running, Ended

(* The moves of an attempt from one location to another. *)
MayMove(from, to) ==
    \/ from \in {"idle", "failed"} /\ to = "fetch"
    \/ from \in Running /\ to = "failed"
    \/ from = "exit" /\ to = "succeeded"
    \/ from = "failed" /\ to = "gave_up"
    \/ from \in Running \ {"exit", "commit"} /\ to \in Running \ {"fetch", "exit"}
    \/ from = "commit" /\ to = "exit"

LEMMA LocationsMove ==
    ASSUME TypeInv, [Next]_vars, NEW x \in Executions, pc'[x] # pc[x]
    PROVE  MayMove(pc[x], pc'[x])
  <1>1. ASSUME NEW e \in Executions, NEW to, NEW c, Moves(e, to, c)
        PROVE  x = e /\ pc'[x] = to
    BY <1>1, MovedTo
  <1>2. CASE OutsideStep
    BY <1>2 DEF OutsideStep
  <1>3. ASSUME NEW e \in Executions, StartStep(e) PROVE MayMove(pc[x], pc'[x])
    BY <1>1, <1>3, StartFacts DEF StartStep, MayMove
  <1>4. ASSUME NEW e \in Executions, NEW to, NEW c, EndStep(e, to, c)
        PROVE  MayMove(pc[x], pc'[x])
    BY <1>1, <1>4 DEF EndStep, MayMove
  <1>5. ASSUME NEW e \in Executions, Quiet(e) PROVE MayMove(pc[x], pc'[x])
    <2>1. PICK to, c : QuietFurther(e, to, c)
      BY <1>5, QuietShape
    <2> QED BY <1>1, <2>1 DEF QuietFurther, Further, MayMove
  <1>6. ASSUME NEW e \in Executions, Commit(e) PROVE MayMove(pc[x], pc'[x])
    BY <1>1, <1>6, CommitShape DEF Further, MayMove
  <1> QED BY <1>2, <1>3, <1>4, <1>5, <1>6, EveryStep

LEMMA StepKeepsPromise ==
    ASSUME TypeInv, [Next]_vars, StagesFollowLocations, StagesFollowLocations',
           NEW x \in Executions
    PROVE  Promise(x)!Next \/ UNCHANGED Stage(x)
  <1>1. Stage(x) = StageAt(pc[x]) /\ Stage(x)' = StageAt(pc'[x])
    BY DEF StagesFollowLocations
  <1>2. CASE pc'[x] = pc[x]
    BY <1>1, <1>2
  <1>3. CASE MayMove(pc[x], pc'[x])
    <2> HIDE DEF Stage
    <2>1. \/ Stage(x) \in {"idle", "failed"} /\ Stage(x)' = "running"
          \/ Stage(x) = "running" /\ Stage(x)' = "booked"
          \/ Stage(x) = "booked" /\ Stage(x)' = "succeeded"
          \/ Stage(x) \in {"running", "booked"} /\ Stage(x)' = "failed"
          \/ Stage(x)' = Stage(x)
      BY <1>1, <1>3 DEF StageAt, MayMove, Running
    <2> QED BY <2>1 DEF Promise!Next, Promise!Begin, Promise!Book,
                        Promise!Succeed, Promise!Fail
  <1> QED BY <1>2, <1>3, LocationsMove

(* Whatever overlaps and conflicts, each execution keeps the promise of    *)
(* module JobAttempt: it succeeds only after its transaction is committed, *)
(* commits once per attempt and reports everything else as a failure       *)
(* (main, session.commit, replica_retry_limit).                            *)
THEOREM AttemptsKeepThePromiseAlways == Spec => AttemptsKeepThePromise
  <1>1. Init => \A e \in Executions : Promise(e)!Init
    BY DEF Init, Promise!Init, Stage
  <1>2. /\ TypeInv /\ [Next]_vars /\ StagesFollowLocations
        /\ StagesFollowLocations'
        => \A e \in Executions : Promise(e)!Next \/ UNCHANGED Stage(e)
    BY StepKeepsPromise
  <1>3. Spec => []StagesFollowLocations
    BY StageOfLocation, DatesInvariant, TypeInvariant, PTL
  <1> QED BY <1>1, <1>2, <1>3, TypeInvariant, PTL
          DEF Spec, AttemptsKeepThePromise

-----------------------------------------------------------------------------
(***************************************************************************)
(* One bar, one order (ADR-0006), when a bar the venue has shown does not  *)
(* change any more: in the orders table and at the venue, whatever         *)
(* overlaps, crashes and is retried.                                       *)
(*                                                                         *)
(* OneOrderPerBar is not inductive: a step that commits a second order of  *)
(* a bar is only excluded by the uniqueness of client order ids if both    *)
(* orders have the same id, that is, the same side.  The invariant says    *)
(* that every order's id is a function of its bar, and so is the id every  *)
(* running cycle is going to use.                                          *)
(***************************************************************************)
Informed == {"read_cash", "read_position", "decide", "check", "submit",
             "save", "commit"}

(* A cycle that has its market data acts on the signal of its bar. *)
ActsOnItsBar(at, c) ==
    at \in Informed => /\ c.bar \in 1 .. Len(market)
                       /\ c.signal = market[c.bar].signal

CyclesActOnTheirBar == \A e \in Executions : ActsOnItsBar(pc[e], cycle[e])

IdOfBar(bar) == [cycleId |-> bar, side |-> market[bar].signal.action]

IdsFollowBars(rows) ==
    /\ \A o \in rows : o.bar \in 1 .. Len(market) /\ o.id = IdOfBar(o.bar)
    /\ \A o, p \in rows : o.id = p.id => o = p

BarInv ==
    /\ CyclesActOnTheirBar
    /\ IdsFollowBars(orders)
    /\ IdsFollowBars(venue)

LEMMA BarInvSuffices ==
    BarInv => OneOrderPerBar /\ VenueTradesBarOnce
  BY DEF BarInv, IdsFollowBars, OneOrderPerBar, VenueTradesBarOnce

-----------------------------------------------------------------------------
(* Bars are only ever added. *)

MarketGrows ==
    market' = market \/ \E b \in Bar : market' = Append(market, b)

LEMMA OldBarsStay ==
    ASSUME TypeInv, MarketGrows, NEW i \in 1 .. Len(market)
    PROVE  /\ i \in 1 .. Len(market')
           /\ market'[i] = market[i]
  <1>1. market \in Seq(Bar)
    BY DEF TypeInv, TypeOK
  <1> QED BY <1>1 DEF MarketGrows

LEMMA RowsStay ==
    ASSUME TypeInv, BarInv, MarketGrows
    PROVE  /\ orders' = orders => IdsFollowBars(orders)'
           /\ venue' = venue => IdsFollowBars(venue)'
  <1>1. ASSUME NEW i \in 1 .. Len(market)
        PROVE  i \in 1 .. Len(market') /\ IdOfBar(i)' = IdOfBar(i)
    BY <1>1, OldBarsStay DEF IdOfBar
  <1>2. ASSUME orders' = orders PROVE IdsFollowBars(orders)'
    BY <1>1, <1>2, Zenon DEF BarInv, IdsFollowBars, IdOfBar
  <1>3. ASSUME venue' = venue PROVE IdsFollowBars(venue)'
    BY <1>1, <1>3, Zenon DEF BarInv, IdsFollowBars, IdOfBar
  <1> QED BY <1>2, <1>3

(* One attempt moves to a state in which it acts on its bar. *)
LEMMA MoveKeepsCycles ==
    ASSUME TypeInv, BarInv, NEW e \in Executions, NEW to, NEW c,
           market' = market,
           pc' = [pc EXCEPT ![e] = to],
           cycle' = [cycle EXCEPT ![e] = c],
           ActsOnItsBar(to, c)
    PROVE  CyclesActOnTheirBar'
  <1>1. pc \in [Executions -> Locations] /\ cycle \in [Executions -> Local]
    BY DEF TypeInv, TypeOK
  <1>2. ASSUME NEW x \in Executions
        PROVE  ActsOnItsBar(pc[x], cycle[x])'
    <2>1. CASE x = e
      <3>1. pc'[x] = to /\ cycle'[x] = c
        BY <1>1, <2>1
      <3> QED BY <3>1 DEF ActsOnItsBar
    <2>2. CASE x # e
      <3>1. pc'[x] = pc[x] /\ cycle'[x] = cycle[x]
        BY <1>1, <2>2
      <3> QED BY <3>1 DEF BarInv, CyclesActOnTheirBar, ActsOnItsBar
    <2> QED BY <2>1, <2>2
  <1> QED BY <1>2 DEF CyclesActOnTheirBar

LEMMA QuietKeepsBars ==
    ASSUME TypeInv, BarInv, NEW e \in Executions, NEW to, NEW c,
           pc' = [pc EXCEPT ![e] = to],
           cycle' = [cycle EXCEPT ![e] = c],
           ActsOnItsBar(to, c),
           UNCHANGED <<market, orders, venue>>
    PROVE  BarInv'
  <1>1. CyclesActOnTheirBar'
    BY MoveKeepsCycles
  <1>2. IdsFollowBars(orders)' /\ IdsFollowBars(venue)'
    BY RowsStay DEF MarketGrows
  <1> QED BY <1>1, <1>2 DEF BarInv

(* A new row with the id of its bar, when no row has that id yet. *)
LEMMA NewRowFollowsBar ==
    ASSUME NEW rows, IdsFollowBars(rows), NEW r,
           r.bar \in 1 .. Len(market), r.id = IdOfBar(r.bar),
           \A o \in rows : o.id # r.id
    PROVE  IdsFollowBars(rows \cup {r})
  BY DEF IdsFollowBars

LEMMA IdOfCycle ==
    ASSUME NEW at \in Informed, NEW c, ActsOnItsBar(at, c)
    PROVE  c.bar \in 1 .. Len(market) /\ IdOf(c) = IdOfBar(c.bar)
  BY DEF ActsOnItsBar, IdOf, CycleId, IdOfBar

-----------------------------------------------------------------------------
LEMMA SubmitKeepsBars ==
    ASSUME TypeInv, BarInv, NEW e \in Executions, Submit(e)
    PROVE  BarInv'
  <1> DEFINE c == cycle[e]
  <1>1. PICK o \in SubmitOutcomes(c.signal.action, c.order, c.price,
                                  KnownToVenue(IdOf(c))) :
            /\ Step(e, "submit", "save", Settled(c, o))
            /\ venue' = VenueAfter(c, o.executed)
            /\ UNCHANGED database
    BY DEF Submit
  <1>2. c \in Local /\ ApprovedAt("submit", c) /\ ActsOnItsBar("submit", c)
    BY <1>1, LocalFacts DEF Step, BarInv, CyclesActOnTheirBar
  <1>3. KnownToVenue(IdOf(c)) => o.executed = NoFill
    <2>1. c.signal.action \in OrderSide /\ c.order \in Nat \ {0}
          /\ c.price \in Nat \ {0} /\ KnownToVenue(IdOf(c)) \in BOOLEAN
      BY <1>2 DEF ApprovedAt, Local, KnownToVenue
    <2> QED BY <1>1, <2>1, OutcomeType
  <1>4. c.bar \in 1 .. Len(market) /\ IdOf(c) = IdOfBar(c.bar)
    BY <1>2, IdOfCycle DEF Informed
  <1>5. market' = market /\ orders' = orders
    BY <1>1 DEF Step, world, database
  <1>6. CyclesActOnTheirBar'
    <2>1. Settled(c, o).bar = c.bar /\ Settled(c, o).signal = c.signal
      BY <1>2 DEF Settled, Local
    <2>2. ActsOnItsBar("save", Settled(c, o))
      BY <1>2, <2>1 DEF ActsOnItsBar, Informed
    <2> QED BY <1>1, <1>5, <2>2, MoveKeepsCycles DEF Step
  <1>7. IdsFollowBars(orders)'
    BY <1>5, RowsStay DEF MarketGrows
  <1>8. IdsFollowBars(venue)'
    <2>1. CASE o.executed = NoFill
      BY <1>1, <1>5, <2>1, RowsStay DEF VenueAfter, MarketGrows
    <2>2. CASE o.executed # NoFill
      <3> DEFINE r == [id |-> IdOf(c), bar |-> c.bar, fill |-> o.executed]
      <3>1. venue' = venue \cup {r}
        BY <1>1, <2>2 DEF VenueAfter
      <3>2. \A v \in venue : v.id # r.id
        BY <1>3, <2>2 DEF KnownToVenue
      <3>3. r.bar \in 1 .. Len(market) /\ r.id = IdOfBar(r.bar)
        BY <1>4
      <3> HIDE DEF r
      <3>4. IdsFollowBars(venue \cup {r})
        BY <3>2, <3>3, NewRowFollowsBar DEF BarInv
      <3> QED BY <1>5, <3>1, <3>4 DEF IdsFollowBars, IdOfBar
    <2> QED BY <2>1, <2>2
  <1> QED BY <1>6, <1>7, <1>8 DEF BarInv

LEMMA CommitKeepsBars ==
    ASSUME TypeInv, BarInv, NEW e \in Executions, Commit(e)
    PROVE  BarInv'
  <1> DEFINE c == cycle[e]
  <1>1. Step(e, "commit", "exit", c) /\ ~Conflicts(c) /\ venue' = venue
        /\ orders' = IF c.submitted THEN orders \cup {OrderOf(c)} ELSE orders
    BY DEF Commit
  <1>2. ActsOnItsBar("commit", c)
    BY <1>1 DEF Step, BarInv, CyclesActOnTheirBar
  <1>3. c.bar \in 1 .. Len(market) /\ IdOf(c) = IdOfBar(c.bar)
    BY <1>2, IdOfCycle DEF Informed
  <1>4. market' = market
    BY <1>1 DEF Step, world
  <1>5. CyclesActOnTheirBar'
    <2>1. ActsOnItsBar("exit", c)
      BY DEF ActsOnItsBar, Informed
    <2> QED BY <1>1, <1>4, <2>1, MoveKeepsCycles DEF Step
  <1>6. IdsFollowBars(venue)'
    BY <1>1, <1>4, RowsStay DEF MarketGrows
  <1>7. IdsFollowBars(orders)'
    <2>1. CASE ~c.submitted
      BY <1>1, <1>4, <2>1, RowsStay DEF MarketGrows
    <2>2. CASE c.submitted
      <3>1. \A o \in orders : o.id # OrderOf(c).id
        BY <1>1, <2>2 DEF Conflicts, AlreadyExecuted, OrderOf
      <3>2. OrderOf(c).bar \in 1 .. Len(market)
            /\ OrderOf(c).id = IdOfBar(OrderOf(c).bar)
        BY <1>3 DEF OrderOf
      <3>3. IdsFollowBars(orders \cup {OrderOf(c)})
        BY <3>1, <3>2, NewRowFollowsBar DEF BarInv
      <3> QED BY <1>1, <1>4, <2>2, <3>3 DEF IdsFollowBars, IdOfBar
    <2> QED BY <2>1, <2>2
  <1> QED BY <1>5, <1>6, <1>7 DEF BarInv

LEMMA FetchKeepsBars ==
    ASSUME TypeInv, BarInv, NEW e \in Executions, Fetch(e)
    PROVE  BarInv'
  <1>1. PICK b \in Visible :
            /\ Step(e, "fetch", "read_cash",
                    [cycle[e] EXCEPT !.bar = b,
                                     !.price = market[b].price,
                                     !.signal = market[b].signal])
            /\ UNCHANGED <<venue, database>>
    BY DEF Fetch
  <1> DEFINE c == [cycle[e] EXCEPT !.bar = b,
                                   !.price = market[b].price,
                                   !.signal = market[b].signal]
  <1>2. b \in 1 .. Len(market)
    BY DEF Visible, TypeInv, TypeOK
  <1>3. c.bar = b /\ c.signal = market[b].signal
    BY LocalFacts DEF Local
  <1>4. Step(e, "fetch", "read_cash", c)
    BY <1>1
  <1> HIDE DEF c
  <1>5. ActsOnItsBar("read_cash", c)
    BY <1>2, <1>3 DEF ActsOnItsBar
  <1> QED BY <1>1, <1>4, <1>5, QuietKeepsBars DEF Step, world, database

(* A step after the fetch that keeps the bar and the signal. *)
LEMMA LaterStepKeepsBars ==
    ASSUME TypeInv, BarInv, NEW e \in Executions,
           NEW from \in Informed, NEW to \in Informed, NEW c,
           Step(e, from, to, c), UNCHANGED <<venue, database>>,
           c.bar = cycle[e].bar, c.signal = cycle[e].signal
    PROVE  BarInv'
  <1>1. ActsOnItsBar(from, cycle[e])
    BY DEF Step, BarInv, CyclesActOnTheirBar
  <1>2. ActsOnItsBar(to, c)
    BY <1>1 DEF ActsOnItsBar
  <1> QED BY <1>2, QuietKeepsBars DEF Step, world, database

LEMMA LaterStepsKeepBars ==
    ASSUME TypeInv, BarInv, NEW e \in Executions,
           \/ ReadCash(e) \/ ReadPosition(e) \/ DecideOrder(e)
           \/ CheckDuplicate(e) \/ SavePosition(e)
    PROVE  BarInv'
  <1>1. cycle[e] \in Local
    BY LocalFacts
  <1>2. CASE ReadCash(e)
    <2> DEFINE c == [cycle[e] EXCEPT !.cash = CashOnRecord]
    <2>1. c.bar = cycle[e].bar /\ c.signal = cycle[e].signal
      BY <1>1 DEF Local
    <2> HIDE DEF c
    <2> QED BY <1>2, <2>1, LaterStepKeepsBars DEF ReadCash, Informed, c
  <1>3. CASE ReadPosition(e)
    <2> DEFINE c == [cycle[e] EXCEPT !.quantity = Held(position)]
    <2>1. c.bar = cycle[e].bar /\ c.signal = cycle[e].signal
      BY <1>1 DEF Local
    <2> HIDE DEF c
    <2> QED BY <1>3, <2>1, LaterStepKeepsBars DEF ReadPosition, Informed, c
  <1>4. CASE DecideOrder(e)
    <2> DEFINE opened == [cycle[e] EXCEPT !.opening = OpeningFor(cycle[e])]
               order == Decide(opened.signal, Account(opened), opened.price,
                               opened.killed)
               to == IF order = Hold THEN "commit" ELSE "check"
               c == [opened EXCEPT !.order = order]
    <2>1. Step(e, "decide", to, c) /\ UNCHANGED <<venue, database>>
      BY <1>4 DEF DecideOrder
    <2> HIDE DEF order
    <2>2. c.bar = cycle[e].bar /\ c.signal = cycle[e].signal
      BY <1>1 DEF Local
    <2>3. to \in Informed
      BY DEF Informed
    <2> HIDE DEF c, to
    <2> QED BY <2>1, <2>2, <2>3, LaterStepKeepsBars DEF Informed
  <1>5. CASE CheckDuplicate(e)
    <2>1. PICK to \in {"commit", "submit"} :
              /\ Step(e, "check", to, cycle[e])
              /\ UNCHANGED <<venue, database>>
      BY <1>5 DEF CheckDuplicate
    <2> QED BY <2>1, LaterStepKeepsBars DEF Informed
  <1>6. CASE SavePosition(e)
    <2> DEFINE c == [cycle[e] EXCEPT !.row = position]
    <2>1. c.bar = cycle[e].bar /\ c.signal = cycle[e].signal
      BY <1>1 DEF Local
    <2> HIDE DEF c
    <2> QED BY <1>6, <2>1, LaterStepKeepsBars DEF SavePosition, Informed, c
  <1> QED BY <1>2, <1>3, <1>4, <1>5, <1>6

(* A step to a place where no market data is needed. *)
LEMMA UninformedKeepsBars ==
    ASSUME TypeInv, BarInv, NEW e \in Executions, NEW to, to \notin Informed, NEW c,
           pc' = [pc EXCEPT ![e] = to],
           cycle' = [cycle EXCEPT ![e] = c],
           UNCHANGED <<market, orders, venue>>
    PROVE  BarInv'
  BY QuietKeepsBars DEF ActsOnItsBar

LEMMA FailKeepsBars ==
    ASSUME TypeInv, BarInv, NEW e \in Executions, Fail(e), UNCHANGED venue
    PROVE  BarInv'
  BY UninformedKeepsBars DEF Fail, Informed, world, database

LEMMA PlatformKeepsBars ==
    ASSUME TypeInv, BarInv, NEW e \in Executions,
           Launch(e) \/ Retry(e) \/ GiveUp(e) \/ Exit(e)
    PROVE  BarInv'
  <1>1. CASE Launch(e) \/ Retry(e)
    BY <1>1, UninformedKeepsBars
       DEF Launch, Retry, StartAttempt, Informed, world, database
  <1>2. CASE GiveUp(e)
    <2>1. cycle' = [cycle EXCEPT ![e] = cycle[e]]
      BY <1>2 DEF GiveUp, TypeInv, TypeOK
    <2> QED BY <1>2, <2>1, UninformedKeepsBars
            DEF GiveUp, Informed, world, database
  <1>3. CASE Exit(e)
    BY <1>3, UninformedKeepsBars DEF Exit, Step, Informed, world, database
  <1> QED BY <1>1, <1>2, <1>3

LEMMA WorldKeepsBars ==
    ASSUME TypeInv, BarInv, ~BarsChange,
           NewBar \/ Reprice \/ FlipKillSwitch \/ UNCHANGED vars
    PROVE  BarInv'
  <1>1. MarketGrows /\ UNCHANGED <<orders, venue, pc, cycle>>
    <2>1. NextBars \subseteq Bar
      BY NextBarsAreBars DEF TypeInv, TypeOK
    <2> QED BY <2>1 DEF NewBar, Reprice, FlipKillSwitch, vars, database,
                        MarketGrows
  <1>2. IdsFollowBars(orders)' /\ IdsFollowBars(venue)'
    BY <1>1, RowsStay
  <1>3. CyclesActOnTheirBar'
    BY <1>1, OldBarsStay DEF BarInv, CyclesActOnTheirBar, ActsOnItsBar
  <1> QED BY <1>2, <1>3 DEF BarInv

-----------------------------------------------------------------------------
LEMMA InitBars == Init => BarInv
  BY DEF Init, BarInv, CyclesActOnTheirBar, ActsOnItsBar, IdsFollowBars, Informed

LEMMA NextKeepsBars ==
    ASSUME ~BarsChange
    PROVE  TypeInv /\ BarInv /\ [Next]_vars => BarInv'
  <1> SUFFICES ASSUME TypeInv, BarInv, [Next]_vars PROVE BarInv'
    OBVIOUS
  <1>1. CASE NewBar \/ Reprice \/ FlipKillSwitch \/ UNCHANGED vars
    BY <1>1, WorldKeepsBars
  <1>2. ASSUME NEW e \in Executions,
               Launch(e) \/ Platform(e) \/ Attempt(e) \/ Abort(e)
        PROVE  BarInv'
    <2>1. CASE Launch(e) \/ Retry(e) \/ GiveUp(e) \/ Exit(e)
      BY <2>1, PlatformKeepsBars
    <2>2. CASE Abort(e) \/ FetchStale(e) \/ OpeningInvalid(e) \/ CommitConflict(e)
      BY <2>2, FailKeepsBars
         DEF Abort, FetchStale, OpeningInvalid, CommitConflict
    <2>3. CASE Fetch(e)
      BY <2>3, FetchKeepsBars
    <2>4. CASE \/ ReadCash(e) \/ ReadPosition(e) \/ DecideOrder(e)
               \/ CheckDuplicate(e) \/ SavePosition(e)
      BY <2>4, LaterStepsKeepBars
    <2>5. CASE Submit(e)
      BY <2>5, SubmitKeepsBars
    <2>6. CASE Commit(e)
      BY <2>6, CommitKeepsBars
    <2> QED BY <1>2, <2>1, <2>2, <2>3, <2>4, <2>5, <2>6 DEF Attempt, Platform
  <1> QED BY <1>1, <1>2 DEF Next

(* For any number of overlapping, crashing and retried executions, and for *)
(* either backend, a bar that no longer changes gets one order row at most *)
(* (build_cycle_id, already_executed, the unique client_order_id).         *)
THEOREM OneOrderPerBarAlways ==
    ASSUME ~BarsChange
    PROVE  Spec => []OneOrderPerBar
  <1>1. TypeInv /\ BarInv /\ [Next]_vars => BarInv'
    BY NextKeepsBars
  <1>2. Spec => []BarInv
    BY <1>1, InitBars, TypeInvariant, PTL DEF Spec
  <1> QED BY <1>2, BarInvSuffices, PTL

(* The same of the orders a venue that refuses repeated client order ids   *)
(* executes, the ones no row was ever committed for included.              *)
THEOREM VenueTradesBarOnceAlways ==
    ASSUME ~BarsChange
    PROVE  Spec => []VenueTradesBarOnce
  <1>1. TypeInv /\ BarInv /\ [Next]_vars => BarInv'
    BY NextKeepsBars
  <1>2. Spec => []BarInv
    BY <1>1, InitBars, TypeInvariant, PTL DEF Spec
  <1> QED BY <1>2, BarInvSuffices, PTL
=============================================================================
