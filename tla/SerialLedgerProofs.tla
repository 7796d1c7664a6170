------------------------- MODULE SerialLedgerProofs -------------------------
(***************************************************************************)
(* What executions keep when one starts only after the last has ended      *)
(* (~Overlap): the ledger a cycle reads is still the ledger when it sends  *)
(* its order and when it commits, so the order is sized, checked and       *)
(* booked against the same cash, quantity and day's opening.               *)
(***************************************************************************)
EXTENDS OverlapProofs

-----------------------------------------------------------------------------
(* One execution at a time, from its launch to its last attempt's end.     *)
Alone == \A e, f \in Executions : Active(e) /\ Active(f) => e = f

MayAct(e) == Active(e) \/ \A x \in Executions : ~Active(x)

(* A step of the world, or of the one execution that may act. *)
LEMMA EverySerialStep ==
    ASSUME ~Overlap, TypeInv, [Next]_vars
    PROVE  \/ OutsideStep
           \/ \E e \in Executions : MayAct(e) /\ StartStep(e)
           \/ \E e \in Executions : MayAct(e) /\ \E to, c : EndStep(e, to, c)
           \/ \E e \in Executions : MayAct(e) /\ Quiet(e)
           \/ \E e \in Executions : MayAct(e) /\ Commit(e)
  <1>1. ASSUME NEW e \in Executions, StartStep(e) PROVE MayAct(e)
    BY <1>1 DEF StartStep, MayAct, Active, Ended
  <1>2. ASSUME NEW e \in Executions, NEW to, NEW c, EndStep(e, to, c)
        PROVE  MayAct(e)
    BY <1>2 DEF EndStep, MayAct, Active, Running, Ended
  <1>3. ASSUME NEW e \in Executions, Quiet(e) PROVE MayAct(e)
    <2>1. PICK to, c : QuietFurther(e, to, c)
      BY <1>3, QuietShape
    <2> QED BY <2>1 DEF QuietFurther, Further, MayAct, Active, Running, Ended
  <1>4. ASSUME NEW e \in Executions, Commit(e) PROVE MayAct(e)
    BY <1>4 DEF Commit, Step, MayAct, Active, Ended
  <1> QED BY <1>1, <1>2, <1>3, <1>4, EveryStep

LEMMA MoveKeepsAlone ==
    ASSUME TypeInv, Alone, NEW e \in Executions, MayAct(e),
           NEW to, NEW c, Moves(e, to, c)
    PROVE  Alone'
  <1>1. ASSUME NEW x \in Executions, Active(x)', x # e PROVE FALSE
    <2>1. Active(x)
      BY <1>1, MovedTo DEF Active
    <2> QED BY <1>1, <2>1 DEF Alone, MayAct
  <1> QED BY <1>1 DEF Alone

(* The first snapshot from a moment on, and the newest of all. *)
FirstSince(start, s) ==
    /\ s \in snapshots /\ s.takenAt >= start
    /\ \A t \in snapshots : t.takenAt >= start => s.takenAt <= t.takenAt

LEMMA NewestIsLatest ==
    ASSUME NEW rows, NEW r \in rows, \A s \in rows : s.takenAt \in Nat,
           \A s \in rows : s # r => s.takenAt < r.takenAt
    PROVE  (CHOOSE s \in rows : \A t \in rows : t.takenAt <= s.takenAt) = r
  <1>1. \A t \in rows : t.takenAt <= r.takenAt
    OBVIOUS
  <1>2. \A s \in rows : (\A t \in rows : t.takenAt <= s.takenAt) => s = r
    OBVIOUS
  <1> QED BY <1>1, <1>2

LEMMA ReadsKept ==
    ASSUME UNCHANGED database
    PROVE  /\ CashOnRecord' = CashOnRecord
           /\ LedgerMatchesFills => LedgerMatchesFills'
  <1>1. CashOnRecord' = CashOnRecord
    BY DEF CashOnRecord, LatestSnapshot, database
  <1> QED BY <1>1 DEF LedgerMatchesFills, database

LEMMA OpeningIsFirst ==
    ASSUME TypeInv, NEW start \in Nat, NEW fallback
    PROVE  /\ (\A s \in snapshots : s.takenAt < start) =>
                DayOpeningEquity(start, fallback) = fallback
           /\ (\E s \in snapshots : ~(s.takenAt < start)) =>
                \E s : /\ FirstSince(start, s)
                       /\ DayOpeningEquity(start, fallback) = s.equity
  <1>1. \A s \in snapshots : s.takenAt \in Nat
    BY DEF TypeInv, TypeOK, SnapshotRow
  <1>2. CASE \A s \in snapshots : s.takenAt < start
    <2>1. SnapshotsSince(start) = {}
      BY <1>1, <1>2 DEF SnapshotsSince
    <2> QED BY <1>2, <2>1 DEF DayOpeningEquity
  <1>3. CASE \E s \in snapshots : ~(s.takenAt < start)
    <2>1. SnapshotsSince(start) # {}
      BY <1>1, <1>3 DEF SnapshotsSince
    <2>2. \E s \in SnapshotsSince(start) :
            \A t \in SnapshotsSince(start) : s.takenAt <= t.takenAt
      BY <2>1 DEF TypeInv, Ordered
    <2> DEFINE first == CHOOSE s \in SnapshotsSince(start) :
                          \A t \in SnapshotsSince(start) : s.takenAt <= t.takenAt
    <2>3. /\ first \in SnapshotsSince(start)
          /\ \A t \in SnapshotsSince(start) : first.takenAt <= t.takenAt
      BY <2>2
    <2>4. DayOpeningEquity(start, fallback) = first.equity
      BY <2>1 DEF DayOpeningEquity
    <2> HIDE DEF first
    <2>5. FirstSince(start, first)
      BY <2>3 DEF FirstSince, SnapshotsSince
    <2> QED BY <1>3, <2>4, <2>5
  <1> QED BY <1>2, <1>3

-----------------------------------------------------------------------------
(* What a cycle knows of the ledger, location by location.  It is newer    *)
(* than every snapshot; what it read is what is booked; its order is the   *)
(* policy's decision on what it read; its day's opening is the equity of   *)
(* the day's first snapshot, or its own when there is none; and nobody     *)
(* has booked its order before it.                                         *)
Sizing == {"check", "submit"}
Opened == {"check", "submit", "save", "commit"}

Newer(c) == \A s \in snapshots : s.takenAt < c.now

DecidedOn(c) ==
    /\ c.order = Decide(c.signal, Account(c), c.price, c.killed)
    /\ c.order # Hold
    /\ (\A s \in snapshots : s.takenAt < c.dayStart) =>
         c.opening = c.cash + c.quantity * c.price

BookedAfter(at, c) ==
    IF c.submitted
    THEN /\ c.cash = book.cash + CashDelta(c.signal.action, c.outcome.fill)
         /\ c.quantity = book.quantity
              + QuantityDelta(c.signal.action, c.outcome.fill)
         /\ ~AlreadyExecuted(IdOf(c))
         /\ at = "commit" => c.row = position
    ELSE at = "commit" /\ c.cash = book.cash /\ c.quantity = book.quantity

OnTrack(at, c) ==
    /\ at \in Running \ {"exit"} => Newer(c)
    /\ at \in {"read_position", "decide"} \cup Sizing => c.cash = book.cash
    /\ at \in {"decide"} \cup Sizing => c.quantity = book.quantity
    /\ at \in Sizing => DecidedOn(c)
    /\ at \in Opened =>
         \A s \in snapshots : FirstSince(c.dayStart, s) => c.opening = s.equity
    /\ at = "submit" => ~AlreadyExecuted(IdOf(c))
    /\ at \in {"save", "commit"} => BookedAfter(at, c)

OnePerInstant == \A s, t \in snapshots : s.takenAt = t.takenAt => s = t

SerialInv ==
    /\ Alone
    /\ OnePerInstant
    /\ LedgerMatchesFills
    /\ \A e \in Executions : OnTrack(pc[e], cycle[e])

(* A step that leaves the tables alone keeps the invariant when it leaves  *)
(* its own attempt on track.                                               *)
LEMMA TrackKept ==
    ASSUME TypeInv, SerialInv, NEW e \in Executions, MayAct(e),
           NEW to, NEW c, Moves(e, to, c), UNCHANGED database,
           OnTrack(to, c)
    PROVE  SerialInv'
  <1>1. Alone' /\ LedgerMatchesFills' /\ OnePerInstant'
    BY MoveKeepsAlone, ReadsKept DEF SerialInv, OnePerInstant, database
  <1>2. ASSUME NEW x \in Executions PROVE OnTrack(pc[x], cycle[x])'
    <2>1. PICK at, d : /\ pc'[x] = at /\ cycle'[x] = d
                       /\ OnTrack(at, d)
      BY MovedTo DEF SerialInv
    <2> QED BY <2>1 DEF OnTrack, Newer, DecidedOn, BookedAfter, FirstSince,
                        AlreadyExecuted, database
  <1> QED BY <1>1, <1>2 DEF SerialInv

LEMMA FurtherIsNewer ==
    ASSUME SerialInv, NEW e \in Executions, NEW to, NEW c,
           QuietFurther(e, to, c)
    PROVE  OnTrack(pc[e], cycle[e]) /\ Newer(c)
  <1>1. OnTrack(pc[e], cycle[e])
    BY DEF SerialInv
  <1>2. Newer(cycle[e]) /\ c.now = cycle[e].now
    BY <1>1 DEF QuietFurther, Further, OnTrack
  <1> QED BY <1>1, <1>2 DEF Newer

LEMMA ReadsStayOnTrack ==
    ASSUME TypeInv, SerialInv, NEW e \in Executions, MayAct(e),
           Fetch(e) \/ ReadCash(e) \/ ReadPosition(e)
    PROVE  SerialInv'
  <1>1. CASE Fetch(e)
    <2>1. PICK c : QuietFurther(e, "read_cash", c)
      BY <1>1, FetchShape
    <2>2. OnTrack("read_cash", c)
      BY <2>1, FurtherIsNewer DEF OnTrack, Sizing, Opened
    <2> QED BY <2>1, <2>2, TrackKept DEF QuietFurther, Further
  <1>2. CASE ReadCash(e)
    <2>1. PICK c : /\ QuietFurther(e, "read_position", c)
                   /\ c.cash = CashOnRecord
      BY <1>2, ReadCashShape
    <2>2. c.cash = book.cash
      BY <2>1 DEF SerialInv, LedgerMatchesFills
    <2>3. OnTrack("read_position", c)
      BY <2>1, <2>2, FurtherIsNewer DEF OnTrack, Sizing, Opened
    <2> QED BY <2>1, <2>3, TrackKept DEF QuietFurther, Further
  <1>3. CASE ReadPosition(e)
    <2>1. PICK c : /\ QuietFurther(e, "decide", c) /\ pc[e] = "read_position"
                   /\ c.cash = cycle[e].cash /\ c.quantity = Held(position)
      BY <1>3, ReadPositionShape
    <2>2. c.quantity = book.quantity /\ OnTrack(pc[e], cycle[e])
      BY <2>1 DEF SerialInv, LedgerMatchesFills
    <2>3. c.cash = book.cash
      BY <2>1, <2>2 DEF OnTrack
    <2>4. OnTrack("decide", c)
      BY <2>1, <2>2, <2>3, FurtherIsNewer DEF OnTrack, Sizing, Opened
    <2> QED BY <2>1, <2>4, TrackKept DEF QuietFurther, Further
  <1> QED BY <1>1, <1>2, <1>3

LEMMA DecisionStaysOnTrack ==
    ASSUME TypeInv, SerialInv, NEW e \in Executions, MayAct(e), DecideOrder(e)
    PROVE  SerialInv'
  <1>1. PICK c, to :
          /\ to \in {"check", "commit"}
          /\ QuietFurther(e, to, c)
          /\ pc[e] = "decide"
          /\ SameOrder(cycle[e], c)
          /\ c.cash = cycle[e].cash /\ c.quantity = cycle[e].quantity
          /\ c.opening = OpeningFor(cycle[e])
          /\ c.order = Decide(c.signal, Account(c), c.price, c.killed)
          /\ to = "check" <=> c.order # Hold
    BY DecideShape
  <1>2. /\ OnTrack(pc[e], cycle[e]) /\ Newer(c)
    BY <1>1, FurtherIsNewer
  <1>3. c.cash = book.cash /\ c.quantity = book.quantity
    BY <1>1, <1>2 DEF OnTrack
  <1>4. ~c.submitted
    BY <1>1, LocalFacts DEF ApprovedAt, Unsubmitted, SameOrder
  <1> DEFINE worth == c.cash + c.quantity * c.price
  <1>5. c.opening = DayOpeningEquity(c.dayStart, worth) /\ c.dayStart \in Nat
    <2>1. c.price = cycle[e].price /\ c.dayStart = cycle[e].dayStart
          /\ c \in Local
      BY <1>1 DEF SameOrder, QuietFurther, Further
    <2> QED BY <1>1, <2>1 DEF OpeningFor, Local
  <1>6. (\A s \in snapshots : s.takenAt < c.dayStart) => c.opening = worth
    <2> HIDE DEF worth
    <2> QED BY <1>5, OpeningIsFirst
  <1>7. ASSUME NEW s \in snapshots, FirstSince(c.dayStart, s)
        PROVE  c.opening = s.equity
    <2>1. \A t \in snapshots : t.takenAt \in Nat
      BY DEF TypeInv, TypeOK, SnapshotRow
    <2>2. ~(s.takenAt < c.dayStart)
      BY <1>5, <1>7, <2>1 DEF FirstSince
    <2>3. PICK f : FirstSince(c.dayStart, f) /\ c.opening = f.equity
      <3> HIDE DEF worth
      <3> QED BY <1>5, <2>2, OpeningIsFirst
    <2>4. f = s
      BY <1>7, <2>1, <2>3 DEF FirstSince, SerialInv, OnePerInstant
    <2> QED BY <2>3, <2>4
  <1>8. OnTrack(to, c)
    BY <1>1, <1>2, <1>3, <1>4, <1>6, <1>7
       DEF OnTrack, Sizing, DecidedOn, BookedAfter
  <1> QED BY <1>1, <1>8, TrackKept DEF QuietFurther, Further

LEMMA CheckStaysOnTrack ==
    ASSUME TypeInv, SerialInv, NEW e \in Executions, MayAct(e),
           CheckDuplicate(e)
    PROVE  SerialInv'
  <1> DEFINE c == cycle[e]
  <1>1. PICK to \in {"commit", "submit"} :
          /\ QuietFurther(e, to, c)
          /\ pc[e] = "check"
          /\ to = "submit" <=> ~AlreadyExecuted(IdOf(c))
    BY CheckShape
  <1>2. OnTrack("check", c) /\ Newer(c)
    BY <1>1, FurtherIsNewer
  <1>3. ~c.submitted
    BY <1>1, LocalFacts DEF ApprovedAt, Unsubmitted
  <1>4. OnTrack(to, c)
    BY <1>1, <1>2, <1>3 DEF OnTrack, Sizing, Opened, BookedAfter
  <1> QED BY <1>1, <1>4, TrackKept DEF QuietFurther, Further

LEMMA SubmitStaysOnTrack ==
    ASSUME TypeInv, SerialInv, NEW e \in Executions, MayAct(e), Submit(e)
    PROVE  SerialInv'
  <1>1. PICK c : /\ pc[e] = "submit" /\ QuietFurther(e, "save", c)
                 /\ c.submitted
                 /\ c.signal = cycle[e].signal /\ c.bar = cycle[e].bar
                 /\ c.opening = cycle[e].opening
                 /\ c.cash = cycle[e].cash
                      + CashDelta(c.signal.action, c.outcome.fill)
                 /\ c.quantity = cycle[e].quantity
                      + QuantityDelta(c.signal.action, c.outcome.fill)
    <2>1. PICK o : /\ QuietFurther(e, "save", Settled(cycle[e], o))
                   /\ pc[e] = "submit"
                   /\ Settled(cycle[e], o).submitted
                   /\ Settled(cycle[e], o).outcome = o
                   /\ Settled(cycle[e], o).signal = cycle[e].signal
                   /\ Settled(cycle[e], o).bar = cycle[e].bar
                   /\ Settled(cycle[e], o).cash = cycle[e].cash
                        + CashDelta(cycle[e].signal.action, o.fill)
                   /\ Settled(cycle[e], o).quantity = cycle[e].quantity
                        + QuantityDelta(cycle[e].signal.action, o.fill)
      BY SubmitShape
    <2>2. Settled(cycle[e], o).opening = cycle[e].opening
      BY LocalFacts DEF Settled, Local
    <2> QED BY <2>1, <2>2
  <1>2. OnTrack("submit", cycle[e]) /\ Newer(c)
    BY <1>1, FurtherIsNewer
  <1>3. IdOf(c) = IdOf(cycle[e])
    BY <1>1 DEF IdOf, CycleId
  <1>4. ~AlreadyExecuted(IdOf(c))
    BY <1>2, <1>3 DEF OnTrack
  <1>5. cycle[e].cash = book.cash /\ cycle[e].quantity = book.quantity
    BY <1>2 DEF OnTrack, Sizing
  <1>6. BookedAfter("save", c)
    BY <1>1, <1>4, <1>5 DEF BookedAfter
  <1>7. c.dayStart = cycle[e].dayStart
    BY <1>1 DEF QuietFurther, Further
  <1>8. OnTrack("save", c)
    BY <1>1, <1>2, <1>6, <1>7 DEF OnTrack, Sizing, Opened
  <1> QED BY <1>1, <1>8, TrackKept DEF QuietFurther, Further

LEMMA SaveStaysOnTrack ==
    ASSUME TypeInv, SerialInv, NEW e \in Executions, MayAct(e),
           SavePosition(e)
    PROVE  SerialInv'
  <1>1. PICK c : /\ QuietFurther(e, "commit", c)
                 /\ pc[e] = "save"
                 /\ SameOrder(cycle[e], c)
                 /\ c.cash = cycle[e].cash /\ c.quantity = cycle[e].quantity
                 /\ c.opening = cycle[e].opening
                 /\ c.row = position
    BY SaveShape
  <1>2. OnTrack("save", cycle[e]) /\ Newer(c)
    BY <1>1, FurtherIsNewer
  <1>3. IdOf(c) = IdOf(cycle[e])
    BY <1>1 DEF IdOf, CycleId, SameOrder
  <1>4. c.dayStart = cycle[e].dayStart
    BY <1>1 DEF QuietFurther, Further
  <1>5. BookedAfter("commit", c)
    BY <1>1, <1>2, <1>3 DEF OnTrack, BookedAfter, SameOrder
  <1>6. OnTrack("commit", c)
    BY <1>1, <1>2, <1>4, <1>5 DEF OnTrack, Sizing, Opened
  <1> QED BY <1>1, <1>6, TrackKept DEF QuietFurther, Further

LEMMA StartStaysOnTrack ==
    ASSUME TypeInv, DatesInv, SerialInv, NEW e \in Executions, MayAct(e),
           StartStep(e)
    PROVE  SerialInv'
  <1> DEFINE c == cycle'[e]
  <1>1. Moves(e, "fetch", c) /\ c.now = clock /\ UNCHANGED database
    BY StartFacts DEF StartStep
  <1>2. Newer(c)
    BY <1>1 DEF DatesInv, Newer
  <1>3. OnTrack("fetch", c)
    BY <1>2 DEF OnTrack, Sizing, Opened
  <1> QED BY <1>1, <1>3, TrackKept

LEMMA EndStaysOnTrack ==
    ASSUME TypeInv, SerialInv, NEW e \in Executions, MayAct(e),
           NEW to, NEW c, EndStep(e, to, c)
    PROVE  SerialInv'
  <1>1. OnTrack(to, c)
    BY DEF EndStep, OnTrack, Running, Sizing, Opened
  <1> QED BY <1>1, TrackKept DEF EndStep

LEMMA CommitBooksWhatItHolds ==
    ASSUME TypeInv, SerialInv, NEW e \in Executions, Commit(e)
    PROVE  /\ OnTrack("commit", cycle[e])
           /\ book'.cash = cycle[e].cash /\ book'.quantity = cycle[e].quantity
           /\ LedgerMatchesFills'
  <1> DEFINE c == cycle[e]
             r == SnapshotOf(c)
  <1>1. pc[e] = "commit" /\ snapshots' = snapshots \cup {r}
    BY CommitShape
  <1>2. OnTrack("commit", c)
    BY <1>1 DEF SerialInv
  <1>3. c.cash \in Int /\ c.quantity \in Nat
    BY LocalFacts DEF Local
  <1>4. book'.cash = c.cash /\ book'.quantity = c.quantity
    BY <1>2 DEF Commit, OnTrack, BookedAfter
  <1>5. CashOnRecord' = c.cash
    <2>1. r.takenAt = c.now /\ r.cash = c.cash
      BY DEF SnapshotOf
    <2>2. TypeInv'
      BY CommitKeepsTypes
    <2>3. \A s \in snapshots' : s.takenAt \in Nat
      BY <2>2 DEF TypeInv, TypeOK, SnapshotRow
    <2>4. \A s \in snapshots : s.takenAt < c.now
      BY <1>2 DEF OnTrack, Newer, Running
    <2> HIDE DEF r
    <2>5. LatestSnapshot' = r
      BY <1>1, <2>1, <2>3, <2>4, NewestIsLatest DEF LatestSnapshot
    <2>6. snapshots' # {}
      BY <1>1
    <2> QED BY <2>1, <2>5, <2>6 DEF CashOnRecord
  <1>6. Held(position') = c.quantity
    <2>1. position' = PositionAfter(c)
      BY DEF Commit
    <2>2. CASE c.submitted
      <3>1. c.row = position
        BY <1>2, <2>2 DEF OnTrack, BookedAfter
      <3> QED BY <1>3, <2>1, <2>2, <3>1 DEF PositionAfter, Held, NoRow
    <2>3. CASE ~c.submitted
      <3>1. c.quantity = book.quantity
        BY <1>2, <2>3 DEF OnTrack, BookedAfter
      <3>2. Held(position) = book.quantity
        BY DEF SerialInv, LedgerMatchesFills
      <3> QED BY <2>1, <2>3, <3>1, <3>2 DEF PositionAfter
    <2> QED BY <2>2, <2>3
  <1>7. LedgerMatchesFills'
    BY <1>4, <1>5, <1>6 DEF LedgerMatchesFills, Held
  <1> QED BY <1>2, <1>4, <1>7

LEMMA CommitStaysOnTrack ==
    ASSUME TypeInv, SerialInv, NEW e \in Executions, MayAct(e), Commit(e)
    PROVE  SerialInv'
  <1> DEFINE c == cycle[e]
             r == SnapshotOf(c)
  <1>1. /\ Moves(e, "exit", c) /\ pc[e] = "commit"
        /\ snapshots' = snapshots \cup {r} /\ r.takenAt = c.now
    BY CommitShape DEF Further, SnapshotOf
  <1>2. Alone'
    BY <1>1, MoveKeepsAlone DEF SerialInv
  <1>3. OnePerInstant'
    <2>1. \A s \in snapshots : s.takenAt < r.takenAt /\ s.takenAt \in Nat
      BY <1>1, CommitBooksWhatItHolds
         DEF OnTrack, Newer, Running, TypeInv, TypeOK, SnapshotRow
    <2> HIDE DEF r
    <2>2. \A s \in snapshots : s.takenAt # r.takenAt
      BY <1>1, <2>1, LocalFacts DEF Local
    <2> QED BY <1>1, <2>2 DEF SerialInv, OnePerInstant
  <1>4. ASSUME NEW x \in Executions PROVE OnTrack(pc[x], cycle[x])'
    <2>1. pc'[x] \notin Running \ {"exit"}
      <3>1. CASE x = e
        BY <1>1, <3>1, MovedTo
      <3>2. CASE x # e
        <4>1. Active(e)
          BY <1>1 DEF Active, Ended
        <4>2. ~Active(x)
          BY <3>2, <4>1 DEF SerialInv, Alone
        <4> QED BY <1>1, <3>2, <4>2, MovedTo DEF Active, Running, Ended
      <3> QED BY <3>1, <3>2
    <2> QED BY <2>1 DEF OnTrack, Running, Sizing, Opened
  <1> QED BY <1>2, <1>3, <1>4, CommitBooksWhatItHolds DEF SerialInv

LEMMA NextKeepsSerial ==
    ASSUME ~Overlap
    PROVE  TypeInv /\ DatesInv /\ SerialInv /\ [Next]_vars => SerialInv'
  <1> SUFFICES ASSUME TypeInv, DatesInv, SerialInv, [Next]_vars PROVE SerialInv'
    OBVIOUS
  <1>1. CASE OutsideStep
    <2>1. UNCHANGED database /\ UNCHANGED <<pc, cycle>>
      BY <1>1 DEF OutsideStep
    <2>2. LedgerMatchesFills'
      BY <2>1, ReadsKept DEF SerialInv
    <2>3. Alone' /\ OnePerInstant'
      BY <2>1 DEF SerialInv, Alone, Active, OnePerInstant, database
    <2>4. ASSUME NEW x \in Executions PROVE OnTrack(pc[x], cycle[x])'
      <3>1. OnTrack(pc[x], cycle[x])
        BY DEF SerialInv
      <3> QED BY <2>1, <3>1 DEF OnTrack, Newer, DecidedOn, BookedAfter,
                                FirstSince, AlreadyExecuted, database
    <2> QED BY <2>2, <2>3, <2>4 DEF SerialInv
  <1>2. ASSUME NEW e \in Executions, MayAct(e), Quiet(e) PROVE SerialInv'
    BY <1>2, ReadsStayOnTrack, DecisionStaysOnTrack, CheckStaysOnTrack,
       SubmitStaysOnTrack, SaveStaysOnTrack DEF Quiet
  <1> QED BY <1>1, <1>2, StartStaysOnTrack, EndStaysOnTrack,
             CommitStaysOnTrack, EverySerialStep

LEMMA InitSerial == Init => SerialInv
  <1> SUFFICES ASSUME Init PROVE SerialInv
    OBVIOUS
  <1>1. Alone /\ OnePerInstant
    BY DEF Init, Alone, Active, OnePerInstant
  <1>2. LedgerMatchesFills
    BY DEF Init, LedgerMatchesFills, CashOnRecord, Held
  <1>3. \A e \in Executions : OnTrack(pc[e], cycle[e])
    BY DEF Init, OnTrack, Running, Sizing, Opened
  <1> QED BY <1>1, <1>2, <1>3 DEF SerialInv

LEMMA SerialInvariant ==
    ASSUME ~Overlap
    PROVE  Spec => []SerialInv
  <1>1. TypeInv /\ DatesInv /\ SerialInv /\ [Next]_vars => SerialInv'
    BY NextKeepsSerial
  <1> QED BY <1>1, InitSerial, TypeInvariant, DatesInvariant, PTL DEF Spec

-----------------------------------------------------------------------------
(* What the invariant says of the ledger and of an order about to be sent. *)

(* Cash and position as the next cycle reads them are the initial cash and *)
(* the committed fills added up, whatever crashed, conflicted or was       *)
(* rolled back before (latest_snapshot_for, apply_execution,               *)
(* save_position, record_equity_snapshot).                                 *)
THEOREM LedgerMatchesFillsAlways ==
    ASSUME ~Overlap
    PROVE  Spec => []LedgerMatchesFills
  <1>1. SerialInv => LedgerMatchesFills
    BY DEF SerialInv
  <1> QED BY <1>1, SerialInvariant, PTL

(* The look-up before the submission finds every earlier order, and the    *)
(* position row save_position found is still the row at the commit: no     *)
(* commit fails on a unique constraint (already_executed, save_position).  *)
THEOREM ReplaysAreCaughtEarlyAlways ==
    ASSUME ~Overlap
    PROVE  Spec => []ReplaysAreCaughtEarly
  <1>1. SerialInv => ReplaysAreCaughtEarly
    <2> SUFFICES ASSUME SerialInv, NEW e \in Executions, pc[e] = "commit"
                 PROVE  ~Conflicts(cycle[e])
      BY DEF ReplaysAreCaughtEarly
    <2>1. OnTrack("commit", cycle[e])
      BY DEF SerialInv
    <2> QED BY <2>1 DEF OnTrack, BookedAfter, Conflicts
  <1> QED BY <1>1, SerialInvariant, PTL

LEMMA SentOrderFits ==
    ASSUME TypeInv, SerialInv, NEW e \in Executions, pc[e] = "submit"
    PROVE  FitsBook(cycle[e]) /\ WithinLossBudget(cycle[e])
  <1> DEFINE c == cycle[e]
             account == Account(c)
             worth == book.cash + book.quantity * c.price
  <1>1. OnTrack("submit", c) /\ c \in Local /\ ApprovedAt("submit", c)
    BY LocalFacts DEF SerialInv
  <1>2. /\ c.cash = book.cash /\ c.quantity = book.quantity /\ DecidedOn(c)
        /\ \A s \in snapshots : FirstSince(c.dayStart, s) => c.opening = s.equity
    BY <1>1 DEF OnTrack, Sizing, Opened
  <1>3. /\ c.signal \in Signal /\ c.signal.action \in OrderSide
        /\ c.price \in Nat \ {0} /\ c.killed \in BOOLEAN
        /\ c.cash \in Int /\ c.quantity \in Nat /\ c.opening \in Nat \ {0}
        /\ c.order \in Nat /\ c.dayStart \in Nat
    BY <1>1 DEF ApprovedAt, Local
  <1>4. /\ account \in AccountState
        /\ account.cash = c.cash /\ account.quantity = c.quantity
        /\ account.opening = c.opening
    BY <1>3 DEF Account, AccountState
  <1> HIDE DEF account
  <1>5. /\ ~LossBudgetBreached(account, c.price)
        /\ c.signal.action = "buy" =>
             /\ c.order * c.price <= Headroom(account, c.price)
             /\ c.order * c.price <= account.cash
        /\ c.signal.action = "sell" => c.order <= account.quantity
    BY <1>2, <1>3, <1>4, ApprovedOrderFits DEF DecidedOn, account
  <1>6. FitsBook(c)
    <2>1. CASE c.signal.action = "buy"
      <3>1. c.order * c.price <= MaxPositionQuote - c.quantity * c.price
        BY <1>4, <1>5, <2>1 DEF Headroom
      <3>2. (c.quantity + c.order) * c.price
              = c.quantity * c.price + c.order * c.price
        BY <1>3, SMT
      <3>3. c.quantity * c.price \in Int /\ c.order * c.price \in Int
            /\ MaxPositionQuote \in Int
        BY <1>3, LimitsAssumption, SMT
      <3>4. (c.quantity + c.order) * c.price <= MaxPositionQuote
        BY <3>1, <3>2, <3>3
      <3> QED BY <1>2, <1>4, <1>5, <2>1, <3>4 DEF FitsBook
    <2>2. CASE c.signal.action = "sell"
      BY <1>2, <1>4, <1>5, <2>2 DEF FitsBook
    <2> QED BY <1>3, <2>1, <2>2 DEF OrderSide
  <1>7. WithinLossBudget(c)
    <2>1. ~(worth - c.opening <= -MaxDailyLossQuote)
      BY <1>2, <1>4, <1>5 DEF LossBudgetBreached, DailyPnl, EquityAt
    <2>2. worth \in Int /\ MaxDailyLossQuote \in Int
      <3>1. c.quantity * c.price \in Int
        BY <1>3, SMT
      <3> QED BY <1>2, <1>3, <3>1, LimitsAssumption
    <2>3. worth = c.cash + c.quantity * c.price
      BY <1>2
    <2> HIDE DEF worth
    <2>4. c.opening = DayOpeningEquity(c.dayStart, worth)
      <3>1. CASE \A s \in snapshots : s.takenAt < c.dayStart
        BY <1>2, <1>3, <2>3, <3>1, OpeningIsFirst DEF DecidedOn
      <3>2. CASE \E s \in snapshots : ~(s.takenAt < c.dayStart)
        <4>1. PICK s : /\ FirstSince(c.dayStart, s)
                       /\ DayOpeningEquity(c.dayStart, worth) = s.equity
          BY <1>3, <3>2, OpeningIsFirst
        <4> QED BY <1>2, <4>1 DEF FirstSince
      <3> QED BY <3>1, <3>2
    <2>5. worth - c.opening > -MaxDailyLossQuote
      BY <1>3, <2>1, <2>2
    <2> QED BY <2>4, <2>5 DEF WithinLossBudget, worth
  <1> QED BY <1>6, <1>7

(* A buy respects the position limit and the cash on hand, a sale the      *)
(* quantity held, as the ledger records them at the moment the order is    *)
(* sent and not only as the cycle read them (PolicyEngine.decide, sized on *)
(* what load_account_state read).                                          *)
THEOREM OrdersFitTheBookAlways ==
    ASSUME ~Overlap
    PROVE  Spec => OrdersFitTheBook
  <1>1. TypeInv /\ SerialInv =>
          \A e \in Executions : Submits(e) => FitsBook(cycle[e])
    BY SentOrderFits DEF Submits
  <1> QED BY <1>1, TypeInvariant, SerialInvariant, PTL DEF OrdersFitTheBook

(* No order is sent once the recorded fills have lost the daily limit      *)
(* against the equity of the day's first snapshot (day_opening_equity,     *)
(* PolicyEngine.decide).                                                   *)
THEOREM OrdersWithinLossBudgetAlways ==
    ASSUME ~Overlap
    PROVE  Spec => OrdersWithinLossBudget
  <1>1. TypeInv /\ SerialInv =>
          \A e \in Executions : Submits(e) => WithinLossBudget(cycle[e])
    BY SentOrderFits DEF Submits
  <1> QED BY <1>1, TypeInvariant, SerialInvariant, PTL
          DEF OrdersWithinLossBudget

-----------------------------------------------------------------------------
(* The refinement: a commit of a submitted order is the atomic ledger's    *)
(* booking, every other step a stutter.                                    *)

LEMMA InitImplementsLedger == Init => Abstract!Init
  BY DEF Init, Abstract!Init, CashOnRecord, Held

LEMMA StepKeepsTables ==
    ASSUME TypeInv, [Next]_vars, \A e \in Executions : ~Commit(e)
    PROVE  UNCHANGED database
  <1>1. ASSUME NEW e \in Executions, Quiet(e) PROVE UNCHANGED database
    BY <1>1, QuietShape DEF QuietFurther
  <1> QED BY <1>1, EveryStep DEF OutsideStep, StartStep, StartAttempt, EndStep

LEMMA StepImplementsLedger ==
    ASSUME TypeInv, TypeInv', SerialInv, SerialInv', [Next]_vars
    PROVE  Abstract!Book \/ UNCHANGED Abstract!ledger
  <1>1. /\ CashOnRecord = book.cash /\ CashOnRecord' = book'.cash
        /\ Held(position) = book.quantity /\ Held(position)' = book'.quantity
    BY DEF SerialInv, LedgerMatchesFills
  <1>2. CASE UNCHANGED database
    BY <1>1, <1>2 DEF database, Abstract!ledger
  <1>3. ASSUME NEW e \in Executions, Commit(e)
        PROVE  Abstract!Book \/ UNCHANGED Abstract!ledger
    <2> DEFINE c == cycle[e]
               row == OrderOf(c)
    <2>1. CASE ~c.submitted
      <3>1. orders' = orders /\ book' = book
        BY <1>3, <2>1 DEF Commit
      <3> QED BY <1>1, <3>1 DEF Abstract!ledger
    <2>2. CASE c.submitted
      <3>1. /\ orders' = orders \cup {row}
            /\ \A earlier \in orders : earlier.id # row.id
        BY <1>3, <2>2 DEF Commit, Conflicts, AlreadyExecuted, OrderOf
      <3>2. row.id.side = c.signal.action /\ row.fill = c.outcome.fill
        BY DEF OrderOf, IdOf
      <3>3. /\ book'.cash = book.cash + CashDelta(row.id.side, row.fill)
            /\ book'.quantity = book.quantity
                 + QuantityDelta(row.id.side, row.fill)
        BY <1>3, <2>2, <3>2 DEF Commit
      <3>4. book'.quantity >= 0
        <4>1. book'.quantity = c.quantity
          BY <1>3, CommitBooksWhatItHolds
        <4> QED BY <4>1, LocalFacts DEF Local
      <3> HIDE DEF row
      <3>5. Abstract!Book
        BY <1>1, <3>1, <3>3, <3>4
           DEF Abstract!Book, Abstract!CashDelta, Abstract!QuantityDelta,
               Abstract!Notional, CashDelta, QuantityDelta, Notional
      <3> QED BY <3>5
    <2> QED BY <2>1, <2>2
  <1> QED BY <1>2, <1>3, StepKeepsTables

(* When executions do not overlap, the tables behave as a ledger in which  *)
(* an order is booked once, in one step, by exactly its fill, and nothing  *)
(* else ever changes cash or quantity: no replay, rollback, conflict or    *)
(* retry is visible to a reader (the session's one transaction per cycle). *)
THEOREM CycleImplementsAtomicLedger ==
    ASSUME ~Overlap
    PROVE  Spec => ImplementsAtomicLedger
  <1>1. /\ TypeInv /\ TypeInv' /\ SerialInv /\ SerialInv' /\ [Next]_vars
        => Abstract!Book \/ UNCHANGED Abstract!ledger
    BY StepImplementsLedger
  <1> QED BY <1>1, InitImplementsLedger, TypeInvariant, SerialInvariant, PTL
          DEF Spec, ImplementsAtomicLedger, Abstract!Spec

-----------------------------------------------------------------------------
(* A cycle measures the day from the midnight it started after, and is not *)
(* a cycle of a day that began later.                                      *)
InItsDay(at, c) ==
    at \in Running \ {"exit"} => c.dayStart = midnight \/ c.now < midnight

DayInv ==
    /\ OneOpeningPerDay
    /\ \A e \in Executions : InItsDay(pc[e], cycle[e])

LEMMA MoveKeepsDay ==
    ASSUME TypeInv, DayInv, NEW e \in Executions, NEW to, NEW c,
           Moves(e, to, c), midnight' = midnight, snapshots' = snapshots,
           InItsDay(to, c)
    PROVE  DayInv'
  <1>1. OneOpeningPerDay'
    BY DEF DayInv, OneOpeningPerDay, SnapshotsSince
  <1>2. ASSUME NEW x \in Executions PROVE InItsDay(pc[x], cycle[x])'
    <2>1. PICK at, d : pc'[x] = at /\ cycle'[x] = d /\ InItsDay(at, d)
      BY MovedTo DEF DayInv
    <2> QED BY <2>1 DEF InItsDay
  <1> QED BY <1>1, <1>2 DEF DayInv

LEMMA CommitKeepsDay ==
    ASSUME TypeInv, SerialInv, DayInv, NEW e \in Executions, Commit(e)
    PROVE  DayInv'
  <1> DEFINE c == cycle[e]
             r == SnapshotOf(c)
  <1>1. /\ Moves(e, "exit", c) /\ pc[e] = "commit" /\ midnight' = midnight
        /\ snapshots' = snapshots \cup {r}
    BY CommitShape DEF Further, world
  <1>2. r.takenAt = c.now /\ r.opening = c.opening
    BY DEF SnapshotOf
  <1> HIDE DEF r
  <1>3. /\ c.now \in Nat /\ midnight \in Nat
        /\ \A s \in snapshots : s.takenAt \in Nat /\ s.takenAt < c.now
    <2>1. \A s \in snapshots : s.takenAt < c.now
      BY CommitBooksWhatItHolds DEF OnTrack, Newer, Running
    <2>2. c.now \in Nat
      BY LocalFacts DEF Local
    <2> QED BY <2>1, <2>2 DEF TypeInv, TypeOK, SnapshotRow
  <1>4. OneOpeningPerDay'
    <2> SUFFICES ASSUME NEW s \in snapshots', NEW t \in snapshots',
                        s.takenAt >= midnight, t.takenAt >= midnight, s # t,
                        \A u \in snapshots' :
                          u.takenAt >= midnight => s.takenAt <= u.takenAt
                 PROVE  t.opening = s.equity
      BY <1>1 DEF OneOpeningPerDay, SnapshotsSince
    <2>1. s # r
      BY <1>1, <1>2, <1>3
    <2>2. CASE t # r
      BY <1>1, <2>1, <2>2 DEF DayInv, OneOpeningPerDay, SnapshotsSince
    <2>3. CASE t = r
      <3>1. c.dayStart = midnight
        BY <1>1, <1>2, <1>3, <2>3 DEF DayInv, InItsDay, Running
      <3>2. FirstSince(c.dayStart, s)
        BY <1>1, <2>1, <3>1 DEF FirstSince
      <3>3. c.opening = s.equity
        BY <3>2, CommitBooksWhatItHolds DEF OnTrack, Opened, FirstSince
      <3> QED BY <1>2, <2>3, <3>3
    <2> QED BY <2>2, <2>3
  <1>5. ASSUME NEW x \in Executions PROVE InItsDay(pc[x], cycle[x])'
    <2>1. CASE x = e
      BY <1>1, <2>1, MovedTo DEF InItsDay
    <2>2. CASE x # e
      <3>1. pc'[x] = pc[x] /\ cycle'[x] = cycle[x]
        BY <1>1, <2>2, MovedTo
      <3> QED BY <1>1, <3>1 DEF DayInv, InItsDay
    <2> QED BY <2>1, <2>2
  <1> QED BY <1>4, <1>5 DEF DayInv

LEMMA NextKeepsDay ==
    TypeInv /\ DatesInv /\ SerialInv /\ DayInv /\ [Next]_vars => DayInv'
  <1> SUFFICES ASSUME TypeInv, DatesInv, SerialInv, DayInv, [Next]_vars
               PROVE  DayInv'
    OBVIOUS
  <1>1. CASE OutsideStep
    <2>1. UNCHANGED <<pc, cycle, snapshots>>
          /\ (midnight' = midnight \/ midnight' = clock)
      BY <1>1 DEF OutsideStep, database
    <2>2. CASE midnight' = midnight
      BY <2>1, <2>2 DEF DayInv, OneOpeningPerDay, SnapshotsSince, InItsDay
    <2>3. CASE midnight' = clock
      <3>1. \A s \in snapshots : s.takenAt < clock /\ s.takenAt \in Nat
            /\ clock \in Nat
        BY DEF DatesInv, TypeInv, TypeOK, SnapshotRow
      <3>2. OneOpeningPerDay'
        <4>1. ASSUME NEW s \in snapshots', s.takenAt >= midnight' PROVE FALSE
          BY <2>1, <2>3, <3>1, <4>1
        <4> QED BY <4>1 DEF OneOpeningPerDay, SnapshotsSince
      <3>3. ASSUME NEW x \in Executions PROVE InItsDay(pc[x], cycle[x])'
        BY <2>1, <2>3 DEF InItsDay, DatesInv
      <3> QED BY <3>2, <3>3 DEF DayInv
    <2> QED BY <2>1, <2>2, <2>3
  <1>2. ASSUME NEW e \in Executions, StartStep(e) PROVE DayInv'
    <2> DEFINE c == cycle'[e]
    <2>1. /\ Moves(e, "fetch", c) /\ c.dayStart = midnight
          /\ midnight' = midnight /\ snapshots' = snapshots
      BY <1>2, StartFacts DEF StartStep, world, database
    <2>2. InItsDay("fetch", c)
      BY <2>1 DEF InItsDay
    <2> QED BY <2>1, <2>2, MoveKeepsDay
  <1>3. ASSUME NEW e \in Executions, NEW to, NEW c, EndStep(e, to, c)
        PROVE  DayInv'
    <2>1. InItsDay(to, c)
      BY <1>3 DEF EndStep, InItsDay, Running
    <2> QED BY <1>3, <2>1, MoveKeepsDay DEF EndStep, world, database
  <1>4. ASSUME NEW e \in Executions, Quiet(e) PROVE DayInv'
    <2>1. PICK to, c : QuietFurther(e, to, c)
      BY <1>4, QuietShape
    <2>2. InItsDay(to, c)
      BY <2>1 DEF QuietFurther, Further, DayInv, InItsDay
    <2> QED BY <2>1, <2>2, MoveKeepsDay
            DEF QuietFurther, Further, world, database
  <1> QED BY <1>1, <1>2, <1>3, <1>4, CommitKeepsDay, EveryStep

(* Every cycle of a day after its first measures its loss against the      *)
(* equity of that first one, even a cycle that midnight overtakes          *)
(* (day_opening_equity).                                                   *)
THEOREM OneOpeningPerDayAlways ==
    ASSUME ~Overlap
    PROVE  Spec => []OneOpeningPerDay
  <1>1. Init => DayInv
    BY DEF Init, DayInv, OneOpeningPerDay, SnapshotsSince, InItsDay, Running
  <1>2. DayInv => OneOpeningPerDay
    BY DEF DayInv
  <1> QED BY <1>1, <1>2, NextKeepsDay, TypeInvariant, DatesInvariant,
             SerialInvariant, PTL DEF Spec

-----------------------------------------------------------------------------
(* The simulator's fills: the price is rounded, but never past the price   *)
(* shown.                                                                  *)

LEMMA SlippageWorksAgainst ==
    ASSUME NEW price \in Nat
    PROVE  /\ SlippedPrice("buy", price) \in Nat
           /\ SlippedPrice("sell", price) \in Nat
           /\ SlippedPrice("buy", price) >= price
           /\ SlippedPrice("sell", price) <= price
  <1> DEFINE up == price * (BPS + SlippageBps)
             down == price * (BPS - SlippageBps)
  <1>1. SlippageBps \in Nat /\ SlippageBps <= BPS
    BY ExchangeAssumption DEF BPS
  <1>2. /\ up \in Nat /\ down \in Nat
        /\ price * BPS <= up /\ down <= price * BPS
    BY <1>1, SMT DEF BPS
  <1> HIDE DEF up, down
  <1>3. RoundHalfUp(up, BPS) \in Nat /\ RoundHalfUp(up, BPS) >= price
    BY <1>2 DEF RoundHalfUp, BPS
  <1>4. RoundHalfUp(down, BPS) \in Nat /\ RoundHalfUp(down, BPS) <= price
    BY <1>2 DEF RoundHalfUp, BPS
  <1> QED BY <1>3, <1>4 DEF SlippedPrice, up, down

LEMMA SimulatedFillCosts ==
    ASSUME NEW side \in OrderSide, NEW quantity \in Nat, NEW price \in Nat
    PROVE  CashDelta(side, SimulatedFill(side, quantity, price))
             + QuantityDelta(side, SimulatedFill(side, quantity, price)) * price
               <= 0
  <1> DEFINE fill == SimulatedFill(side, quantity, price)
             slipped == SlippedPrice(side, price)
  <1>1. fill \in Fill /\ fill.quantity = quantity
    BY SimulatedFillType
  <1>2. fill.price = slipped /\ fill.fee \in Nat
    BY <1>1 DEF SimulatedFill, Fill
  <1> HIDE DEF fill, slipped
  <1>3. CASE side = "buy"
    <2>1. slipped \in Nat /\ slipped >= price
      BY <1>3, SlippageWorksAgainst DEF slipped
    <2>2. quantity * price <= quantity * slipped
          /\ quantity * slipped \in Nat /\ quantity * price \in Nat
      BY <2>1, SMT
    <2>3. /\ CashDelta(side, fill) = -(quantity * slipped + fill.fee)
          /\ QuantityDelta(side, fill) = quantity
      BY <1>1, <1>2, <1>3 DEF CashDelta, QuantityDelta, Notional
    <2> QED BY <1>2, <2>2, <2>3 DEF fill
  <1>4. CASE side = "sell"
    <2>1. slipped \in Nat /\ slipped <= price
      BY <1>4, SlippageWorksAgainst DEF slipped
    <2>2. quantity * slipped <= quantity * price
          /\ quantity * slipped \in Nat /\ quantity * price \in Nat
      BY <2>1, SMT
    <2>3. /\ CashDelta(side, fill) = quantity * slipped - fill.fee
          /\ QuantityDelta(side, fill) = -quantity
      BY <1>1, <1>2, <1>4 DEF CashDelta, QuantityDelta, Notional
    <2>4. (-quantity) * price = -(quantity * price)
      BY SMT
    <2> QED BY <1>2, <2>2, <2>3, <2>4 DEF fill
  <1> QED BY <1>3, <1>4 DEF OrderSide

(* An order sent to the simulator does not make the account richer at the  *)
(* price its cycle saw.                                                    *)
Loses(c) ==
    CashDelta(c.signal.action, c.outcome.fill)
        + QuantityDelta(c.signal.action, c.outcome.fill) * c.price <= 0

Costs(at, c) == at \in {"save", "commit"} /\ c.submitted => Loses(c)

IsLast(s) == \A u \in snapshots : u.takenAt <= s.takenAt

(* The newest snapshot holds what is booked, so that the account a commit  *)
(* leaves can be compared with the account the snapshot before it left.    *)
CostInv ==
    /\ \A t \in snapshots : IsFirst(t) => t.equity <= InitialCashQuote
    /\ \A s, t \in snapshots :
          Follows(s, t) => t.equity <= s.cash + s.quantity * t.price
    /\ \A s \in snapshots :
          IsLast(s) => s.cash = book.cash /\ s.quantity = book.quantity
    /\ snapshots = {} => book.cash = InitialCashQuote /\ book.quantity = 0
    /\ \A e \in Executions : Costs(pc[e], cycle[e])

LEMMA CostKept ==
    ASSUME CostInv, UNCHANGED <<snapshots, book>>,
           \A e \in Executions : Costs(pc'[e], cycle'[e])
    PROVE  CostInv'
  <1>1. /\ \A t : IsFirst(t)' <=> IsFirst(t)
        /\ \A s, t : Follows(s, t)' <=> Follows(s, t)
        /\ \A s : IsLast(s)' <=> IsLast(s)
    BY DEF IsFirst, Follows, IsLast
  <1>2. \A e \in Executions : Costs(pc[e], cycle[e])'
    BY DEF Costs, Loses
  <1> QED BY <1>1, <1>2 DEF CostInv

LEMMA MoveKeepsCost ==
    ASSUME TypeInv, CostInv, NEW e \in Executions, NEW to, NEW c,
           Moves(e, to, c), UNCHANGED database, Costs(to, c)
    PROVE  CostInv'
  <1>1. \A x \in Executions : Costs(pc'[x], cycle'[x])
    BY MovedTo DEF CostInv
  <1> QED BY <1>1, CostKept DEF database

LEMMA QuietKeepsCost ==
    ASSUME TypeInv, CostInv, Backend = "simulated",
           NEW e \in Executions, Quiet(e)
    PROVE  CostInv'
  <1>1. ASSUME NEW to, NEW c, QuietFurther(e, to, c), Costs(to, c)
        PROVE  CostInv'
    BY <1>1, MoveKeepsCost DEF QuietFurther, Further
  <1>2. Costs(pc[e], cycle[e])
    BY DEF CostInv
  <1>3. pc[e] \in Unsubmitted => ~cycle[e].submitted
    BY LocalFacts DEF ApprovedAt
  <1>4. ASSUME NEW to, NEW c, QuietFurther(e, to, c),
               SameOrder(cycle[e], c), pc[e] \in Unsubmitted
        PROVE  Costs(to, c)
    BY <1>3, <1>4 DEF SameOrder, Costs
  <1>5. CASE Fetch(e)
    <2>1. PICK c : QuietFurther(e, "read_cash", c)
      BY <1>5, FetchShape
    <2> QED BY <1>1, <2>1 DEF Costs
  <1>6. CASE ReadCash(e)
    <2>1. PICK c : QuietFurther(e, "read_position", c)
      BY <1>6, ReadCashShape
    <2> QED BY <1>1, <2>1 DEF Costs
  <1>7. CASE ReadPosition(e)
    <2>1. PICK c : QuietFurther(e, "decide", c)
      BY <1>7, ReadPositionShape
    <2> QED BY <1>1, <2>1 DEF Costs
  <1>8. CASE DecideOrder(e)
    <2>1. PICK c, to : /\ QuietFurther(e, to, c)
                       /\ pc[e] = "decide" /\ SameOrder(cycle[e], c)
      BY <1>8, DecideShape
    <2> QED BY <1>1, <1>4, <2>1 DEF Unsubmitted
  <1>9. CASE CheckDuplicate(e)
    <2>1. PICK to \in {"commit", "submit"} :
            /\ QuietFurther(e, to, cycle[e]) /\ pc[e] = "check"
      BY <1>9, CheckShape
    <2>2. Costs(to, cycle[e])
      BY <1>3, <2>1 DEF Costs, Unsubmitted
    <2> QED BY <1>1, <2>1, <2>2
  <1>10. CASE SavePosition(e)
    <2>1. PICK c : /\ QuietFurther(e, "commit", c)
                   /\ pc[e] = "save" /\ SameOrder(cycle[e], c)
      BY <1>10, SaveShape
    <2>2. Costs("commit", c)
      BY <1>2, <2>1 DEF Costs, Loses, SameOrder
    <2> QED BY <1>1, <2>1, <2>2
  <1>11. CASE Submit(e)
    <2> DEFINE l == cycle[e]
    <2>1. PICK o \in SubmitOutcomes(l.signal.action, l.order, l.price,
                                    KnownToVenue(IdOf(l))) :
            /\ QuietFurther(e, "save", Settled(l, o))
            /\ pc[e] = "submit"
            /\ Settled(l, o).outcome = o
            /\ Settled(l, o).signal = l.signal
            /\ Settled(l, o).price = l.price
      BY <1>11, SubmitShape
    <2> DEFINE c == Settled(l, o)
    <2>2. o.fill = SimulatedFill(l.signal.action, l.order, l.price)
      BY DEF SubmitOutcomes, SimulatedOutcomes
    <2>3. l.signal.action \in OrderSide /\ l.order \in Nat /\ l.price \in Nat
      BY <2>1, LocalFacts DEF ApprovedAt, Local
    <2>4. CashDelta(l.signal.action, o.fill)
            + QuantityDelta(l.signal.action, o.fill) * l.price <= 0
      BY <2>2, <2>3, SimulatedFillCosts
    <2>5. c.outcome = o /\ c.signal = l.signal /\ c.price = l.price
      BY <2>1
    <2> HIDE DEF c
    <2>6. Costs("save", c)
      BY <2>4, <2>5 DEF Costs, Loses
    <2> QED BY <1>1, <2>1, <2>6 DEF c
  <1> QED BY <1>5, <1>6, <1>7, <1>8, <1>9, <1>10, <1>11 DEF Quiet

(* What a commit leaves is worth no more, at the price of its cycle, than  *)
(* what was booked before it.                                              *)
LEMMA CommitCosts ==
    ASSUME TypeInv, SerialInv, CostInv, NEW e \in Executions, Commit(e)
    PROVE  SnapshotOf(cycle[e]).equity
             <= book.cash + book.quantity * cycle[e].price
  <1> DEFINE c == cycle[e]
             dc == CashDelta(c.signal.action, c.outcome.fill)
             dq == QuantityDelta(c.signal.action, c.outcome.fill)
  <1>1. pc[e] = "commit" /\ BookedAfter("commit", c) /\ Costs("commit", c)
    BY CommitShape DEF SerialInv, OnTrack, CostInv
  <1>2. /\ c.cash \in Int /\ c.quantity \in Nat /\ c.price \in Nat
        /\ book.cash \in Int /\ book.quantity \in Int
    BY <1>1, LocalFacts DEF Local, TypeInv, TypeOK
  <1>3. SnapshotOf(c).equity = c.cash + c.quantity * c.price
    BY DEF SnapshotOf
  <1>4. c.quantity * c.price \in Int /\ book.quantity * c.price \in Int
    BY <1>2, SMT
  <1>5. CASE ~c.submitted
    <2>1. c.cash = book.cash /\ c.quantity = book.quantity
      BY <1>1, <1>5 DEF BookedAfter
    <2> QED BY <1>2, <1>3, <1>4, <2>1
  <1>6. CASE c.submitted
    <2>1. c.cash = book.cash + dc /\ c.quantity = book.quantity + dq
      BY <1>1, <1>6 DEF BookedAfter
    <2>2. dc + dq * c.price <= 0
      BY <1>1, <1>6 DEF Costs, Loses
    <2>3. dc \in Int /\ dq \in Int
      BY <1>1, <1>6, LocalFacts, DeltaTypes DEF Local, Outcome, ApprovedAt
    <2> HIDE DEF c, dc, dq
    <2>4. (book.quantity + dq) * c.price = book.quantity * c.price + dq * c.price
      BY <1>2, <2>3, SMT
    <2>5. dq * c.price \in Int
      BY <1>2, <2>3, SMT
    <2>6. c.cash + c.quantity * c.price <= book.cash + book.quantity * c.price
      BY <1>2, <1>4, <2>1, <2>2, <2>3, <2>4, <2>5
    <2> QED BY <1>3, <2>6 DEF c
  <1> QED BY <1>5, <1>6

LEMMA CommitKeepsCost ==
    ASSUME TypeInv, SerialInv, CostInv, NEW e \in Executions, Commit(e)
    PROVE  CostInv'
  <1> DEFINE c == cycle[e]
             r == SnapshotOf(c)
  <1>1. /\ Moves(e, "exit", c) /\ pc[e] = "commit"
        /\ snapshots' = snapshots \cup {r}
    BY CommitShape DEF Further
  <1>2. \A s \in snapshots : s.takenAt < c.now
    BY <1>1 DEF SerialInv, OnTrack, Running, Newer
  <1>3. /\ r.takenAt = c.now /\ r.price = c.price
        /\ r.cash = c.cash /\ r.quantity = c.quantity
    BY DEF SnapshotOf
  <1>4. book'.cash = c.cash /\ book'.quantity = c.quantity
    BY CommitBooksWhatItHolds
  <1>5. c.now \in Nat /\ \A s \in snapshots : s.takenAt \in Nat
    BY LocalFacts DEF Local, TypeInv, TypeOK, SnapshotRow
  <1>6. r.equity <= book.cash + book.quantity * r.price
    BY <1>3, CommitCosts
  <1>7. c.price \in Nat /\ InitialCashQuote \in Nat
    BY LocalFacts, CycleAssumption DEF Local
  <1> HIDE DEF r, c
  <1>8. \A s \in snapshots : s.takenAt < r.takenAt
    BY <1>2, <1>3
  <1>9. ASSUME NEW t \in snapshots', IsFirst(t)'
        PROVE  t.equity <= InitialCashQuote
    <2>1. CASE t \in snapshots
      BY <1>1, <1>9, <2>1 DEF IsFirst, CostInv
    <2>2. CASE t = r
      <3>1. snapshots = {}
        BY <1>1, <1>3, <1>5, <1>8, <1>9, <2>2 DEF IsFirst
      <3>2. book.cash = InitialCashQuote /\ book.quantity = 0
        BY <3>1 DEF CostInv
      <3> QED BY <1>3, <1>6, <1>7, <2>2, <3>2
    <2> QED BY <1>1, <2>1, <2>2
  <1>10. ASSUME NEW s \in snapshots', NEW t \in snapshots', Follows(s, t)'
         PROVE  t.equity <= s.cash + s.quantity * t.price
    <2>1. s.takenAt < t.takenAt
      BY <1>10 DEF Follows
    <2>2. s # r
      BY <1>1, <1>3, <1>5, <1>8, <2>1
    <2>3. CASE t \in snapshots
      <3>1. s \in snapshots /\ Follows(s, t)
        BY <1>1, <1>10, <2>2 DEF Follows
      <3> QED BY <2>3, <3>1 DEF CostInv
    <2>4. CASE t = r
      <3>1. s \in snapshots /\ IsLast(s)
        BY <1>1, <1>3, <1>5, <1>8, <1>10, <2>2, <2>4 DEF Follows, IsLast
      <3>2. s.cash = book.cash /\ s.quantity = book.quantity
        BY <3>1 DEF CostInv
      <3> QED BY <1>6, <2>4, <3>2
    <2> QED BY <1>1, <2>3, <2>4
  <1>11. ASSUME NEW s \in snapshots', IsLast(s)'
         PROVE  s.cash = book'.cash /\ s.quantity = book'.quantity
    <2>1. s = r
      BY <1>1, <1>3, <1>5, <1>8, <1>11 DEF IsLast
    <2> QED BY <1>3, <1>4, <2>1
  <1>12. snapshots' # {}
    BY <1>1
  <1>13. ASSUME NEW x \in Executions PROVE Costs(pc[x], cycle[x])'
    <2>1. CASE x = e
      BY <1>1, <2>1, MovedTo DEF Costs
    <2>2. CASE x # e
      <3>1. pc'[x] = pc[x] /\ cycle'[x] = cycle[x]
        BY <1>1, <2>2, MovedTo
      <3> QED BY <3>1 DEF CostInv, Costs, Loses
    <2> QED BY <2>1, <2>2
  <1> QED BY <1>9, <1>10, <1>11, <1>12, <1>13 DEF CostInv

LEMMA NextKeepsCost ==
    ASSUME Backend = "simulated"
    PROVE  TypeInv /\ SerialInv /\ CostInv /\ [Next]_vars => CostInv'
  <1> SUFFICES ASSUME TypeInv, SerialInv, CostInv, [Next]_vars
               PROVE  CostInv'
    OBVIOUS
  <1>1. CASE NewBar \/ Reprice \/ FlipKillSwitch \/ UNCHANGED vars
    <2>1. UNCHANGED <<pc, cycle, snapshots, book>>
      BY <1>1 DEF NewBar, Reprice, FlipKillSwitch, vars, database
    <2>2. \A e \in Executions : Costs(pc'[e], cycle'[e])
      BY <2>1 DEF CostInv
    <2> QED BY <2>1, <2>2, CostKept
  <1>2. ASSUME NEW e \in Executions, StartStep(e) PROVE CostInv'
    <2> DEFINE c == cycle'[e]
    <2>1. Moves(e, "fetch", c) /\ UNCHANGED database
      BY <1>2, StartFacts DEF StartStep
    <2> QED BY <2>1, MoveKeepsCost DEF Costs
  <1>3. ASSUME NEW e \in Executions, NEW to, NEW c, EndStep(e, to, c)
        PROVE  CostInv'
    <2>1. Costs(to, c)
      BY <1>3 DEF EndStep, Costs
    <2> QED BY <1>3, <2>1, MoveKeepsCost DEF EndStep
  <1>4. ASSUME NEW e \in Executions,
               Launch(e) \/ Platform(e) \/ Attempt(e) \/ Abort(e)
        PROVE  CostInv'
    <2>1. CASE Launch(e) \/ Retry(e)
      BY <1>2, <2>1 DEF Launch, Retry, StartStep
    <2>2. CASE \/ Abort(e) \/ FetchStale(e) \/ OpeningInvalid(e)
               \/ CommitConflict(e) \/ Exit(e) \/ GiveUp(e)
      BY <1>3, <2>2, EndShape
    <2>3. CASE Quiet(e)
      BY <2>3, QuietKeepsCost
    <2>4. CASE Commit(e)
      BY <2>4, CommitKeepsCost
    <2> QED BY <1>4, <2>1, <2>2, <2>3, <2>4, Zenon DEF Attempt, Platform, Quiet
  <1> QED BY <1>1, <1>4, Zenon DEF Next

(* With the simulator, and when executions do not overlap, slippage, fees  *)
(* and rounding work against the bot in every cycle, whatever the prices   *)
(* do between two of them: at the price it saw, no cycle leaves more than  *)
(* it found (_signed_slippage, _round, apply_execution).                   *)
THEOREM SimulatorNeverFlattersAlways ==
    ASSUME ~Overlap
    PROVE  Spec => []SimulatorNeverFlatters
  <1>1. CASE Backend # "simulated"
    <2>1. SimulatorNeverFlatters
      BY <1>1 DEF SimulatorNeverFlatters
    <2> QED BY <2>1, PTL
  <1>2. CASE Backend = "simulated"
    <2>1. Init => CostInv
      BY DEF Init, CostInv, Costs
    <2>2. TypeInv /\ SerialInv /\ CostInv /\ [Next]_vars => CostInv'
      BY <1>2, NextKeepsCost
    <2>3. CostInv => SimulatorNeverFlatters
      BY DEF CostInv, SimulatorNeverFlatters
    <2> QED BY <2>1, <2>2, <2>3, TypeInvariant, SerialInvariant, PTL DEF Spec
  <1> QED BY <1>1, <1>2
=============================================================================
