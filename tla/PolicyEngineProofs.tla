------------------------- MODULE PolicyEngineProofs -------------------------
(***************************************************************************)
(* What PolicyEngine.decide guarantees for every limit, price and account. *)
(***************************************************************************)
EXTENDS PolicyEngine, RiskPolicyProofs

-----------------------------------------------------------------------------
(* The two sizing rules compute the largest quantity that fits. *)

LEMMA BuyQuantityIsLargest ==
    ASSUME NEW strength \in 0 .. StrengthUnit,
           NEW account \in [cash : Int, quantity : Nat, opening : Nat \ {0}],
           NEW price \in Nat \ {0},
           NEW q \in Int
    PROVE  /\ BuyQuantity(strength, account, price) \in Int
           /\ q <= BuyQuantity(strength, account, price)
                <=> FitsBuy(q, strength, account, price)
  <1> USE LimitsAssumption
  <1> DEFINE share == MaxPositionQuote * strength
             room == MaxPositionQuote - account.quantity * price
             a == share \div (StrengthUnit * price)
             b == room \div price
             c == account.cash \div price
  <1>1. share \in Int /\ room \in Int /\ StrengthUnit * price \in Nat \ {0}
    <2>1. share \in Int
      BY SMT
    <2>2. account.quantity * price \in Int
      BY SMT
    <2>3. StrengthUnit * price \in Nat \ {0}
      BY SMT
    <2> QED BY <2>1, <2>2, <2>3
  <1>2. a \in Int /\ (q <= a <=> q * (StrengthUnit * price) <= share)
    <2> HIDE DEF share
    <2> QED BY <1>1, FloorBounds, FloorIsLargest
  <1>3. b \in Int /\ (q <= b <=> q * price <= room)
    <2> HIDE DEF room
    <2> QED BY <1>1, FloorBounds, FloorIsLargest
  <1>4. c \in Int /\ (q <= c <=> q * price <= account.cash)
    BY FloorBounds, FloorIsLargest
  <1>5. BuyQuantity(strength, account, price) = Min({a, b, c})
    BY DEF BuyQuantity, Headroom
  <1>6. Min({a, b, c}) \in Int
    <2> HIDE DEF a, b, c
    <2>1. Min({a, b, c}) \in {a, b, c}
      BY <1>2, <1>3, <1>4, MinOfThree
    <2> QED BY <2>1, <1>2, <1>3, <1>4
  <1>7. q <= Min({a, b, c}) <=> q <= a /\ q <= b /\ q <= c
    <2> HIDE DEF a, b, c
    <2> QED BY <1>2, <1>3, <1>4, AtMostMinOfThree
  <1>8. q * price <= room <=> (account.quantity + q) * price <= MaxPositionQuote
    BY SMT
  <1>9. q * (StrengthUnit * price) = q * price * StrengthUnit
    BY SMT
  <1> HIDE DEF a, b, c, room
  <1> QED BY <1>2, <1>3, <1>4, <1>5, <1>6, <1>7, <1>8, <1>9 DEF FitsBuy

LEMMA SellQuantityIsLargest ==
    ASSUME NEW strength \in 0 .. StrengthUnit,
           NEW account \in [cash : Int, quantity : Nat, opening : Nat \ {0}],
           NEW q \in Int
    PROVE  /\ SellQuantity(strength, account) \in Int
           /\ q <= SellQuantity(strength, account)
                <=> FitsSell(q, strength, account)
  <1> DEFINE share == account.quantity * strength
  <1>1. share \in Int
    BY LimitsAssumption, SMT
  <1> HIDE DEF share
  <1>2. /\ share \div StrengthUnit \in Int
        /\ q <= share \div StrengthUnit <=> q * StrengthUnit <= share
    BY <1>1, LimitsAssumption, FloorBounds, FloorIsLargest
  <1> QED BY <1>2 DEF SellQuantity, FitsSell, share

-----------------------------------------------------------------------------
(* The answer to one question. *)

DecisionFor(asked) ==
    Decide(asked.signal, asked.account, asked.price, asked.killed)

LEMMA QuestionTypes ==
    ASSUME NEW asked \in Questions
    PROVE  /\ asked.signal.action \in SignalAction
           /\ asked.signal.strength \in 0 .. StrengthUnit
           /\ asked.account \in [cash : Int, quantity : Nat, opening : Nat \ {0}]
           /\ asked.account.quantity \in Nat
           /\ asked.price \in Nat \ {0}
           /\ asked.killed \in BOOLEAN
  BY AskedAssumption DEF Questions, Signal

LEMMA BuyIsOptimal ==
    ASSUME NEW asked \in Questions, MayTrade(asked),
           asked.signal.action = "buy"
    PROVE  /\ DecisionFor(asked) > 0 =>
                /\ LargeEnough(DecisionFor(asked), asked.price)
                /\ Fits(DecisionFor(asked), asked)
                /\ ~Fits(DecisionFor(asked) + 1, asked)
           /\ DecisionFor(asked) = Hold =>
                \A q \in 1 .. (MaxPositionQuote + asked.account.quantity) :
                    Fits(q, asked) => ~LargeEnough(q, asked.price)
  <1> DEFINE strength == asked.signal.strength
             account == asked.account
             price == asked.price
             best == BuyQuantity(strength, account, price)
  <1>1. /\ strength \in 0 .. StrengthUnit
        /\ account \in [cash : Int, quantity : Nat, opening : Nat \ {0}]
        /\ price \in Nat \ {0}
    BY QuestionTypes
  <1>2. \A q : Fits(q, asked) <=> FitsBuy(q, strength, account, price)
    BY DEF Fits
  <1>3. best \in Int /\ \A q \in Int : q <= best <=> Fits(q, asked)
    BY <1>1, <1>2, BuyQuantityIsLargest
  <1>4. DecisionFor(asked) = DecideBuy(strength, account, price)
    BY DEF DecisionFor, Decide, MayTrade
  <1>5. MaxPositionQuote \in Nat \ {0} /\ MinOrderNotionalQuote \in Nat \ {0}
    BY LimitsAssumption
  <1> HIDE DEF best
  <1>6. CASE Headroom(account, price) <= 0 \/ account.cash <= 0
    <2>1. DecisionFor(asked) = 0
      BY <1>4, <1>6 DEF DecideBuy, Hold
    <2>2. ASSUME NEW q \in 1 .. (MaxPositionQuote + account.quantity)
          PROVE  ~FitsBuy(q, strength, account, price)
      <3>1. q * price > 0
        BY <1>1, SMT
      <3>2. (account.quantity + q) * price
                = account.quantity * price + q * price
        BY <1>1, SMT
      <3>3. account.quantity * price \in Int /\ q * price \in Int
        BY <1>1, SMT
      <3>4. CASE Headroom(account, price) <= 0
        BY <3>1, <3>2, <3>3, <3>4, LimitsAssumption DEF Headroom, FitsBuy
      <3>5. CASE account.cash <= 0
        BY <3>1, <3>3, <3>5, <1>1 DEF FitsBuy
      <3> QED BY <1>6, <3>4, <3>5
    <2> QED BY <2>1, <2>2, <1>2
  <1>7. CASE ~(Headroom(account, price) <= 0 \/ account.cash <= 0)
    <2>1. DecisionFor(asked) = IF LargeEnough(best, price) THEN best ELSE 0
      BY <1>4, <1>7 DEF DecideBuy, Finalise, Hold, best
    <2>2. CASE LargeEnough(best, price)
      <3>1. DecisionFor(asked) = best /\ best > 0
        BY <2>1, <2>2 DEF LargeEnough
      <3>2. Fits(best, asked) /\ ~Fits(best + 1, asked)
        BY <1>3
      <3> QED BY <3>1, <3>2, <2>2, <1>3 DEF Hold
    <2>3. CASE ~LargeEnough(best, price)
      <3>1. DecisionFor(asked) = 0
        BY <2>1, <2>3
      <3>2. ASSUME NEW q \in 1 .. (MaxPositionQuote + account.quantity),
                   Fits(q, asked), LargeEnough(q, price)
            PROVE  FALSE
        <4>1. q \in Int /\ q <= best
          BY <1>3, <3>2, <1>5, <1>1
        <4>2. q * price <= best * price
          BY <4>1, <1>3, <1>1, SMT
        <4>3. q * price \in Int /\ best * price \in Int
          BY <4>1, <1>3, <1>1, SMT
        <4> QED BY <4>1, <4>2, <4>3, <1>3, <1>5, <2>3, <3>2 DEF LargeEnough
      <3> QED BY <3>1, <3>2
    <2> QED BY <2>2, <2>3
  <1> QED BY <1>6, <1>7

LEMMA SellIsOptimal ==
    ASSUME NEW asked \in Questions, MayTrade(asked),
           asked.signal.action = "sell"
    PROVE  /\ DecisionFor(asked) > 0 =>
                /\ LargeEnough(DecisionFor(asked), asked.price)
                /\ Fits(DecisionFor(asked), asked)
                /\ ~Fits(DecisionFor(asked) + 1, asked)
           /\ DecisionFor(asked) = Hold =>
                \A q \in 1 .. (MaxPositionQuote + asked.account.quantity) :
                    Fits(q, asked) => ~LargeEnough(q, asked.price)
  <1> DEFINE strength == asked.signal.strength
             account == asked.account
             price == asked.price
             best == SellQuantity(strength, account)
  <1>1. /\ strength \in 0 .. StrengthUnit
        /\ account \in [cash : Int, quantity : Nat, opening : Nat \ {0}]
        /\ account.quantity \in Nat
        /\ price \in Nat \ {0}
    BY QuestionTypes
  <1>2. \A q : Fits(q, asked) <=> FitsSell(q, strength, account)
    BY DEF Fits
  <1>3. best \in Int /\ \A q \in Int : q <= best <=> Fits(q, asked)
    BY <1>1, <1>2, SellQuantityIsLargest
  <1>4. DecisionFor(asked) = DecideSell(strength, account, price)
    BY DEF DecisionFor, Decide, MayTrade
  <1>5. MaxPositionQuote \in Nat \ {0} /\ MinOrderNotionalQuote \in Nat \ {0}
    BY LimitsAssumption
  <1> HIDE DEF best
  <1>6. CASE account.quantity = 0
    <2>1. DecisionFor(asked) = 0
      BY <1>4, <1>6 DEF DecideSell, Hold
    <2>2. ASSUME NEW q \in 1 .. (MaxPositionQuote + account.quantity)
          PROVE  ~FitsSell(q, strength, account)
      <3>1. q * StrengthUnit > 0
        BY LimitsAssumption, SMT
      <3>2. account.quantity * strength = 0
        BY <1>1, <1>6, LimitsAssumption
      <3>3. q * StrengthUnit \in Int
        BY LimitsAssumption, SMT
      <3> QED BY <3>1, <3>2, <3>3 DEF FitsSell
    <2> QED BY <2>1, <2>2, <1>2
  <1>7. CASE account.quantity # 0
    <2>1. DecisionFor(asked) = IF LargeEnough(best, price) THEN best ELSE 0
      BY <1>1, <1>4, <1>7 DEF DecideSell, Finalise, Hold, best
    <2>2. CASE LargeEnough(best, price)
      <3>1. DecisionFor(asked) = best /\ best > 0
        BY <2>1, <2>2 DEF LargeEnough
      <3>2. Fits(best, asked) /\ ~Fits(best + 1, asked)
        BY <1>3
      <3> QED BY <3>1, <3>2, <2>2, <1>3 DEF Hold
    <2>3. CASE ~LargeEnough(best, price)
      <3>1. DecisionFor(asked) = 0
        BY <2>1, <2>3
      <3>2. ASSUME NEW q \in 1 .. (MaxPositionQuote + account.quantity),
                   Fits(q, asked), LargeEnough(q, price)
            PROVE  FALSE
        <4>1. q \in Int /\ q <= best
          BY <1>3, <3>2, <1>5, <1>1
        <4>2. q * price <= best * price
          BY <4>1, <1>3, <1>1, SMT
        <4>3. q * price \in Int /\ best * price \in Int
          BY <4>1, <1>3, <1>1, SMT
        <4> QED BY <4>1, <4>2, <4>3, <1>3, <1>5, <2>3, <3>2 DEF LargeEnough
      <3> QED BY <3>1, <3>2
    <2> QED BY <2>2, <2>3
  <1> QED BY <1>6, <1>7

(* Without a trade to make, the answer is to hold. *)
LEMMA OtherwiseHolds ==
    ASSUME NEW asked \in Questions,
           ~MayTrade(asked) \/ asked.signal.action = "hold"
    PROVE  DecisionFor(asked) = 0
  BY DEF DecisionFor, Decide, MayTrade, Hold

-----------------------------------------------------------------------------
(* The inductive invariant: an answer is the decision for its question. *)
AnswerIsDecision ==
    /\ question \in Questions
    /\ answer \in {Unanswered, DecisionFor(question)}

LEMMA AnswerInvariant == Spec => []AnswerIsDecision
  <1>1. Init => AnswerIsDecision
    BY DEF Init, AnswerIsDecision
  <1>2. AnswerIsDecision /\ [Next]_vars => AnswerIsDecision'
    BY DEF AnswerIsDecision, Next, Answer, vars, DecisionFor
  <1> QED BY <1>1, <1>2, PTL DEF Spec

(* For every limit, price, account and signal, an order the engine         *)
(* approves keeps within the position limit, the cash and the quantity     *)
(* held, and is the largest that does (PolicyEngine.decide, _quantize).    *)
THEOREM OrdersFitAlways == Spec => []OrdersAreTheLargestThatFit
  <1>1. AnswerIsDecision => OrdersAreTheLargestThatFit
    <2> SUFFICES ASSUME AnswerIsDecision, answer > 0
                 PROVE  /\ MayTrade(question)
                        /\ LargeEnough(answer, question.price)
                        /\ Fits(answer, question)
                        /\ ~Fits(answer + 1, question)
      BY DEF OrdersAreTheLargestThatFit
    <2>1. question \in Questions /\ answer = DecisionFor(question)
      BY DEF AnswerIsDecision, Unanswered
    <2>2. MayTrade(question) /\ question.signal.action # "hold"
      BY <2>1, OtherwiseHolds
    <2>3. question.signal.action \in {"buy", "sell"}
      BY <2>1, <2>2, QuestionTypes DEF SignalAction
    <2>4. CASE question.signal.action = "buy"
      BY <2>1, <2>2, <2>4, BuyIsOptimal
    <2>5. CASE question.signal.action = "sell"
      BY <2>1, <2>2, <2>5, SellIsOptimal
    <2> QED BY <2>3, <2>4, <2>5
  <1> QED BY <1>1, AnswerInvariant, PTL

(* For every limit, price, account and signal, the engine never holds a    *)
(* tradable signal while some order that fits is worth sending.            *)
THEOREM HoldsAreForcedAlways == Spec => []HoldsAreForced
  <1>1. AnswerIsDecision => HoldsAreForced
    <2> SUFFICES ASSUME AnswerIsDecision, answer = Hold, MayTrade(question),
                        NEW q \in 1 .. (MaxPositionQuote
                                            + question.account.quantity),
                        Fits(q, question)
                 PROVE  ~LargeEnough(q, question.price)
      BY DEF HoldsAreForced
    <2>1. question \in Questions /\ DecisionFor(question) = Hold
      BY DEF AnswerIsDecision, Unanswered, Hold
    <2>2. question.signal.action \in {"buy", "sell"}
      BY DEF Fits
    <2>3. CASE question.signal.action = "buy"
      BY <2>1, <2>3, BuyIsOptimal
    <2>4. CASE question.signal.action = "sell"
      BY <2>1, <2>4, SellIsOptimal
    <2> QED BY <2>2, <2>3, <2>4
  <1> QED BY <1>1, AnswerInvariant, PTL
=============================================================================
