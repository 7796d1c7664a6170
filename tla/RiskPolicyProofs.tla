-------------------------- MODULE RiskPolicyProofs --------------------------
(***************************************************************************)
(* Lemmas about the operators of the risk policy, for the modules that use *)
(* it.                                                                     *)
(***************************************************************************)
EXTENDS RiskPolicy, TLAPS

-----------------------------------------------------------------------------
(* Arithmetic: what rounding down to a whole quantity gives up and keeps.  *)

LEMMA FloorBounds ==
    ASSUME NEW n \in Int, NEW d \in Nat \ {0}
    PROVE  /\ n \div d \in Int
           /\ (n \div d) * d <= n
           /\ n < (n \div d + 1) * d
  OBVIOUS

LEMMA FloorIsLargest ==
    ASSUME NEW n \in Int, NEW d \in Nat \ {0}, NEW q \in Int
    PROVE  q <= n \div d <=> q * d <= n
  <1> DEFINE f == n \div d
  <1>1. f \in Int /\ f * d <= n /\ n < (f + 1) * d
    BY FloorBounds
  <1>2. ASSUME q <= f PROVE q * d <= n
    <2>1. q * d <= f * d
      BY <1>1, <1>2
    <2> QED BY <1>1, <2>1
  <1>3. ASSUME q > f PROVE q * d > n
    <2>1. q >= f + 1
      BY <1>1, <1>3
    <2>2. q * d >= (f + 1) * d
      BY <1>1, <2>1
    <2> QED BY <1>1, <2>2
  <1> QED BY <1>1, <1>2, <1>3

LEMMA MinOfThree ==
    ASSUME NEW a \in Int, NEW b \in Int, NEW c \in Int
    PROVE  /\ Min({a, b, c}) \in {a, b, c}
           /\ Min({a, b, c}) <= a
           /\ Min({a, b, c}) <= b
           /\ Min({a, b, c}) <= c
  <1>1. \E x \in {a, b, c} : \A y \in {a, b, c} : x <= y
    <2>1. CASE a <= b /\ a <= c BY <2>1
    <2>2. CASE b <= a /\ b <= c BY <2>2
    <2>3. CASE c <= a /\ c <= b BY <2>3
    <2> QED BY <2>1, <2>2, <2>3
  <1> QED BY <1>1 DEF Min

LEMMA AtMostMinOfThree ==
    ASSUME NEW a \in Int, NEW b \in Int, NEW c \in Int, NEW q \in Int
    PROVE  q <= Min({a, b, c}) <=> q <= a /\ q <= b /\ q <= c
  <1>1. PICK m : m = Min({a, b, c})
    OBVIOUS
  <1>2. m \in {a, b, c} /\ m <= a /\ m <= b /\ m <= c
    BY <1>1, MinOfThree
  <1>3. q <= m <=> q <= a /\ q <= b /\ q <= c
    BY <1>2
  <1> QED BY <1>1, <1>3

-----------------------------------------------------------------------------
(* The type of a decision, and the one bound every sale respects. *)

LEMMA SellAtMostHeld ==
    ASSUME NEW strength \in 0 .. StrengthUnit, NEW account \in AccountState
    PROVE  /\ SellQuantity(strength, account) \in Int
           /\ SellQuantity(strength, account) <= account.quantity
  <1> DEFINE share == account.quantity * strength
             q == share \div StrengthUnit
  <1>1. account.quantity \in Nat /\ StrengthUnit \in Nat \ {0}
    BY LimitsAssumption DEF AccountState
  <1>2. share \in Int
    BY <1>1, SMT
  <1>3. share <= account.quantity * StrengthUnit
    BY <1>1, SMT
  <1>4. account.quantity * StrengthUnit < (account.quantity + 1) * StrengthUnit
    BY <1>1, SMT
  <1>5. q \in Int /\ (account.quantity + 1 <= q
                        <=> (account.quantity + 1) * StrengthUnit <= share)
    <2> HIDE DEF share
    <2> QED BY <1>1, <1>2, FloorBounds, FloorIsLargest
  <1>6. (account.quantity + 1) * StrengthUnit \in Int
        /\ account.quantity * StrengthUnit \in Int
    BY <1>1, SMT
  <1> HIDE DEF share
  <1>7. ~((account.quantity + 1) * StrengthUnit <= share)
    BY <1>2, <1>3, <1>4, <1>6
  <1>8. q \in Int /\ q <= account.quantity
    BY <1>1, <1>5, <1>7
  <1> QED BY <1>8 DEF SellQuantity, share

LEMMA BuyQuantityType ==
    ASSUME NEW strength \in 0 .. StrengthUnit, NEW account \in AccountState,
           NEW price \in Nat \ {0}
    PROVE  BuyQuantity(strength, account, price) \in Int
  <1> DEFINE a == (MaxPositionQuote * strength) \div (StrengthUnit * price)
             b == (MaxPositionQuote - account.quantity * price) \div price
             c == account.cash \div price
  <1>1. /\ account.quantity \in Nat /\ account.cash \in Int
        /\ MaxPositionQuote \in Nat /\ StrengthUnit \in Nat \ {0}
    BY LimitsAssumption DEF AccountState
  <1>2. MaxPositionQuote * strength \in Int /\ StrengthUnit * price \in Nat \ {0}
        /\ MaxPositionQuote - account.quantity * price \in Int
    BY <1>1, SMT
  <1>3. a \in Int /\ b \in Int /\ c \in Int
    BY <1>1, <1>2, FloorBounds
  <1>4. BuyQuantity(strength, account, price) = Min({a, b, c})
    BY DEF BuyQuantity, Headroom
  <1> HIDE DEF a, b, c
  <1>5. Min({a, b, c}) \in {a, b, c}
    BY <1>3, MinOfThree
  <1> QED BY <1>3, <1>4, <1>5

LEMMA DecideType ==
    ASSUME NEW signal \in Signal, NEW account \in AccountState,
           NEW price \in Nat \ {0}, NEW killed \in BOOLEAN
    PROVE  /\ Decide(signal, account, price, killed) \in Nat
           /\ Decide(signal, account, price, killed) # Hold =>
                /\ signal.action \in OrderSide
                /\ signal.action = "sell" =>
                     Decide(signal, account, price, killed) <= account.quantity
  <1> DEFINE strength == signal.strength
             buy == BuyQuantity(strength, account, price)
             sell == SellQuantity(strength, account)
  <1>1. /\ signal.action \in {"buy", "sell", "hold"}
        /\ strength \in 0 .. StrengthUnit
    BY DEF Signal, SignalAction
  <1>2. buy \in Int /\ sell \in Int /\ sell <= account.quantity
    BY <1>1, BuyQuantityType, SellAtMostHeld
  <1> HIDE DEF buy, sell, strength
  <1>3. \A q \in Int : Finalise(q, price) \in Nat
                        /\ (Finalise(q, price) # 0 => Finalise(q, price) = q)
    BY DEF Finalise, LargeEnough, Hold
  <1>4. /\ DecideBuy(strength, account, price) \in Nat
        /\ DecideSell(strength, account, price) \in Nat
        /\ DecideSell(strength, account, price) # 0 =>
             DecideSell(strength, account, price) <= account.quantity
    BY <1>2, <1>3 DEF DecideBuy, DecideSell, Hold, buy, sell
  <1>5. Decide(signal, account, price, killed) \in
          {0} \cup {d \in {DecideBuy(strength, account, price)} :
                      signal.action = "buy"}
              \cup {d \in {DecideSell(strength, account, price)} :
                      signal.action = "sell"}
    BY <1>1 DEF Decide, Hold, strength
  <1> QED BY <1>4, <1>5 DEF Hold, OrderSide

-----------------------------------------------------------------------------
(* What an approved order keeps to, for those who ask after its account.   *)

LEMMA FinalisedIsTheQuantity ==
    ASSUME NEW q, NEW price, Finalise(q, price) # Hold
    PROVE  Finalise(q, price) = q
  BY DEF Finalise

LEMMA BoughtFits ==
    ASSUME NEW strength \in 0 .. StrengthUnit, NEW account \in AccountState,
           NEW price \in Nat \ {0},
           DecideBuy(strength, account, price) # Hold
    PROVE  /\ DecideBuy(strength, account, price) * price
                <= Headroom(account, price)
           /\ DecideBuy(strength, account, price) * price <= account.cash
  <1> DEFINE a == (MaxPositionQuote * strength) \div (StrengthUnit * price)
             room == Headroom(account, price)
             b == room \div price
             c == account.cash \div price
             q == BuyQuantity(strength, account, price)
  <1>1. /\ account.quantity \in Nat /\ account.cash \in Int
        /\ MaxPositionQuote \in Nat /\ StrengthUnit \in Nat \ {0}
    BY LimitsAssumption DEF AccountState
  <1>2. MaxPositionQuote * strength \in Int /\ StrengthUnit * price \in Nat \ {0}
    BY <1>1, SMT
  <1>3. room \in Int
    <2>1. account.quantity * price \in Int
      BY <1>1, SMT
    <2> QED BY <1>1, <2>1 DEF Headroom
  <1>4. q \in Int
    BY BuyQuantityType
  <1>5. DecideBuy(strength, account, price) = q
    BY FinalisedIsTheQuantity DEF DecideBuy
  <1>6. q = Min({a, b, c})
    BY DEF BuyQuantity
  <1>7. a \in Int /\ b \in Int /\ c \in Int
    <2> HIDE DEF room
    <2> QED BY <1>1, <1>2, <1>3, FloorBounds
  <1> HIDE DEF a, b, c, q
  <1>8. q <= b /\ q <= c
    BY <1>4, <1>6, <1>7, MinOfThree
  <1> HIDE DEF room
  <1>9. q * price <= room /\ q * price <= account.cash
    BY <1>1, <1>3, <1>4, <1>8, FloorIsLargest DEF b, c
  <1> QED BY <1>5, <1>9 DEF room

LEMMA ApprovedOrderFits ==
    ASSUME NEW signal \in Signal, NEW account \in AccountState,
           NEW price \in Nat \ {0}, NEW killed \in BOOLEAN,
           NEW order, order = Decide(signal, account, price, killed),
           order # Hold
    PROVE  /\ ~LossBudgetBreached(account, price)
           /\ signal.action = "buy" =>
                /\ order * price <= Headroom(account, price)
                /\ order * price <= account.cash
           /\ signal.action = "sell" => order <= account.quantity
  <1>1. ~LossBudgetBreached(account, price)
    BY DEF Decide
  <1>2. signal.strength \in 0 .. StrengthUnit
    BY DEF Signal
  <1>3. ASSUME signal.action = "buy"
        PROVE  /\ order * price <= Headroom(account, price)
               /\ order * price <= account.cash
    <2>1. order = DecideBuy(signal.strength, account, price)
      BY <1>3 DEF Decide
    <2> QED BY <1>2, <2>1, BoughtFits
  <1>4. signal.action = "sell" => order <= account.quantity
    BY DecideType
  <1> QED BY <1>1, <1>3, <1>4
=============================================================================
