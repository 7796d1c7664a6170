-------------------------- MODULE CalculationsProofs -------------------------
(***************************************************************************)
(* The components of Calculations for every value of their constants: the  *)
(* timeframe arithmetic for every timeframe and every moment a clock may   *)
(* be read at, the crossover for all windows and closes, and the position  *)
(* for all fills.  The policy engine is in PolicyEngineProofs.             *)
(***************************************************************************)
EXTENDS Calculations, SequenceTheorems, WellFoundedInduction, TLAPS

Step == T!ParseTimeframe(settings.timeframe)

(* What an execution knows of the bar it was given.                        *)
Given ==
    /\ T!Supported(settings.timeframe)
    /\ now <= fetchedAt
    /\ fetchedAt <= clock
    /\ asOf \in IF settings.backend = "simulated"
                THEN {T!LastOpen(fetchedAt, settings.timeframe)}
                ELSE T!VenueBars(fetchedAt, settings.timeframe)

TimeInv ==
    /\ settings \in [backend : {"simulated", "ccxt_sandbox"},
                     timeframe : [amount : Amounts, unit : Units]]
    /\ clock \in Nat /\ now \in Nat /\ fetchedAt \in Nat
    /\ pc \in {"idle", "fetch", "check", "accepted", "stale", "failed"}
    /\ pc # "idle" => now <= clock
    /\ pc \in {"check", "accepted", "stale"} => Given
    /\ pc = "accepted" => ~T!IsStale(asOf, settings.timeframe, now)
    /\ pc = "stale" => T!IsStale(asOf, settings.timeframe, now)
    /\ \/ acceptedFetch = T!Nothing
       \/ /\ acceptedFetch \in [asOf : Int, fetchedAt : Nat]
          /\ T!Simulated => acceptedFetch.asOf
                            = T!LastOpen(acceptedFetch.fetchedAt, settings.timeframe)

-----------------------------------------------------------------------------
(* Rounding down to a multiple of the step.                                *)
LEMMA Floor ==
    ASSUME NEW n \in Int, NEW d \in Nat \ {0}
    PROVE  /\ n \div d \in Int
           /\ d * (n \div d) <= n
           /\ n < d * (n \div d) + d
           /\ n = d * (n \div d) + (n % d)
           /\ n % d \in 0 .. d - 1
  OBVIOUS

(* Multiples of the step are as far apart as their factors are.            *)
LEMMA Multiples ==
    ASSUME NEW a \in Int, NEW b \in Int, NEW d \in Nat \ {0}, d * a <= d * b
    PROVE  a <= b
  <1> SUFFICES ASSUME a >= b + 1 PROVE FALSE
    OBVIOUS
  <1>1. d * a >= d * (b + 1)
    OBVIOUS
  <1>2. d * (b + 1) = d * b + d
    OBVIOUS
  <1> QED BY <1>1, <1>2

LEMMA MultipleOfStep ==
    ASSUME NEW k \in Int, NEW d \in Nat \ {0}
    PROVE  (d * k) \div d = k
  <1> DEFINE q == (d * k) \div d
  <1>1. q \in Int /\ d * q <= d * k /\ d * k < d * q + d
    BY Floor
  <1>2. q <= k
    BY <1>1, Multiples
  <1>3. d * (k + 1) = d * k + d /\ d * (q + 1) = d * q + d
    BY <1>1
  <1>4. k <= q
    <2> SUFFICES ASSUME k >= q + 1 PROVE FALSE
      BY <1>1
    <2>1. d * k >= d * (q + 1)
      BY <1>1
    <2> QED BY <1>1, <1>3, <2>1
  <1> QED BY <1>1, <1>2, <1>4

LEMMA Numbers ==
    /\ Moments \subseteq Nat /\ Amounts \subseteq Nat
    /\ MaxSnapshotAgeFactor \in Nat \ {0} /\ MaxLag \in Nat
  BY CalculationsAssumption DEF T!TimeframesAssumption

(* A supported timeframe lasts a positive number of minutes.               *)
LEMMA StepIsPositive ==
    ASSUME TimeInv, T!Supported(settings.timeframe)
    PROVE  Step \in Nat \ {0}
  <1>1. settings.timeframe.amount \in Nat \ {0}
    <2>1. settings.timeframe.amount \in Amounts
      BY DEF TimeInv
    <2>2. settings.timeframe.amount \in Nat
      BY <2>1, Numbers
    <2>3. settings.timeframe.amount >= 1
      BY Zenon DEF T!Supported
    <2> QED BY <2>2, <2>3
  <1>2. settings.timeframe.unit \in {"m", "h", "d", "w"}
    BY DEF T!Supported, T!Minutes
  <1>3. T!Minutes[settings.timeframe.unit] \in {1, 60, 1440, 10080}
    BY <1>2 DEF T!Minutes
  <1> QED BY <1>1, <1>3 DEF Step, T!ParseTimeframe

(* Every bar opens at a multiple of the timeframe.                         *)
LEMMA BarsAreAligned ==
    ASSUME TimeInv, Given
    PROVE  \E k \in Int : asOf = Step * k
  <1>1. Step \in Nat \ {0}
    BY StepIsPositive DEF Given
  <1>2. fetchedAt \in Nat
    BY DEF TimeInv
  <1> DEFINE q == fetchedAt \div Step
  <1>3. q \in Int
    BY <1>1, <1>2, Floor
  <1>4. CASE T!Simulated
    <2>1. asOf = Step * q - Step
      BY <1>4 DEF Given, T!Simulated, T!LastOpen, T!FloorToTimeframe, Step
    <2>2. Step * q - Step = Step * (q - 1)
      BY <1>1, <1>3
    <2> QED BY <1>3, <2>1, <2>2
  <1>5. CASE ~T!Simulated
    <2>1. PICK lag \in 0 .. MaxLag : asOf = Step * q - lag * Step
      BY <1>5 DEF Given, T!Simulated, T!VenueBars, T!FloorToTimeframe, Step
    <2>2. lag \in Int
      BY Numbers
    <2>3. Step * q - lag * Step = Step * (q - lag)
      BY <1>1, <1>3, <2>2
    <2> QED BY <1>3, <2>1, <2>2, <2>3
  <1> QED BY <1>4, <1>5

-----------------------------------------------------------------------------
LEMMA TimeInvariant ==
    CalculationsSpec => []TimeInv
  <1>1. CalculationsInit => TimeInv
    BY Numbers DEF CalculationsInit, T!Init, TimeInv
  <1>2. TimeInv /\ T!Next => TimeInv'
    <2> SUFFICES ASSUME TimeInv, T!Next PROVE TimeInv'
      OBVIOUS
    <2> USE DEF TimeInv, T!Simulated
    <2>1. CASE T!TimePasses
      BY <2>1, Numbers DEF T!TimePasses, Given
    <2>2. CASE T!ReadClock
      BY <2>2 DEF T!ReadClock
    <2>3. CASE T!FetchSnapshot
      BY <2>3 DEF T!FetchSnapshot, Given
    <2>4. CASE T!FetchFails
      BY <2>4 DEF T!FetchFails
    <2>5. CASE T!CheckAge
      BY <2>5 DEF T!CheckAge, Given
    <2>6. CASE T!End
      <3>1. CASE pc = "accepted"
        <4>1. asOf \in Int
          <5>1. PICK k \in Int : asOf = Step * k
            BY <3>1, BarsAreAligned
          <5>2. Step \in Nat \ {0}
            BY <3>1, StepIsPositive DEF Given
          <5> QED BY <5>1, <5>2
        <4>2. acceptedFetch' = [asOf |-> asOf, fetchedAt |-> fetchedAt]
          BY <2>6, <3>1 DEF T!End
        <4> QED BY <2>6, <3>1, <4>1, <4>2 DEF T!End, Given
      <3>2. CASE pc # "accepted"
        BY <2>6, <3>2 DEF T!End
      <3> QED BY <3>1, <3>2
    <2> QED BY <2>1, <2>2, <2>3, <2>4, <2>5, <2>6 DEF T!Next
  <1>3. TimeInv /\ UNCHANGED timeframes => TimeInv'
    BY DEF timeframes, TimeInv, Given, T!Simulated
  <1>4. TimeInv /\ [CalculationsNext]_calculations => TimeInv'
    BY <1>2, <1>3 DEF CalculationsNext, PolicyStep, PortfolioStep, StrategyStep,
       TimeframesStep, calculations
  <1> QED BY <1>1, <1>4, PTL DEF CalculationsSpec

(* With an age limit of at least two bars (MAX_SNAPSHOT_AGE_FACTOR is 3),  *)
(* what the simulator shows is never stale and is always closed, however   *)
(* long the fetch lasts (floor_to_timeframe, is_stale).                    *)
THEOREM SimulatedBarsAreFinalAndFreshAlways ==
    ASSUME MaxSnapshotAgeFactor >= 2
    PROVE  CalculationsSpec => []SimulatedBarsAreFinalAndFresh
  <1>1. TimeInv => SimulatedBarsAreFinalAndFresh
    <2> SUFFICES ASSUME TimeInv, T!Simulated, Given
                 PROVE  /\ ~T!IsStale(asOf, settings.timeframe, now)
                        /\ asOf + Step <= fetchedAt
      BY DEF SimulatedBarsAreFinalAndFresh, T!SimulatedBarsAreFinalAndFresh,
             TimeInv, Step
    <2>1. Step \in Nat \ {0} /\ fetchedAt \in Nat /\ now \in Nat /\ now <= fetchedAt
      BY StepIsPositive DEF Given, TimeInv
    <2> DEFINE bars == Step * (fetchedAt \div Step)
    <2>2. bars \in Int /\ bars <= fetchedAt /\ fetchedAt < bars + Step
      BY <2>1, Floor
    <2>3. asOf = bars - Step
      BY DEF T!Simulated, Given, T!LastOpen, T!FloorToTimeframe, Step
    <2>4. Step * MaxSnapshotAgeFactor >= Step * 2
      BY <2>1, Numbers
    <2>5. Step * MaxSnapshotAgeFactor \in Int
      BY <2>1, Numbers
    <2> HIDE DEF bars
    <2>6. ~(now - asOf > Step * MaxSnapshotAgeFactor)
      BY <2>1, <2>2, <2>3, <2>4, <2>5
    <2> QED BY <2>1, <2>2, <2>3, <2>6 DEF T!IsStale, Step
  <1> QED BY <1>1, TimeInvariant, PTL

(* The client order id of a bar is the id of that bar alone: executions of *)
(* the simulator share it exactly when they fetch within one bar of the    *)
(* clock (_cycle_id, floor_to_timeframe).                                  *)
THEOREM OneIdPerBarAlways ==
    CalculationsSpec => []OneIdPerBar
  <1>1. TimeInv => OneIdPerBar
    <2> SUFFICES ASSUME TimeInv, T!Simulated, pc = "accepted", acceptedFetch # T!Nothing
                 PROVE  (asOf = acceptedFetch.asOf)
                        <=> (fetchedAt \div Step = acceptedFetch.fetchedAt \div Step)
      BY DEF OneIdPerBar, T!OneIdPerBar, Step
    <2>1. Step \in Nat \ {0} /\ fetchedAt \in Nat /\ acceptedFetch.fetchedAt \in Nat
      BY StepIsPositive DEF Given, TimeInv
    <2> DEFINE p == fetchedAt \div Step
               q == acceptedFetch.fetchedAt \div Step
    <2>2. p \in Int /\ q \in Int
      BY <2>1, Floor
    <2>3. asOf = Step * p - Step /\ acceptedFetch.asOf = Step * q - Step
      BY DEF TimeInv, T!Simulated, Given, T!LastOpen, T!FloorToTimeframe, Step
    <2>4. Step * p \in Int /\ Step * q \in Int
      BY <2>1, <2>2
    <2>5. ASSUME asOf = acceptedFetch.asOf PROVE p = q
      <3>1. Step * p <= Step * q /\ Step * q <= Step * p
        BY <2>1, <2>3, <2>4, <2>5
      <3>2. p <= q /\ q <= p
        BY <2>1, <2>2, <3>1, Multiples
      <3> QED BY <2>2, <3>2
    <2> QED BY <2>3, <2>5
  <1> QED BY <1>1, TimeInvariant, PTL

(* A snapshot that passes the age check misses at most the factor's number *)
(* of bars, and that many only at the moment the last of them opens        *)
(* (is_stale): the rule TradingCycle counts in bars.                       *)
THEOREM AcceptedMissesFewBarsAlways ==
    CalculationsSpec => []AcceptedMissesFewBars
  <1>1. TimeInv => AcceptedMissesFewBars
    <2> DEFINE opened == (now \div Step) - (asOf \div Step)
    <2> SUFFICES ASSUME TimeInv, pc = "accepted"
                 PROVE  \/ opened < MaxSnapshotAgeFactor
                        \/ opened = MaxSnapshotAgeFactor /\ now % Step = 0
      BY DEF AcceptedMissesFewBars, T!AcceptedMissesFewBars, Step
    <2>1. /\ Step \in Nat \ {0} /\ now \in Nat
          /\ MaxSnapshotAgeFactor \in Nat
      BY StepIsPositive, Numbers DEF Given, TimeInv
    <2>2. PICK k \in Int : asOf = Step * k
      BY BarsAreAligned DEF TimeInv
    <2> DEFINE q == now \div Step
               r == now % Step
    <2>3. q \in Int /\ now = Step * q + r /\ r \in 0 .. Step - 1
      BY <2>1, Floor
    <2>4. opened = q - k
      BY <2>1, <2>2, MultipleOfStep
    <2>5. now - asOf <= Step * MaxSnapshotAgeFactor
      <3>1. Step * k \in Int /\ Step * MaxSnapshotAgeFactor \in Int
        BY <2>1
      <3> QED BY <2>1, <2>2, <3>1 DEF TimeInv, T!IsStale, Step
    <2> HIDE DEF q, r
    <2>6. Step * (q - k) = Step * q - Step * k
      BY <2>1, <2>3
    <2>7. /\ Step * q \in Int /\ Step * k \in Int
          /\ Step * (q - k) \in Int /\ Step * MaxSnapshotAgeFactor \in Int
      BY <2>1, <2>3
    <2>8. Step * (q - k) + r <= Step * MaxSnapshotAgeFactor
      BY <2>1, <2>2, <2>3, <2>5, <2>6, <2>7
    <2>9. q - k <= MaxSnapshotAgeFactor
      <3>1. Step * (q - k) <= Step * MaxSnapshotAgeFactor
        BY <2>1, <2>3, <2>7, <2>8
      <3> QED BY <2>1, <2>3, <3>1, Multiples
    <2>10. q - k = MaxSnapshotAgeFactor => r = 0
      BY <2>1, <2>3, <2>7, <2>8
    <2>11. q - k \in Int
      BY <2>3
    <2> QED BY <2>1, <2>4, <2>9, <2>10, <2>11 DEF q, r
  <1> QED BY <1>1, TimeInvariant, PTL

-----------------------------------------------------------------------------
(* Induction up to N.                                                      *)
LEMMA UpTo ==
    ASSUME NEW N \in Nat, NEW Good,
           0 \in Good, \A n \in 0 .. N - 1 : n \in Good => n + 1 \in Good
    PROVE  \A n \in 0 .. N : n \in Good
  <1> DEFINE Bad == {n \in Nat : n <= N /\ n \notin Good}
  <1> SUFFICES ASSUME Bad # {} PROVE FALSE
    OBVIOUS
  <1>1. PICK n \in Bad : \A k \in Bad : ~(<<k, n>> \in OpToRel(<, Nat))
    <2>1. Bad \subseteq Nat
      OBVIOUS
    <2> HIDE DEF Bad
    <2> QED BY <2>1, NatLessThanWellFounded, WFMin, Zenon
  <1>2. n # 0 /\ n - 1 \in Nat /\ n \in Nat /\ n <= N
    OBVIOUS
  <1>3. n - 1 \notin Bad
    <2>1. <<n - 1, n>> \in Nat \X Nat /\ <<n - 1, n>>[1] < <<n - 1, n>>[2]
      BY <1>2
    <2>2. <<n - 1, n>> \in OpToRel(<, Nat)
      BY <2>1 DEF OpToRel
    <2> HIDE DEF Bad
    <2> QED BY <1>1, <2>2
  <1> QED BY <1>2, <1>3

(* A function of partial sums exists.                                      *)
IsSum(f, g, N) == f = [n \in 0 .. N |-> IF n = 0 THEN 0 ELSE f[n - 1] + g[n]]

LEMMA SumsExist ==
    ASSUME NEW N \in Nat, NEW g
    PROVE  \E f : IsSum(f, g, N)
  <1> DEFINE Some == {n \in 0 .. N : \E f : IsSum(f, g, n)}
  <1>1. 0 \in Some
    <2>1. IsSum([n \in 0 .. 0 |-> 0], g, 0)
      BY DEF IsSum
    <2> QED BY <2>1
  <1>2. ASSUME NEW n \in 0 .. N - 1, n \in Some PROVE n + 1 \in Some
    <2>1. PICK f : IsSum(f, g, n)
      BY <1>2
    <2> DEFINE h == [k \in 0 .. n + 1 |-> IF k = n + 1 THEN f[n] + g[k] ELSE f[k]]
    <2>2. /\ DOMAIN f = 0 .. n
          /\ \A k \in 0 .. n : f[k] = IF k = 0 THEN 0 ELSE f[k - 1] + g[k]
      BY <2>1 DEF IsSum
    <2>3. \A k \in 0 .. n + 1 : h[k] = IF k = 0 THEN 0 ELSE h[k - 1] + g[k]
      BY <2>2
    <2>4. IsSum(h, g, n + 1)
      BY <2>3 DEF IsSum
    <2> QED BY <2>4
  <1> HIDE DEF Some
  <1>3. \A n \in 0 .. N : n \in Some
    BY <1>1, <1>2, UpTo
  <1> QED BY <1>3 DEF Some

LEMMA SumsAreIntegers ==
    ASSUME NEW N \in Nat, NEW g \in [1 .. N -> Int], NEW f, IsSum(f, g, N)
    PROVE  /\ \A n \in 0 .. N : f[n] \in Int
           /\ (\A n \in 1 .. N : g[n] >= 0) => \A n \in 0 .. N : f[n] >= 0
  <1>1. \A n \in 0 .. N : f[n] = IF n = 0 THEN 0 ELSE f[n - 1] + g[n]
    BY DEF IsSum
  <1> DEFINE I == {n \in 0 .. N : f[n] \in Int}
             Positive == {n \in 0 .. N : f[n] \in Int /\ f[n] >= 0}
  <1>2. \A n \in 0 .. N : n \in I
    <2>1. 0 \in I /\ \A n \in 0 .. N - 1 : n \in I => n + 1 \in I
      BY <1>1
    <2> HIDE DEF I
    <2> QED BY <2>1, UpTo
  <1>3. ASSUME \A n \in 1 .. N : g[n] >= 0 PROVE \A n \in 0 .. N : n \in Positive
    <2>1. 0 \in Positive /\ \A n \in 0 .. N - 1 : n \in Positive => n + 1 \in Positive
      BY <1>1, <1>3
    <2> HIDE DEF Positive
    <2> QED BY <2>1, UpTo
  <1> QED BY <1>2, <1>3

(* The sums of mirrored numbers.                                           *)
Mirror(h, g, N, c) == \A n \in 1 .. N : h[n] = c - g[n]
MirrorSum(k, f, N, c) == k[N] = N * c - f[N]

LEMMA MirroredSums ==
    ASSUME NEW N \in Nat, NEW g \in [1 .. N -> Int], NEW h \in [1 .. N -> Int],
           NEW c \in Int, Mirror(h, g, N, c),
           NEW f, IsSum(f, g, N), NEW k, IsSum(k, h, N)
    PROVE  MirrorSum(k, f, N, c)
  <1>0. \A n \in 1 .. N : h[n] = c - g[n]
    BY DEF Mirror
  <1>1. \A n \in 0 .. N : f[n] = IF n = 0 THEN 0 ELSE f[n - 1] + g[n]
    BY DEF IsSum
  <1>2. \A n \in 0 .. N : k[n] = IF n = 0 THEN 0 ELSE k[n - 1] + h[n]
    BY DEF IsSum
  <1>3. \A n \in 0 .. N : f[n] \in Int /\ k[n] \in Int
    BY SumsAreIntegers
  <1> DEFINE M == {n \in 0 .. N : k[n] = n * c - f[n]}
  <1>4. 0 \in M
    BY <1>1, <1>2
  <1>5. ASSUME NEW n \in 0 .. N - 1, n \in M PROVE n + 1 \in M
    <2>1. f[n + 1] = f[n] + g[n + 1] /\ k[n + 1] = k[n] + (c - g[n + 1])
      BY <1>0, <1>1, <1>2
    <2>2. (n + 1) * c = n * c + c
      OBVIOUS
    <2>3. f[n] \in Int /\ k[n] \in Int /\ g[n + 1] \in Int /\ n * c \in Int
      BY <1>3
    <2> QED BY <1>5, <2>1, <2>2, <2>3
  <1> HIDE DEF M
  <1>6. \A n \in 0 .. N : n \in M
    BY <1>4, <1>5, UpTo
  <1> QED BY <1>6 DEF M, MirrorSum

LEMMA TotalIsSum ==
    ASSUME NEW s, Len(s) \in Nat
    PROVE  \E f : IsSum(f, s, Len(s)) /\ S!Total(s) = f[Len(s)]
  BY SumsExist DEF S!Total, IsSum

LEMMA TotalIsInteger ==
    ASSUME NEW s \in Seq(Int)
    PROVE  /\ S!Total(s) \in Int
           /\ s \in Seq(Nat) => S!Total(s) >= 0
  <1>1. PICK f : IsSum(f, s, Len(s)) /\ S!Total(s) = f[Len(s)]
    BY TotalIsSum
  <1>2. s \in [1 .. Len(s) -> Int] /\ Len(s) \in Nat
    OBVIOUS
  <1>3. s \in Seq(Nat) => \A n \in 1 .. Len(s) : s[n] >= 0
    OBVIOUS
  <1> QED BY <1>1, <1>2, <1>3, SumsAreIntegers

LEMMA MirroredTotal ==
    ASSUME NEW s \in Seq(Int), NEW r \in Seq(Int), NEW c \in Int,
           Len(r) = Len(s), \A n \in 1 .. Len(s) : r[n] = c - s[n]
    PROVE  S!Total(r) = Len(s) * c - S!Total(s)
  <1>1. PICK f : IsSum(f, s, Len(s)) /\ S!Total(s) = f[Len(s)]
    BY TotalIsSum
  <1>2. PICK k : IsSum(k, r, Len(s)) /\ S!Total(r) = k[Len(s)]
    BY TotalIsSum
  <1> DEFINE N == Len(s)
  <1>3. N \in Nat /\ s \in [1 .. N -> Int] /\ r \in [1 .. N -> Int]
        /\ Mirror(r, s, N, c)
    BY DEF Mirror
  <1>4. /\ IsSum(f, s, N) /\ S!Total(s) = f[N]
        /\ IsSum(k, r, N) /\ S!Total(r) = k[N]
    BY <1>1, <1>2
  <1> HIDE DEF N
  <1>5. MirrorSum(k, f, N, c)
    BY <1>3, <1>4, MirroredSums
  <1> QED BY <1>4, <1>5 DEF N, MirrorSum

-----------------------------------------------------------------------------
(* The last n closes.                                                      *)
LEMMA Windows ==
    ASSUME NEW V, NEW s \in Seq(V), NEW n \in Nat, n <= Len(s)
    PROVE  /\ S!LastOf(s, n) \in Seq(V) /\ Len(S!LastOf(s, n)) = n
           /\ \A i \in 1 .. n : S!LastOf(s, n)[i] = s[Len(s) - n + i]
  <1>1. Len(s) \in Nat /\ Len(s) - n + 1 \in Int
    OBVIOUS
  <1>2. \A i \in (Len(s) - n + 1) .. Len(s) : s[i] \in V
    OBVIOUS
  <1>3. /\ SubSeq(s, Len(s) - n + 1, Len(s)) \in Seq(V)
        /\ Len(SubSeq(s, Len(s) - n + 1, Len(s))) =
             IF Len(s) - n + 1 <= Len(s) THEN Len(s) - (Len(s) - n + 1) + 1 ELSE 0
        /\ \A i \in 1 .. Len(s) - (Len(s) - n + 1) + 1 :
             SubSeq(s, Len(s) - n + 1, Len(s))[i] = s[(Len(s) - n + 1) + i - 1]
    BY <1>1, <1>2, SubSeqProperties
  <1>4. S!LastOf(s, n) = SubSeq(s, Len(s) - n + 1, Len(s))
    BY DEF S!LastOf
  <1> DEFINE w == SubSeq(s, Len(s) - n + 1, Len(s))
             N == Len(s)
  <1>5. /\ w \in Seq(V) /\ N \in Nat
        /\ Len(w) = IF N - n + 1 <= N THEN N - (N - n + 1) + 1 ELSE 0
        /\ \A i \in 1 .. N - (N - n + 1) + 1 : w[i] = s[(N - n + 1) + i - 1]
    BY <1>1, <1>3
  <1> HIDE DEF w
  <1>6. Len(w) = n /\ \A i \in 1 .. n : w[i] = s[N - n + i]
    <2>1. n \in Nat /\ n <= N
      OBVIOUS
    <2> HIDE DEF N
    <2>2. \A i \in 1 .. n : (N - n + 1) + i - 1 = N - n + i
      BY <1>5, <2>1
    <2> QED BY <1>5, <2>1, <2>2
  <1> QED BY <1>4, <1>5, <1>6 DEF w

LEMMA Parameters ==
    /\ FastWindow \in Nat /\ FastWindow >= 2
    /\ SlowWindow \in Nat /\ FastWindow < SlowWindow
    /\ Limit \in Nat /\ SlowWindow < Limit
    /\ StrengthScale \in Nat \ {0}
    /\ ClosePrices \subseteq Nat \ {0}
    /\ S!Highest \in ClosePrices
  <1>1. \E p \in ClosePrices : \A q \in ClosePrices : q <= p
    BY CalculationsAssumption DEF S!SmaAssumption
  <1>2. S!Highest \in ClosePrices
    BY <1>1 DEF S!Highest
  <1> QED BY <1>2, CalculationsAssumption DEF S!SmaAssumption

LEMMA SpreadIsInteger ==
    ASSUME NEW s \in Seq(Int), SlowWindow <= Len(s)
    PROVE  /\ S!Spread(s) \in Int
           /\ S!Total(S!LastOf(s, SlowWindow)) \in Int
  <1>1. Len(s) \in Nat
    OBVIOUS
  <1>2. /\ S!LastOf(s, FastWindow) \in Seq(Int)
        /\ S!LastOf(s, SlowWindow) \in Seq(Int)
    <2>1. FastWindow \in Nat /\ FastWindow <= Len(s) /\ SlowWindow \in Nat
      BY <1>1, Parameters
    <2>2. S!LastOf(s, FastWindow) \in Seq(Int)
      BY <2>1, Windows
    <2> QED BY <2>1, <2>2, Windows
  <1>3. /\ S!Total(S!LastOf(s, FastWindow)) \in Int
        /\ S!Total(S!LastOf(s, SlowWindow)) \in Int
    BY <1>2, TotalIsInteger
  <1> QED BY <1>3, Parameters DEF S!Spread

LEMMA Mirrors ==
    ASSUME NEW s \in Seq(Int)
    PROVE  /\ S!Mirrored(s) \in Seq(Int) /\ Len(S!Mirrored(s)) = Len(s)
           /\ \A i \in 1 .. Len(s) : S!Mirrored(s)[i] = (S!Highest + 1) - s[i]
  <1>1. S!Highest \in Int
    BY Parameters
  <1>2. S!Mirrored(s) = [i \in 1 .. Len(s) |-> S!Highest + 1 - s[i]]
    <2>1. DOMAIN s = 1 .. Len(s)
      OBVIOUS
    <2> QED BY <2>1 DEF S!Mirrored
  <1>3. \A i \in 1 .. Len(s) : /\ S!Highest + 1 - s[i] \in Int
                               /\ S!Highest + 1 - s[i] = (S!Highest + 1) - s[i]
    BY <1>1
  <1> QED BY <1>2, <1>3

LEMMA MirroredWindow ==
    ASSUME NEW s \in Seq(Int), NEW n \in Nat, n <= Len(s)
    PROVE  S!Total(S!LastOf(S!Mirrored(s), n))
           = n * (S!Highest + 1) - S!Total(S!LastOf(s, n))
  <1> DEFINE r == S!Mirrored(s)
             v == S!LastOf(s, n)
             w == S!LastOf(r, n)
  <1>1. r \in Seq(Int) /\ Len(r) = Len(s) /\ Len(s) \in Nat
        /\ \A i \in 1 .. Len(s) : r[i] = (S!Highest + 1) - s[i]
    BY Mirrors
  <1> HIDE DEF r
  <1>2. /\ v \in Seq(Int) /\ Len(v) = n
        /\ \A i \in 1 .. n : v[i] = s[Len(s) - n + i]
    BY Windows
  <1>3. /\ w \in Seq(Int) /\ Len(w) = n
        /\ \A i \in 1 .. n : w[i] = r[Len(s) - n + i]
    <2>1. n <= Len(r)
      BY <1>1
    <2>2. /\ w \in Seq(Int) /\ Len(w) = n
          /\ \A i \in 1 .. n : w[i] = r[Len(r) - n + i]
      BY <1>1, <2>1, Windows
    <2> QED BY <1>1, <2>2
  <1>4. \A i \in 1 .. n : Len(s) - n + i \in 1 .. Len(s)
    BY <1>1
  <1> HIDE DEF v, w
  <1>5. \A i \in 1 .. n : w[i] = (S!Highest + 1) - v[i]
    BY <1>1, <1>2, <1>3, <1>4
  <1>6. S!Highest + 1 \in Int
    BY Parameters
  <1>7. S!Total(w) = Len(v) * (S!Highest + 1) - S!Total(v)
    BY <1>2, <1>3, <1>5, <1>6, MirroredTotal
  <1> QED BY <1>2, <1>7 DEF r, v, w

LEMMA MirroredSpread ==
    ASSUME NEW s \in Seq(Int), SlowWindow <= Len(s)
    PROVE  S!Spread(S!Mirrored(s)) = -S!Spread(s)
  <1> DEFINE a == S!Total(S!LastOf(s, FastWindow))
             b == S!Total(S!LastOf(s, SlowWindow))
             f == FastWindow
             l == SlowWindow
             c == S!Highest + 1
  <1>1. Len(s) \in Nat /\ f \in Nat /\ l \in Nat /\ f <= Len(s) /\ c \in Int
    BY Parameters
  <1>2. a \in Int /\ b \in Int
    BY <1>1, Windows, TotalIsInteger
  <1>3. /\ S!Total(S!LastOf(S!Mirrored(s), f)) = f * c - a
        /\ S!Total(S!LastOf(S!Mirrored(s), l)) = l * c - b
    BY <1>1, MirroredWindow
  <1>4. /\ S!Spread(S!Mirrored(s)) = (f * c - a) * l - (l * c - b) * f
        /\ S!Spread(s) = a * l - b * f
    BY <1>3 DEF S!Spread
  <1> HIDE DEF a, b, f, l, c
  <1>5. (f * c - a) * l - (l * c - b) * f = -(a * l - b * f)
    BY <1>1, <1>2
  <1> QED BY <1>4, <1>5

LEMMA Fronts ==
    ASSUME NEW V, NEW s \in Seq(V), Len(s) >= 1
    PROVE  /\ S!Previous(s) \in Seq(V) /\ Len(S!Previous(s)) = Len(s) - 1
           /\ \A i \in 1 .. Len(s) - 1 : S!Previous(s)[i] = s[i]
  <1> DEFINE N == Len(s)
             w == SubSeq(s, 1, N - 1)
  <1>1. S!Previous(s) = w
    BY DEF S!Previous, S!Front
  <1>2. N \in Nat /\ N >= 1 /\ \A i \in 1 .. N - 1 : s[i] \in V
    OBVIOUS
  <1>3. /\ w \in Seq(V)
        /\ Len(w) = IF 1 <= N - 1 THEN (N - 1) - 1 + 1 ELSE 0
        /\ \A i \in 1 .. (N - 1) - 1 + 1 : w[i] = s[1 + i - 1]
    <2>1. 1 \in Int /\ N - 1 \in Int
      BY <1>2
    <2> HIDE DEF N
    <2> QED BY <1>2, <2>1, SubSeqProperties
  <1>4. Len(w) = N - 1 /\ \A i \in 1 .. N - 1 : w[i] = s[i]
    <2> HIDE DEF w, N
    <2>1. \A i \in 1 .. N - 1 : i \in 1 .. (N - 1) - 1 + 1 /\ 1 + i - 1 = i
      BY <1>2
    <2> QED BY <1>2, <1>3, <2>1
  <1> QED BY <1>1, <1>3, <1>4

(* The closes after the next bar.                                          *)
Moved(s, p) ==
    IF Len(Append(s, p)) > Limit THEN S!LastOf(Append(s, p), Limit)
    ELSE Append(s, p)

LEMMA MovedCloses ==
    ASSUME NEW V, NEW s \in Seq(V), NEW p \in V, Len(s) <= Limit
    PROVE  /\ Moved(s, p) \in Seq(V)
           /\ Len(Moved(s, p)) = IF Len(s) = Limit THEN Limit ELSE Len(s) + 1
           /\ Len(s) = Limit =>
                \A i \in 1 .. Limit - 1 : Moved(s, p)[i] = s[1 + i]
           /\ Len(s) # Limit =>
                \A i \in 1 .. Len(s) : Moved(s, p)[i] = s[i]
  <1> DEFINE a == Append(s, p)
             N == Len(s)
  <1>1. /\ a \in Seq(V) /\ Len(a) = N + 1 /\ N \in Nat
        /\ \A i \in 1 .. N : a[i] = s[i]
    BY AppendProperties
  <1>2. Limit \in Nat /\ N <= Limit
    BY Parameters
  <1>3. Moved(s, p) = IF Len(a) > Limit THEN S!LastOf(a, Limit) ELSE a
    BY DEF Moved
  <1> HIDE DEF a, N
  <1>4. CASE N = Limit
    <2>1. Limit <= Len(a)
      BY <1>1, <1>2, <1>4
    <2>2. /\ S!LastOf(a, Limit) \in Seq(V) /\ Len(S!LastOf(a, Limit)) = Limit
          /\ \A i \in 1 .. Limit : S!LastOf(a, Limit)[i] = a[Len(a) - Limit + i]
      BY <1>1, <1>2, <2>1, Windows
    <2>3. Moved(s, p) = S!LastOf(a, Limit)
      BY <1>1, <1>2, <1>3, <1>4
    <2>4. \A i \in 1 .. Limit - 1 : Moved(s, p)[i] = s[1 + i]
      <3>1. \A i \in 1 .. Limit - 1 : /\ Len(a) - Limit + i = 1 + i
                                      /\ 1 + i \in 1 .. N /\ i \in 1 .. Limit
        BY <1>1, <1>2, <1>4
      <3> QED BY <1>1, <2>2, <2>3, <3>1
    <2> QED BY <1>4, <2>2, <2>3, <2>4 DEF N
  <1>5. CASE N # Limit
    <2>1. Moved(s, p) = a
      BY <1>1, <1>2, <1>3, <1>5
    <2> QED BY <1>1, <1>5, <2>1 DEF N
  <1> QED BY <1>4, <1>5

(* The averages of the bar before are those that bar was evaluated with.   *)
LEMMA SameWindow ==
    ASSUME NEW V, NEW s \in Seq(V), NEW p \in V, Len(s) <= Limit,
           NEW n \in Nat, n <= SlowWindow, SlowWindow <= Len(s)
    PROVE  S!LastOf(S!Previous(Moved(s, p)), n) = S!LastOf(s, n)
  <1> DEFINE r == Moved(s, p)
             f == S!Previous(r)
             N == Len(s)
             v == S!LastOf(f, n)
             w == S!LastOf(s, n)
  <1>1. /\ r \in Seq(V)
        /\ Len(r) = IF N = Limit THEN Limit ELSE N + 1
        /\ N = Limit => \A i \in 1 .. Limit - 1 : r[i] = s[1 + i]
        /\ N # Limit => \A i \in 1 .. N : r[i] = s[i]
    BY MovedCloses
  <1>2. /\ N \in Nat /\ Limit \in Nat /\ SlowWindow \in Nat
        /\ N <= Limit /\ SlowWindow < Limit /\ SlowWindow <= N
        /\ n \in Nat /\ n <= SlowWindow
    BY Parameters
  <1>3. n <= N
    BY <1>2
  <1>4. w \in Seq(V) /\ Len(w) = n /\ \A i \in 1 .. n : w[i] = s[N - n + i]
    BY <1>2, <1>3, Windows
  <1> HIDE DEF r, N
  <1>5. Len(r) >= 1 /\ n <= Len(r) - 1
    BY <1>1, <1>2
  <1>6. /\ f \in Seq(V) /\ Len(f) = Len(r) - 1
        /\ \A i \in 1 .. Len(r) - 1 : f[i] = r[i]
    BY <1>1, <1>5, Fronts
  <1> HIDE DEF f
  <1>7. v \in Seq(V) /\ Len(v) = n /\ \A i \in 1 .. n : v[i] = f[Len(f) - n + i]
    <2>1. n <= Len(f)
      BY <1>5, <1>6
    <2>2. f \in Seq(V) /\ n \in Nat
      BY <1>2, <1>6
    <2> QED BY <2>1, <2>2, Windows
  <1> HIDE DEF v, w
  <1>8. ASSUME NEW i \in 1 .. n PROVE v[i] = w[i]
    <2>1. CASE N = Limit
      <3>1. Len(f) = Limit - 1 /\ Len(r) = Limit
        BY <1>1, <1>6, <2>1, <1>2
      <3>2. /\ Len(f) - n + i \in 1 .. Limit - 1
            /\ 1 + (Len(f) - n + i) = N - n + i
        BY <1>2, <2>1, <3>1
      <3>3. f[Len(f) - n + i] = r[Len(f) - n + i]
        BY <1>6, <3>1, <3>2
      <3>4. r[Len(f) - n + i] = s[1 + (Len(f) - n + i)]
        BY <1>1, <2>1, <3>2
      <3> QED BY <1>4, <1>7, <3>2, <3>3, <3>4
    <2>2. CASE N # Limit
      <3>1. Len(f) = N /\ Len(r) = N + 1
        BY <1>1, <1>6, <2>2, <1>2
      <3>2. Len(f) - n + i \in 1 .. N /\ Len(f) - n + i = N - n + i
        BY <1>2, <3>1
      <3>3. f[Len(f) - n + i] = r[Len(f) - n + i]
        BY <1>2, <1>6, <3>1, <3>2
      <3>4. r[Len(f) - n + i] = s[Len(f) - n + i]
        BY <1>1, <2>2, <3>2
      <3> QED BY <1>4, <1>7, <3>2, <3>3, <3>4
    <2> QED BY <2>1, <2>2
  <1>9. v = w
    BY <1>4, <1>7, <1>8, SeqEqual
  <1> QED BY <1>9 DEF v, w, f, r

LEMMA SameSpread ==
    ASSUME NEW V, NEW s \in Seq(V), NEW p \in V, Len(s) <= Limit,
           SlowWindow <= Len(s)
    PROVE  S!Spread(S!Previous(Moved(s, p))) = S!Spread(s)
  <1>1. FastWindow \in Nat /\ SlowWindow \in Nat /\ FastWindow <= SlowWindow
        /\ SlowWindow <= SlowWindow
    BY Parameters
  <1>2. /\ S!LastOf(S!Previous(Moved(s, p)), FastWindow) = S!LastOf(s, FastWindow)
        /\ S!LastOf(S!Previous(Moved(s, p)), SlowWindow) = S!LastOf(s, SlowWindow)
    BY <1>1, SameWindow
  <1> QED BY <1>2 DEF S!Spread

LEMMA WiderSequence ==
    ASSUME NEW V, NEW W, V \subseteq W, NEW s \in Seq(V)
    PROVE  s \in Seq(W)
  <1>1. Len(s) \in Nat /\ s = [i \in 1 .. Len(s) |-> s[i]]
        /\ \A i \in 1 .. Len(s) : s[i] \in W
    OBVIOUS
  <1> QED BY <1>1

-----------------------------------------------------------------------------
(* What evaluate answers.                                                  *)
LEMMA Answers ==
    ASSUME NEW s \in Seq(Int), NEW x \in Int, NEW y \in Int,
           S!Spread(s) = x, S!Spread(S!Previous(s)) = y, S!Enough(s)
    PROVE  S!Evaluate(s).action =
             IF y <= 0 /\ x > 0 THEN "buy"
             ELSE IF y >= 0 /\ x < 0 THEN "sell" ELSE "hold"
  BY DEF S!Evaluate, S!CrossedUp, S!CrossedDown, S!Hold

LEMMA TooFew ==
    ASSUME NEW s, ~S!Enough(s)
    PROVE  S!Evaluate(s).action = "hold" /\ S!Side(s) = {}
  BY DEF S!Evaluate, S!Hold, S!Side

LEMMA StrengthIsAShare ==
    ASSUME NEW n \in Nat \ {0}, NEW d \in Int
    PROVE  /\ S!Capped(n, d).num \in 0 .. S!Capped(n, d).den
           /\ S!Capped(n, d).num > 0
  BY DEF S!Capped

(* Exactly the signals have a strength, at most 1.                         *)
LEMMA SignalsHaveStrength ==
    ASSUME NEW s \in Seq(Int)
    PROVE  /\ S!Evaluate(s).strength.num \in 0 .. S!Evaluate(s).strength.den
           /\ S!Evaluate(s).action \in {"buy", "sell"}
                <=> S!Evaluate(s).strength.num > 0
  <1>1. CASE ~S!Enough(s) \/ ~(S!CrossedUp(s) \/ S!CrossedDown(s))
    <2>1. S!Evaluate(s) = S!Hold
      BY <1>1 DEF S!Evaluate
    <2> QED BY <2>1 DEF S!Hold, S!NoStrength
  <1>2. CASE S!Enough(s) /\ (S!CrossedUp(s) \/ S!CrossedDown(s))
    <2>1. SlowWindow <= Len(s) /\ SlowWindow \in Nat /\ FastWindow \in Nat
      <3>1. Len(s) \in Nat /\ Len(s) >= SlowWindow + 1
        BY <1>2 DEF S!Enough
      <3> QED BY <3>1, Parameters
    <2> DEFINE x == S!Spread(s)
               t == S!Total(S!LastOf(s, SlowWindow))
    <2>2. x \in Int /\ t \in Int
      BY <2>1, SpreadIsInteger
    <2>3. x # 0
      BY <1>2 DEF S!CrossedUp, S!CrossedDown
    <2>4. /\ S!Evaluate(s).strength = S!Strength(s)
          /\ S!Evaluate(s).action \in {"buy", "sell"}
      BY <1>2 DEF S!Evaluate
    <2>5. S!Strength(s) = S!Capped(StrengthScale * S!Abs(x), FastWindow * t)
      BY DEF S!Strength
    <2> HIDE DEF x, t
    <2>6. S!Abs(x) \in Nat \ {0}
      BY <2>2, <2>3 DEF S!Abs
    <2>7. StrengthScale * S!Abs(x) \in Nat \ {0} /\ FastWindow * t \in Int
      BY <2>1, <2>2, <2>6, Parameters
    <2> QED BY <2>4, <2>5, <2>7, StrengthIsAShare
  <1> QED BY <1>1, <1>2

-----------------------------------------------------------------------------
(* The last signal given on a final close is the side on which the newest  *)
(* closed bar left the averages, unless they have never been on the other  *)
(* one; and a bar is bought only from below, sold only from above.         *)
ClosedSpread == S!Spread(S!Previous(closes))

Told(y, given, left) ==
    /\ y > 0 => given = "buy" \/ left \subseteq {"buy"}
    /\ y < 0 => given = "sell" \/ left \subseteq {"sell"}

Crosses(y, signals) ==
    /\ "buy" \in signals => y <= 0
    /\ "sell" \in signals => y >= 0

SmaInv ==
    /\ closes \in Seq(ClosePrices) /\ Len(closes) \in 1 .. Limit
    /\ ~S!Enough(closes) => sides = {} /\ barSignals = {}
    /\ IF backend = "simulated" THEN sides \subseteq S!Side(closes)
       ELSE S!Enough(closes) => Told(ClosedSpread, settled, sides)
    /\ Crosses(ClosedSpread, barSignals)

LEMMA InitSma == CalculationsInit => SmaInv
  <1> SUFFICES ASSUME CalculationsInit PROVE SmaInv
    OBVIOUS
  <1>1. S!Init
    BY DEF CalculationsInit
  <1>2. Limit \in Nat /\ Limit >= 1
    BY Parameters
  <1>3. PICK n \in 1 .. Limit : closes \in [1 .. n -> ClosePrices]
    BY <1>1, <1>2 DEF S!Init, S!Histories
  <1>4. closes \in Seq(ClosePrices) /\ Len(closes) \in 1 .. Limit
    BY <1>2, <1>3
  <1>5. sides = {} /\ barSignals = {}
    BY <1>1 DEF S!Init
  <1> QED BY <1>4, <1>5 DEF SmaInv, Told, Crosses

LEMMA ClosesAreIntegers ==
    ASSUME SmaInv
    PROVE  /\ closes \in Seq(Int)
           /\ S!Enough(closes) => /\ S!Spread(closes) \in Int
                                  /\ ClosedSpread \in Int
  <1>1. closes \in Seq(Int)
    <2>1. ClosePrices \subseteq Int
      BY Parameters
    <2> QED BY <2>1, WiderSequence DEF SmaInv
  <1>2. ASSUME S!Enough(closes)
        PROVE  S!Spread(closes) \in Int /\ ClosedSpread \in Int
    <2>1. /\ Len(closes) \in Nat /\ Len(closes) >= 1 /\ SlowWindow \in Nat
          /\ SlowWindow <= Len(closes) /\ SlowWindow <= Len(closes) - 1
      BY <1>2, Parameters DEF SmaInv, S!Enough
    <2>2. /\ S!Previous(closes) \in Seq(Int)
          /\ Len(S!Previous(closes)) = Len(closes) - 1
      BY <1>1, <2>1, Fronts
    <2> QED BY <1>1, <2>1, <2>2, SpreadIsInteger DEF ClosedSpread
  <1> QED BY <1>1, <1>2

LEMMA Evaluated ==
    ASSUME SmaInv
    PROVE  S!Evaluate(closes).action =
             IF ~S!Enough(closes) THEN "hold"
             ELSE IF ClosedSpread <= 0 /\ S!Spread(closes) > 0 THEN "buy"
             ELSE IF ClosedSpread >= 0 /\ S!Spread(closes) < 0 THEN "sell"
             ELSE "hold"
  <1>1. CASE ~S!Enough(closes)
    BY <1>1, TooFew
  <1>2. CASE S!Enough(closes)
    BY <1>2, ClosesAreIntegers, Answers DEF ClosedSpread
  <1> QED BY <1>1, <1>2

LEMMA ExecuteKeepsSma ==
    ASSUME SmaInv, S!Execute
    PROVE  SmaInv'
  <1> DEFINE action == S!Evaluate(closes).action
  <1>1. /\ closes' = closes /\ backend' = backend
        /\ settled' = settled /\ sides' = sides
        /\ barSignals' = barSignals \cup ({action} \ {"hold"})
    BY DEF S!Execute
  <1>2. /\ ~S!Enough(closes) => action = "hold"
        /\ action = "buy" => ClosedSpread <= 0
        /\ action = "sell" => ClosedSpread >= 0
    BY Evaluated
  <1>3. S!Enough(closes)' = S!Enough(closes) /\ S!Side(closes)' = S!Side(closes)
        /\ ClosedSpread' = ClosedSpread
    BY <1>1 DEF S!Enough, S!Side, ClosedSpread
  <1> HIDE DEF action
  <1>4. Crosses(ClosedSpread', barSignals')
    BY <1>1, <1>2, <1>3 DEF SmaInv, Crosses
  <1>5. ~S!Enough(closes)' => sides' = {} /\ barSignals' = {}
    BY <1>1, <1>2, <1>3 DEF SmaInv
  <1> QED BY <1>1, <1>3, <1>4, <1>5 DEF SmaInv

(* The candle that forms is not in the averages of the bar before.         *)
LEMMA MoveKeepsSma ==
    ASSUME SmaInv, S!Move
    PROVE  SmaInv'
  <1>1. PICK p \in ClosePrices : closes' = [closes EXCEPT ![Len(closes)] = p]
    BY DEF S!Move
  <1>2. /\ backend' = backend /\ backend # "simulated"
        /\ barSignals' = barSignals /\ settled' = settled /\ sides' = sides
    BY DEF S!Move
  <1>3. closes \in Seq(ClosePrices) /\ Len(closes) \in 1 .. Limit /\ Limit \in Nat
    BY Parameters DEF SmaInv
  <1>4. /\ closes' \in Seq(ClosePrices) /\ Len(closes') = Len(closes)
        /\ \A i \in 1 .. Len(closes) - 1 : closes'[i] = closes[i]
    BY <1>1, <1>3
  <1>5. S!Previous(closes') = S!Previous(closes)
    <2> DEFINE f == S!Previous(closes')
               g == S!Previous(closes)
    <2>1. /\ f \in Seq(ClosePrices) /\ Len(f) = Len(closes) - 1
          /\ \A i \in 1 .. Len(closes) - 1 : f[i] = closes'[i]
      BY <1>3, <1>4, Fronts
    <2>2. /\ g \in Seq(ClosePrices) /\ Len(g) = Len(closes) - 1
          /\ \A i \in 1 .. Len(closes) - 1 : g[i] = closes[i]
      BY <1>3, Fronts
    <2> HIDE DEF f, g
    <2>3. f = g
      BY <1>4, <2>1, <2>2, SeqEqual
    <2> QED BY <2>3 DEF f, g
  <1>6. S!Enough(closes)' = S!Enough(closes) /\ ClosedSpread' = ClosedSpread
    BY <1>4, <1>5 DEF S!Enough, ClosedSpread
  <1> QED BY <1>2, <1>3, <1>4, <1>6 DEF SmaInv

LEMMA NewBarKeepsSma ==
    ASSUME SmaInv, S!NewBar
    PROVE  SmaInv'
  <1> DEFINE action == S!Evaluate(closes).action
             x == S!Spread(closes)
             y == ClosedSpread
  <1>1. /\ backend' = backend /\ barSignals' = {}
        /\ settled' = IF seen /\ action # "hold" THEN action ELSE settled
        /\ sides' = IF seen THEN sides \cup S!Side(closes) ELSE {}
    BY DEF S!NewBar
  <1>2. /\ closes \in Seq(ClosePrices) /\ Len(closes) \in 1 .. Limit
        /\ Len(closes) <= Limit
        /\ Limit \in Nat /\ SlowWindow \in Nat /\ SlowWindow < Limit
    BY Parameters DEF SmaInv
  <1>3. ~S!Enough(closes) => sides' = {}
    BY <1>1, TooFew DEF SmaInv
  <1>4. Crosses(ClosedSpread', barSignals')
    BY <1>1 DEF Crosses
  <1>5. CASE backend = "simulated"
    <2>1. closes' = closes
      BY <1>5 DEF S!NewBar, S!NextCloses
    <2>2. /\ S!Enough(closes)' = S!Enough(closes)
          /\ S!Side(closes)' = S!Side(closes)
      BY <2>1 DEF S!Enough, S!Side
    <2>3. sides' \subseteq S!Side(closes)
      BY <1>1, <1>5 DEF SmaInv
    <2> QED BY <1>1, <1>2, <1>3, <1>4, <1>5, <2>1, <2>2, <2>3 DEF SmaInv
  <1>6. CASE backend # "simulated"
    <2>1. PICK p \in ClosePrices : closes' = Moved(closes, p)
      BY <1>6 DEF S!NewBar, S!NextCloses, S!Latest, Moved
    <2>2. /\ closes' \in Seq(ClosePrices)
          /\ Len(closes') = IF Len(closes) = Limit THEN Limit ELSE Len(closes) + 1
      BY <1>2, <2>1, MovedCloses
    <2>3. Len(closes') \in 1 .. Limit
      BY <1>2, <2>2
    <2>4. ~S!Enough(closes)' => ~S!Enough(closes)
      BY <1>2, <2>2 DEF S!Enough
    <2>5. ASSUME S!Enough(closes)' PROVE ClosedSpread' = x
      <3>1. SlowWindow <= Len(closes)
        BY <1>2, <2>2, <2>5 DEF S!Enough
      <3> QED BY <1>2, <2>1, <3>1, SameSpread DEF ClosedSpread
    <2>6. Told(x, settled', sides')
      <3>1. CASE ~S!Enough(closes) \/ ~seen
        BY <1>1, <1>3, <3>1 DEF Told
      <3>2. CASE S!Enough(closes) /\ seen
        <4>1. x \in Int /\ y \in Int /\ Told(y, settled, sides)
          BY <1>6, <3>2, ClosesAreIntegers DEF SmaInv
        <4>2. action = IF y <= 0 /\ x > 0 THEN "buy"
                       ELSE IF y >= 0 /\ x < 0 THEN "sell" ELSE "hold"
          BY <3>2, Evaluated
        <4>3. S!Side(closes) = IF x = 0 THEN {}
                               ELSE IF x > 0 THEN {"buy"} ELSE {"sell"}
          BY <3>2 DEF S!Side
        <4> HIDE DEF x, y, action
        <4> QED BY <1>1, <3>2, <4>1, <4>2, <4>3 DEF Told
      <3> QED BY <3>1, <3>2
    <2> QED BY <1>1, <1>3, <1>4, <1>6, <2>2, <2>3, <2>4, <2>5, <2>6 DEF SmaInv
  <1> QED BY <1>5, <1>6

LEMMA SmaInvariant == CalculationsSpec => []SmaInv
  <1>1. SmaInv /\ [CalculationsNext]_calculations => SmaInv'
    <2> SUFFICES ASSUME SmaInv, [CalculationsNext]_calculations PROVE SmaInv'
      OBVIOUS
    <2>1. CASE UNCHANGED strategy
      <3>1. /\ closes' = closes /\ backend' = backend /\ settled' = settled
            /\ sides' = sides /\ barSignals' = barSignals
        BY <2>1 DEF strategy
      <3>2. ClosedSpread' = ClosedSpread
        BY <3>1 DEF ClosedSpread
      <3> QED BY <3>1, <3>2 DEF SmaInv
    <2>2. CASE S!Next
      BY <2>2, ExecuteKeepsSma, MoveKeepsSma, NewBarKeepsSma DEF S!Next
    <2> QED BY <2>1, <2>2 DEF CalculationsNext, PolicyStep, PortfolioStep,
               StrategyStep, TimeframesStep, calculations
  <1> QED BY InitSma, <1>1, PTL DEF CalculationsSpec

(* No crossing is lost while every bar's final close is evaluated, however *)
(* it moved before, although the averages may touch on the way and no      *)
(* process remembers the bars before, whatever the windows, the limit and  *)
(* the prices (evaluate).                                                  *)
THEOREM CrossingsAreSignalledAlways == CalculationsSpec => []CrossingsAreSignalled
  <1>1. SmaInv => CrossingsAreSignalled
    <2> SUFFICES ASSUME SmaInv PROVE S!CrossingsAreSignalled
      BY DEF CrossingsAreSignalled
    <2>1. ASSUME sides = {"buy", "sell"} PROVE S!ClosedSide \in {{}, {settled}}
      <3>1. backend # "simulated" /\ S!Enough(closes)
        <4>1. S!Enough(closes)
          BY <2>1 DEF SmaInv
        <4>2. ~({"buy", "sell"} \subseteq S!Side(closes))
          BY DEF S!Side
        <4> QED BY <2>1, <4>1, <4>2 DEF SmaInv
      <3>2. ClosedSpread \in Int /\ Told(ClosedSpread, settled, sides)
        BY <3>1, ClosesAreIntegers DEF SmaInv
      <3>3. S!ClosedSide = IF ClosedSpread = 0 THEN {}
                           ELSE IF ClosedSpread > 0 THEN {"buy"} ELSE {"sell"}
        BY <3>1 DEF S!ClosedSide, ClosedSpread
      <3> QED BY <2>1, <3>2, <3>3 DEF Told
    <2> QED BY <2>1, ClosesAreIntegers, SignalsHaveStrength
            DEF S!CrossingsAreSignalled
  <1> QED BY <1>1, SmaInvariant, PTL

(* However the close of a bar moves, its executions call for a purchase    *)
(* and for a sale only when the averages touched at the close of the bar   *)
(* before (evaluate).                                                      *)
THEOREM OppositeSignalsNeedATouchAlways ==
    CalculationsSpec => []OppositeSignalsNeedATouch
  <1>1. SmaInv => OppositeSignalsNeedATouch
    <2> SUFFICES ASSUME SmaInv, barSignals = {"buy", "sell"}
                 PROVE  ClosedSpread = 0
      BY DEF OppositeSignalsNeedATouch, S!OppositeSignalsNeedATouch, ClosedSpread
    <2>1. S!Enough(closes)
      BY DEF SmaInv
    <2>2. ClosedSpread \in Int /\ Crosses(ClosedSpread, barSignals)
      BY <2>1, ClosesAreIntegers DEF SmaInv
    <2> QED BY <2>2 DEF Crosses
  <1> QED BY <1>1, SmaInvariant, PTL

(* The market turned upside down gives the opposite signal (evaluate).     *)
THEOREM SignalsAreSymmetricAlways == CalculationsSpec => []SignalsAreSymmetric
  <1>1. SmaInv => SignalsAreSymmetric
    <2> SUFFICES ASSUME SmaInv PROVE S!SignalsAreSymmetric
      BY DEF SignalsAreSymmetric
    <2> DEFINE s == closes
               r == S!Mirrored(s)
               x == S!Spread(s)
               y == S!Spread(S!Previous(s))
    <2>1. s \in Seq(Int) /\ Len(s) \in Nat /\ Len(s) >= 1
      <3>1. ClosePrices \subseteq Int
        BY Parameters
      <3>2. closes \in Seq(Int)
        BY <3>1, WiderSequence DEF SmaInv
      <3> QED BY <3>2 DEF SmaInv
    <2>2. /\ r \in Seq(Int) /\ Len(r) = Len(s)
          /\ \A i \in 1 .. Len(s) : r[i] = (S!Highest + 1) - s[i]
      BY <2>1, Mirrors
    <2>3. CASE ~S!Enough(s)
      <3>1. ~S!Enough(r)
        BY <2>2, <2>3 DEF S!Enough
      <3> QED BY <2>3, <3>1, TooFew DEF S!SignalsAreSymmetric, S!Opposite
    <2>4. CASE S!Enough(s)
      <3>1. SlowWindow \in Nat /\ SlowWindow <= Len(s) /\ SlowWindow <= Len(s) - 1
        BY <2>1, <2>4, Parameters DEF S!Enough
      <3>2. /\ S!Previous(s) \in Seq(Int) /\ Len(S!Previous(s)) = Len(s) - 1
            /\ \A i \in 1 .. Len(s) - 1 : S!Previous(s)[i] = s[i]
        BY <2>1, Fronts
      <3>3. x \in Int /\ y \in Int
        BY <2>1, <3>1, <3>2, SpreadIsInteger
      <3>4. S!Spread(r) = -x
        BY <2>1, <3>1, MirroredSpread
      <3>5. S!Previous(r) = S!Mirrored(S!Previous(s))
        <4> DEFINE f == S!Previous(r)
                   g == S!Mirrored(S!Previous(s))
        <4>1. Len(r) >= 1
          BY <2>1, <2>2
        <4>2. /\ f \in Seq(Int) /\ Len(f) = Len(r) - 1
              /\ \A i \in 1 .. Len(r) - 1 : f[i] = r[i]
          BY <2>2, <4>1, Fronts
        <4>3. /\ g \in Seq(Int) /\ Len(g) = Len(S!Previous(s))
              /\ \A i \in 1 .. Len(S!Previous(s)) :
                   g[i] = (S!Highest + 1) - S!Previous(s)[i]
          BY <3>2, Mirrors
        <4> HIDE DEF f, g, r, s
        <4>4. Len(f) = Len(g) /\ \A i \in 1 .. Len(f) : f[i] = g[i]
          BY <2>1, <2>2, <3>2, <4>2, <4>3
        <4>5. f = g
          BY <4>2, <4>3, <4>4, SeqEqual
        <4> QED BY <4>5 DEF f, g
      <3>6. S!Spread(S!Previous(r)) = -y
        BY <3>1, <3>2, <3>5, MirroredSpread
      <3>7. S!Enough(r)
        BY <2>2, <2>4 DEF S!Enough
      <3> HIDE DEF r, s, x, y
      <3>8. S!Evaluate(s).action =
              IF y <= 0 /\ x > 0 THEN "buy"
              ELSE IF y >= 0 /\ x < 0 THEN "sell" ELSE "hold"
        BY <2>1, <2>4, <3>3, Answers DEF x, y
      <3>9. S!Evaluate(r).action =
              IF -y <= 0 /\ -x > 0 THEN "buy"
              ELSE IF -y >= 0 /\ -x < 0 THEN "sell" ELSE "hold"
        BY <2>2, <3>3, <3>4, <3>6, <3>7, Answers
      <3>10. S!Evaluate(r).action = S!Opposite(S!Evaluate(s).action)
        BY <3>3, <3>8, <3>9 DEF S!Opposite
      <3> QED BY <3>10 DEF S!SignalsAreSymmetric, r, s
    <2> QED BY <2>3, <2>4
  <1> QED BY <1>1, SmaInvariant, PTL

-----------------------------------------------------------------------------
(* The sums over the fills of an execution.                                *)
LEMMA SumsGrow ==
    ASSUME NEW N \in Nat, NEW g \in [1 .. N -> Nat], NEW f, IsSum(f, g, N)
    PROVE  /\ \A n \in 0 .. N : f[n] \in Nat /\ f[n] <= f[N]
           /\ f[0] = 0 /\ \A n \in 0 .. N - 1 : f[n + 1] = f[n] + g[n + 1]
  <1>1. \A n \in 0 .. N : f[n] = IF n = 0 THEN 0 ELSE f[n - 1] + g[n]
    BY DEF IsSum
  <1>2. \A n \in 0 .. N : f[n] \in Nat
    <2>1. \A n \in 0 .. N : f[n] \in Int
      BY SumsAreIntegers
    <2>2. \A n \in 0 .. N : f[n] >= 0
      BY SumsAreIntegers
    <2> QED BY <2>1, <2>2
  <1>3. f[0] = 0 /\ \A n \in 0 .. N - 1 : f[n + 1] = f[n] + g[n + 1]
    BY <1>1
  <1> DEFINE Grown == {k \in 0 .. N : \A n \in 0 .. k : f[n] <= f[k]}
  <1>4. 0 \in Grown
    BY <1>2
  <1>5. ASSUME NEW k \in 0 .. N - 1, k \in Grown PROVE k + 1 \in Grown
    <2>1. /\ f[k + 1] = f[k] + g[k + 1] /\ g[k + 1] \in Nat
          /\ \A n \in 0 .. N : f[n] \in Nat
      BY <1>2, <1>3
    <2>2. \A n \in 0 .. k : f[n] <= f[k]
      BY <1>5
    <2>3. ASSUME NEW n \in 0 .. k + 1 PROVE f[n] <= f[k + 1]
      <3>1. f[k] \in Nat /\ f[k + 1] \in Nat /\ f[n] \in Nat
        BY <2>1
      <3>2. CASE n = k + 1
        BY <3>1, <3>2
      <3>3. CASE n \in 0 .. k
        <4>1. f[n] <= f[k]
          BY <2>2, <3>3
        <4> QED BY <2>1, <3>1, <4>1
      <3> QED BY <3>2, <3>3
    <2> QED BY <2>3
  <1>6. \A k \in 0 .. N : k \in Grown
    <2> HIDE DEF Grown
    <2> QED BY <1>4, <1>5, UpTo
  <1> QED BY <1>2, <1>3, <1>6

QuantitiesOf(fills) == [n \in 1 .. Len(fills) |-> fills[n].quantity]
FeesPaid(fills) == [n \in 1 .. Len(fills) |-> fills[n].fee]
CashOf(side, fills) == [n \in 1 .. Len(fills) |-> P!CashDelta(side, fills[n])]
GainsOf(fills, a) ==
    [n \in 1 .. Len(fills) |-> fills[n].quantity * (fills[n].price - a)]

LEMMA TotalOfFills ==
    ASSUME NEW fills, Len(fills) \in Nat
    PROVE  \E f : /\ IsSum(f, QuantitiesOf(fills), Len(fills))
                  /\ P!Total(fills) = f[Len(fills)]
  <1> DEFINE Sums(f) == f = [n \in 0 .. Len(fills) |->
                              IF n = 0 THEN 0 ELSE f[n - 1] + fills[n].quantity]
  <1>1. \A f : IsSum(f, QuantitiesOf(fills), Len(fills)) <=> Sums(f)
    <2> DEFINE g == QuantitiesOf(fills)
    <2>1. \A n \in 0 .. Len(fills) : n # 0 => g[n] = fills[n].quantity
      BY DEF QuantitiesOf
    <2> HIDE DEF g
    <2>2. ASSUME NEW f
          PROVE  [n \in 0 .. Len(fills) |-> IF n = 0 THEN 0 ELSE f[n - 1] + g[n]]
                 = [n \in 0 .. Len(fills) |->
                     IF n = 0 THEN 0 ELSE f[n - 1] + fills[n].quantity]
      BY <2>1
    <2>3. \A f : IsSum(f, g, Len(fills)) <=> Sums(f)
      BY <2>2, Zenon DEF IsSum
    <2> QED BY <2>3 DEF g
  <1>2. \E f : Sums(f)
    BY <1>1, SumsExist
  <1> DEFINE chosen == CHOOSE f : Sums(f)
  <1>3. Sums(chosen)
    <2> HIDE DEF Sums
    <2> QED BY <1>2
  <1>4. P!Total(fills) = chosen[Len(fills)]
    BY DEF P!Total, P!SumOf
  <1> HIDE DEF Sums, chosen
  <1> QED BY <1>1, <1>3, <1>4

LEMMA FeesOfFills ==
    ASSUME NEW fills, Len(fills) \in Nat
    PROVE  \E f : /\ IsSum(f, FeesPaid(fills), Len(fills))
                  /\ P!FeesOf(fills) = f[Len(fills)]
  <1> DEFINE Sums(f) == f = [n \in 0 .. Len(fills) |->
                              IF n = 0 THEN 0 ELSE f[n - 1] + fills[n].fee]
  <1>1. \A f : IsSum(f, FeesPaid(fills), Len(fills)) <=> Sums(f)
    <2> DEFINE g == FeesPaid(fills)
    <2>1. \A n \in 0 .. Len(fills) : n # 0 => g[n] = fills[n].fee
      BY DEF FeesPaid
    <2> HIDE DEF g
    <2>2. ASSUME NEW f
          PROVE  [n \in 0 .. Len(fills) |-> IF n = 0 THEN 0 ELSE f[n - 1] + g[n]]
                 = [n \in 0 .. Len(fills) |->
                     IF n = 0 THEN 0 ELSE f[n - 1] + fills[n].fee]
      BY <2>1
    <2>3. \A f : IsSum(f, g, Len(fills)) <=> Sums(f)
      BY <2>2, Zenon DEF IsSum
    <2> QED BY <2>3 DEF g
  <1>2. \E f : Sums(f)
    BY <1>1, SumsExist
  <1> DEFINE chosen == CHOOSE f : Sums(f)
  <1>3. Sums(chosen)
    <2> HIDE DEF Sums
    <2> QED BY <1>2
  <1>4. P!FeesOf(fills) = chosen[Len(fills)]
    BY DEF P!FeesOf, P!SumOf
  <1> HIDE DEF Sums, chosen
  <1> QED BY <1>1, <1>3, <1>4

LEMMA CashOfFills ==
    ASSUME NEW fills, Len(fills) \in Nat, NEW side
    PROVE  \E f : /\ IsSum(f, CashOf(side, fills), Len(fills))
                  /\ P!CashAfter(side, fills) = f[Len(fills)]
  <1> DEFINE Sums(f) == f = [n \in 0 .. Len(fills) |->
                              IF n = 0 THEN 0 ELSE f[n - 1] + P!CashDelta(side, fills[n])]
  <1>1. \A f : IsSum(f, CashOf(side, fills), Len(fills)) <=> Sums(f)
    BY DEF IsSum, CashOf
  <1>2. \E f : Sums(f)
    BY <1>1, SumsExist
  <1> DEFINE chosen == CHOOSE f : Sums(f)
  <1>3. Sums(chosen)
    <2> HIDE DEF Sums
    <2> QED BY <1>2
  <1>4. P!CashAfter(side, fills) = chosen[Len(fills)]
    BY DEF P!CashAfter, P!SumOf
  <1> HIDE DEF Sums, chosen
  <1> QED BY <1>1, <1>3, <1>4

LEMMA GainOfFills ==
    ASSUME NEW fills, Len(fills) \in Nat, NEW a
    PROVE  \E f : /\ IsSum(f, GainsOf(fills, a), Len(fills))
                  /\ P!Gain(fills, a) = f[Len(fills)]
  <1> DEFINE Sums(f) == f = [n \in 0 .. Len(fills) |->
                              IF n = 0 THEN 0
                              ELSE f[n - 1] + (fills[n].quantity * (fills[n].price - a))]
  <1>1. \A f : IsSum(f, GainsOf(fills, a), Len(fills)) <=> Sums(f)
    <2> DEFINE g == GainsOf(fills, a)
    <2>1. \A n \in 0 .. Len(fills) :
             n # 0 => g[n] = (fills[n].quantity * (fills[n].price - a))
      BY DEF GainsOf
    <2> HIDE DEF g
    <2>2. ASSUME NEW f
          PROVE  [n \in 0 .. Len(fills) |-> IF n = 0 THEN 0 ELSE f[n - 1] + g[n]]
                 = [n \in 0 .. Len(fills) |->
                     IF n = 0 THEN 0
                     ELSE f[n - 1] + (fills[n].quantity * (fills[n].price - a))]
      BY <2>1
    <2>3. \A f : IsSum(f, g, Len(fills)) <=> Sums(f)
      BY <2>2, Zenon DEF IsSum
    <2> QED BY <2>3 DEF g
  <1>2. \E f : Sums(f)
    BY <1>1, SumsExist
  <1> DEFINE chosen == CHOOSE f : Sums(f)
  <1>3. Sums(chosen)
    <2> HIDE DEF Sums
    <2> QED BY <1>2
  <1>4. P!Gain(fills, a) = chosen[Len(fills)]
    BY DEF P!Gain, P!SumOf
  <1> HIDE DEF Sums, chosen
  <1> QED BY <1>1, <1>3, <1>4

(* The positions an execution goes through.                                *)
IsFold(after, position, side, fills, N) ==
    after = [n \in 0 .. N |->
                IF n = 0 THEN position ELSE P!Apply(after[n - 1], side, fills[n])]

LEMMA FoldsExist ==
    ASSUME NEW N \in Nat, NEW position, NEW side, NEW fills
    PROVE  \E f : IsFold(f, position, side, fills, N)
  <1> DEFINE Some == {n \in 0 .. N : \E f : IsFold(f, position, side, fills, n)}
  <1>1. 0 \in Some
    <2>1. IsFold([n \in 0 .. 0 |-> position], position, side, fills, 0)
      BY DEF IsFold
    <2> QED BY <2>1
  <1>2. ASSUME NEW n \in 0 .. N - 1, n \in Some PROVE n + 1 \in Some
    <2>1. PICK f : IsFold(f, position, side, fills, n)
      BY <1>2
    <2> DEFINE h == [k \in 0 .. n + 1 |->
                       IF k = n + 1 THEN P!Apply(f[n], side, fills[k]) ELSE f[k]]
    <2>2. /\ DOMAIN f = 0 .. n
          /\ \A k \in 0 .. n : f[k] =
                IF k = 0 THEN position ELSE P!Apply(f[k - 1], side, fills[k])
      BY <2>1 DEF IsFold
    <2>3. \A k \in 0 .. n + 1 : h[k] =
             IF k = 0 THEN position ELSE P!Apply(h[k - 1], side, fills[k])
      BY <2>2
    <2>4. IsFold(h, position, side, fills, n + 1)
      BY <2>3 DEF IsFold
    <2> QED BY <2>4
  <1> HIDE DEF Some
  <1>3. \A n \in 0 .. N : n \in Some
    BY <1>1, <1>2, UpTo
  <1> QED BY <1>3 DEF Some

LEMMA ExecutionIsFold ==
    ASSUME NEW fills, Len(fills) \in Nat, NEW position, NEW side
    PROVE  \E f : /\ IsFold(f, position, side, fills, Len(fills))
                  /\ P!ApplyExecution(position, side, fills) = f[Len(fills)]
  <1> DEFINE Folds(f) == f = [n \in 0 .. Len(fills) |->
                               IF n = 0 THEN position
                               ELSE P!Apply(f[n - 1], side, fills[n])]
  <1>1. \A f : IsFold(f, position, side, fills, Len(fills)) <=> Folds(f)
    BY DEF IsFold
  <1>2. \E f : Folds(f)
    BY <1>1, FoldsExist
  <1> DEFINE chosen == CHOOSE f : Folds(f)
  <1>3. Folds(chosen)
    <2> HIDE DEF Folds
    <2> QED BY <1>2
  <1>4. P!ApplyExecution(position, side, fills) = chosen[Len(fills)]
    BY DEF P!ApplyExecution
  <1> HIDE DEF Folds, chosen
  <1> QED BY <1>1, <1>3, <1>4

-----------------------------------------------------------------------------
(* One execution: the average stays between the prices paid.               *)
Position == [quantity : Nat, average : [num : Nat, den : Nat \ {0}]]

Between(p, prices) ==
    /\ p \in Position
    /\ IF p.quantity = 0 THEN p = P!Flat
       ELSE /\ \E price \in prices : price * p.average.den <= p.average.num
            /\ \E price \in prices : p.average.num <= price * p.average.den

LEMMA WeightedFromBelow ==
    ASSUME NEW q \in Nat, NEW d \in Nat \ {0}, NEW x \in Nat,
           NEW k \in Nat \ {0}, NEW p \in Nat, NEW low \in Nat,
           low <= p, low * d <= x
    PROVE  low * (d * (q + k)) <= q * x + d * (k * p)
  <1>1. low * (d * (q + k)) = q * (low * d) + (d * k) * low
    OBVIOUS
  <1>2. q * (low * d) <= q * x
    OBVIOUS
  <1>3. (d * k) * low <= (d * k) * p
    <2>1. d * k \in Nat
      OBVIOUS
    <2> QED BY <2>1
  <1>4. (d * k) * p = d * (k * p)
    OBVIOUS
  <1>5. /\ q * (low * d) \in Nat /\ q * x \in Nat
        /\ (d * k) * low \in Nat /\ (d * k) * p \in Nat
    OBVIOUS
  <1> QED BY <1>1, <1>2, <1>3, <1>4, <1>5

LEMMA WeightedFromAbove ==
    ASSUME NEW q \in Nat, NEW d \in Nat \ {0}, NEW x \in Nat,
           NEW k \in Nat \ {0}, NEW p \in Nat, NEW high \in Nat,
           p <= high, x <= high * d
    PROVE  q * x + d * (k * p) <= high * (d * (q + k))
  <1>1. high * (d * (q + k)) = q * (high * d) + (d * k) * high
    OBVIOUS
  <1>2. q * x <= q * (high * d)
    OBVIOUS
  <1>3. (d * k) * p <= (d * k) * high
    <2>1. d * k \in Nat
      OBVIOUS
    <2> QED BY <2>1
  <1>4. (d * k) * p = d * (k * p)
    OBVIOUS
  <1>5. /\ q * (high * d) \in Nat /\ q * x \in Nat
        /\ (d * k) * high \in Nat /\ (d * k) * p \in Nat
    OBVIOUS
  <1> QED BY <1>1, <1>2, <1>3, <1>4, <1>5

LEMMA FillNumbers ==
    ASSUME NEW fill \in P!Fills
    PROVE  /\ fill.quantity \in Nat \ {0} /\ fill.price \in Nat \ {0}
           /\ fill.fee \in Nat
  BY CalculationsAssumption DEF P!Fills, P!PortfolioAssumption

LEMMA BuyKeepsBetween ==
    ASSUME NEW prices \in SUBSET Nat, NEW p, Between(p, prices),
           NEW fill \in P!Fills, fill.price \in prices
    PROVE  Between(P!Buy(p, fill), prices)
  <1> DEFINE q == p.quantity
             d == p.average.den
             x == p.average.num
             k == fill.quantity
             price == fill.price
             b == P!Buy(p, fill)
  <1>1. q \in Nat /\ d \in Nat \ {0} /\ x \in Nat
    BY DEF Between, Position
  <1>2. k \in Nat \ {0} /\ price \in Nat /\ price \in prices
    BY FillNumbers
  <1>3. /\ b.quantity = q + k
        /\ b.average.num = q * x + d * (k * price)
        /\ b.average.den = d * (q + k)
        /\ b = [quantity |-> q + k,
                average |-> [num |-> q * x + d * (k * price),
                             den |-> d * (q + k)]]
    BY DEF P!Buy, P!Notional
  <1>4. b \in Position /\ b.quantity # 0
    <2> HIDE DEF q, d, x, k, price, b
    <2>0. /\ q + k \in Nat /\ q + k # 0 /\ d * (q + k) \in Nat
          /\ q * x \in Nat /\ k * price \in Nat
      BY <1>1, <1>2
    <2>1. d * (k * price) \in Nat /\ q * x + d * (k * price) \in Nat
      BY <1>1, <2>0
    <2>2. d * (q + k) # 0
      BY <1>1, <1>2, <2>0
    <2> QED BY <1>3, <2>0, <2>1, <2>2 DEF Position
  <1>5. q # 0 => /\ \E low \in prices : low * d <= x
                 /\ \E high \in prices : x <= high * d
    BY DEF Between
  <1>6. q = 0 => x = 0 /\ d = 1
    BY DEF Between, P!Flat
  <1> HIDE DEF q, d, x, k, price, b
  <1>7. \E low \in prices : low * (d * (q + k)) <= q * x + d * (k * price)
    <2>1. CASE q = 0
      <3>1. price * (d * (q + k)) = q * x + d * (k * price)
        BY <1>1, <1>2, <1>6, <2>1
      <3>2. price * (d * (q + k)) \in Nat
        BY <1>1, <1>2
      <3> QED BY <1>2, <3>1, <3>2
    <2>2. CASE q # 0
      <3>1. PICK low \in prices : low * d <= x
        BY <1>5, <2>2
      <3>2. CASE low <= price
        <4>1. low \in Nat
          OBVIOUS
        <4> QED BY <1>1, <1>2, <3>1, <3>2, <4>1, WeightedFromBelow
      <3>3. CASE price < low
        <4>1. low \in Nat
          OBVIOUS
        <4>2. price * d <= low * d /\ price * d \in Nat /\ low * d \in Nat
          BY <1>1, <1>2, <3>3, <4>1
        <4>3. price * d <= x /\ price <= price
          BY <1>1, <1>2, <3>1, <4>2
        <4> QED BY <1>1, <1>2, <4>3, WeightedFromBelow
      <3>4. low \in Nat
        OBVIOUS
      <3> QED BY <1>2, <3>2, <3>3, <3>4
    <2> QED BY <2>1, <2>2
  <1>8. \E high \in prices : q * x + d * (k * price) <= high * (d * (q + k))
    <2>1. CASE q = 0
      <3>1. price * (d * (q + k)) = q * x + d * (k * price)
        BY <1>1, <1>2, <1>6, <2>1
      <3>2. price * (d * (q + k)) \in Nat
        BY <1>1, <1>2
      <3> QED BY <1>2, <3>1, <3>2
    <2>2. CASE q # 0
      <3>1. PICK high \in prices : x <= high * d
        BY <1>5, <2>2
      <3>2. CASE price <= high
        <4>1. high \in Nat
          OBVIOUS
        <4> QED BY <1>1, <1>2, <3>1, <3>2, <4>1, WeightedFromAbove
      <3>3. CASE high < price
        <4>1. high \in Nat
          OBVIOUS
        <4>2. high * d <= price * d /\ price * d \in Nat /\ high * d \in Nat
          BY <1>1, <1>2, <3>3, <4>1
        <4>3. x <= price * d /\ price <= price
          BY <1>1, <1>2, <3>1, <4>2
        <4> QED BY <1>1, <1>2, <4>3, WeightedFromAbove
      <3>4. high \in Nat
        OBVIOUS
      <3> QED BY <1>2, <3>2, <3>3, <3>4
    <2> QED BY <2>1, <2>2
  <1>9. Between(b, prices)
    BY <1>3, <1>4, <1>7, <1>8 DEF Between
  <1> QED BY <1>9 DEF b

(* The column keeps the bounds, which are whole numbers.                   *)
LEMMA StoredBounds ==
    ASSUME NEW x \in Nat, NEW d \in Nat \ {0}
    PROVE  LET r == P!Stored([num |-> x, den |-> d])
           IN  /\ r \in Nat
               /\ 2 * d * r <= 2 * x + d /\ 2 * x + d < 2 * d * r + 2 * d
               /\ \A low \in Nat : low * d <= x => low <= r
               /\ \A high \in Nat : x <= high * d => r <= high
               /\ x = 0 => r = 0
               /\ d = 1 => r = x
  <1> DEFINE n == 2 * x + d
             e == 2 * d
             r == n \div e
  <1>1. P!Stored([num |-> x, den |-> d]) = r
    BY DEF P!Stored
  <1>2. n \in Nat /\ e \in Nat \ {0} /\ e = 2 * d /\ n = 2 * x + d
    OBVIOUS
  <1>3. r \in Int /\ e * r <= n /\ n < e * r + e
    <2>1. /\ n \div e \in Int
          /\ e * (n \div e) <= n /\ n < e * (n \div e) + e
      <3> HIDE DEF n, e
      <3>1. n \in Int /\ e \in Nat \ {0}
        BY <1>2
      <3> QED BY <3>1, Floor
    <2> QED BY <2>1
  <1> HIDE DEF n, e, r
  <1>4. r >= 0
    <2> SUFFICES ASSUME r <= -1 PROVE FALSE
      BY <1>3
    <2>1. e * r + e <= 0
      <3>1. e * r + e = e * (r + 1)
        BY <1>2, <1>3
      <3>2. r + 1 <= 0 /\ r + 1 \in Int
        BY <1>3
      <3>3. e * (r + 1) <= 0
        BY <1>2, <3>2
      <3> QED BY <3>1, <3>3
    <2> QED BY <1>2, <1>3, <2>1
  <1>5. ASSUME NEW low \in Nat, low * d <= x PROVE low <= r
    <2> SUFFICES ASSUME r + 1 <= low PROVE FALSE
      BY <1>3
    <2>1. e * (r + 1) <= e * low /\ e * (r + 1) = e * r + e
      BY <1>2, <1>3
    <2>2. e * low = 2 * (low * d)
      BY <1>2
    <2>3. low * d \in Nat /\ e * r \in Int /\ e * low \in Int
      BY <1>2, <1>3
    <2> QED BY <1>2, <1>3, <1>5, <2>1, <2>2, <2>3
  <1>6. ASSUME NEW high \in Nat, x <= high * d PROVE r <= high
    <2> SUFFICES ASSUME high + 1 <= r PROVE FALSE
      BY <1>3
    <2>1. e * (high + 1) <= e * r /\ e * (high + 1) = e * high + e
      BY <1>2, <1>3
    <2>2. e * high = 2 * (high * d)
      BY <1>2
    <2>3. high * d \in Nat /\ e * r \in Int /\ e * high \in Int
      BY <1>2, <1>3
    <2> QED BY <1>2, <1>3, <1>6, <2>1, <2>2, <2>3
  <1>7. x = 0 => r = 0
    <2>1. x = 0 => x <= 0 * d
      OBVIOUS
    <2> QED BY <1>3, <1>4, <1>6, <2>1
  <1>8. d = 1 => r = x
    BY <1>2, <1>3
  <1> QED BY <1>1, <1>2, <1>3, <1>4, <1>5, <1>6, <1>7, <1>8

LEMMA FillsOfExecution ==
    ASSUME NEW fills \in P!SeqOf(P!Fills, MaxFills)
    PROVE  Len(fills) \in Nat /\ fills \in [1 .. Len(fills) -> P!Fills]
  <1>1. PICK m \in 0 .. MaxFills : fills \in [1 .. m -> P!Fills]
    BY DEF P!SeqOf
  <1>2. MaxFills \in Nat
    BY CalculationsAssumption DEF P!PortfolioAssumption
  <1>3. m \in Nat
    BY <1>2
  <1>4. Len(fills) = m
    BY <1>1, <1>3
  <1> QED BY <1>1, <1>3, <1>4

LEMMA FoldSteps ==
    ASSUME NEW N \in Nat, NEW p, NEW side, NEW fills, NEW f,
           IsFold(f, p, side, fills, N)
    PROVE  /\ f[0] = p
           /\ \A n \in 0 .. N - 1 : f[n + 1] = P!Apply(f[n], side, fills[n + 1])
  <1>1. \A n \in 0 .. N :
           f[n] = IF n = 0 THEN p ELSE P!Apply(f[n - 1], side, fills[n])
    BY DEF IsFold
  <1>2. ASSUME NEW n \in 0 .. N - 1
        PROVE  f[n + 1] = P!Apply(f[n], side, fills[n + 1])
    <2>1. n + 1 \in 0 .. N /\ n + 1 # 0 /\ (n + 1) - 1 = n
      OBVIOUS
    <2>2. f[n + 1] = P!Apply(f[(n + 1) - 1], side, fills[n + 1])
      BY <1>1, <2>1
    <2> QED BY <2>1, <2>2
  <1>3. f[0] = p
    BY <1>1
  <1> QED BY <1>2, <1>3

LEMMA SumSteps ==
    ASSUME NEW N \in Nat, NEW g \in [1 .. N -> Int], NEW f, IsSum(f, g, N)
    PROVE  /\ f[0] = 0
           /\ \A n \in 0 .. N - 1 : f[n + 1] = f[n] + g[n + 1]
           /\ \A n \in 0 .. N : f[n] \in Int
  <1>1. \A n \in 0 .. N : f[n] = IF n = 0 THEN 0 ELSE f[n - 1] + g[n]
    BY DEF IsSum
  <1>2. \A n \in 0 .. N : f[n] \in Int
    BY SumsAreIntegers
  <1> QED BY <1>1, <1>2

LEMMA SummandsAreIntegers ==
    ASSUME NEW N \in Nat, NEW fills \in [1 .. N -> P!Fills], Len(fills) = N,
           NEW side, NEW a \in Int
    PROVE  /\ QuantitiesOf(fills) \in [1 .. N -> Nat]
           /\ FeesPaid(fills) \in [1 .. N -> Nat]
           /\ CashOf(side, fills) \in [1 .. N -> Int]
           /\ GainsOf(fills, a) \in [1 .. N -> Int]
  <1>1. ASSUME NEW n \in 1 .. N
        PROVE  /\ fills[n].quantity \in Nat /\ fills[n].fee \in Nat
               /\ P!CashDelta(side, fills[n]) \in Int
               /\ fills[n].quantity * (fills[n].price - a) \in Int
    <2>1. fills[n] \in P!Fills
      OBVIOUS
    <2>2. /\ fills[n].quantity \in Nat /\ fills[n].price \in Nat
          /\ fills[n].fee \in Nat
      BY <2>1, FillNumbers
    <2>3. P!Notional(fills[n]) \in Int
      BY <2>2 DEF P!Notional
    <2>4. P!CashDelta(side, fills[n]) \in Int
      BY <2>2, <2>3 DEF P!CashDelta
    <2>5. fills[n].price - a \in Int
      BY <2>2
    <2> QED BY <2>2, <2>4, <2>5
  <1> QED BY <1>1 DEF QuantitiesOf, FeesPaid, CashOf, GainsOf

LEMMA BuyingSteps ==
    ASSUME NEW N \in Nat, NEW p, NEW fills, NEW f, IsFold(f, p, "buy", fills, N)
    PROVE  \A n \in 0 .. N - 1 : f[n + 1] = P!Buy(f[n], fills[n + 1])
  <1>1. \A n \in 0 .. N - 1 : f[n + 1] = P!Apply(f[n], "buy", fills[n + 1])
    BY FoldSteps
  <1> QED BY <1>1 DEF P!Apply

LEMMA SellingSteps ==
    ASSUME NEW N \in Nat, NEW p, NEW fills, NEW f, IsFold(f, p, "sell", fills, N)
    PROVE  \A n \in 0 .. N - 1 : f[n + 1] = P!Sell(f[n], fills[n + 1])
  <1>1. \A n \in 0 .. N - 1 : f[n + 1] = P!Apply(f[n], "sell", fills[n + 1])
    BY FoldSteps
  <1> QED BY <1>1 DEF P!Apply

(* Purchases keep the average between the prices.                          *)
LEMMA BuyingKeepsBetween ==
    ASSUME NEW N \in Nat, NEW fills \in [1 .. N -> P!Fills],
           NEW prices \in SUBSET Nat, \A n \in 1 .. N : fills[n].price \in prices,
           NEW p, Between(p, prices), NEW f, IsFold(f, p, "buy", fills, N)
    PROVE  Between(f[N], prices)
  <1> DEFINE Good == {n \in 0 .. N : Between(f[n], prices)}
  <1>1. 0 \in Good
    BY FoldSteps
  <1>2. ASSUME NEW n \in 0 .. N - 1, n \in Good PROVE n + 1 \in Good
    <2>1. f[n + 1] = P!Buy(f[n], fills[n + 1])
      BY BuyingSteps
    <2>2. fills[n + 1] \in P!Fills /\ fills[n + 1].price \in prices
      OBVIOUS
    <2>3. Between(P!Buy(f[n], fills[n + 1]), prices)
      BY <1>2, <2>2, BuyKeepsBetween
    <2> QED BY <2>1, <2>3
  <1>3. \A n \in 0 .. N : n \in Good
    <2> HIDE DEF Good
    <2> QED BY <1>1, <1>2, UpTo
  <1> QED BY <1>3

(* Sales leave the average until nothing is held.                          *)
Sold(p, q) ==
    [quantity |-> q,
     average |-> IF q = 0 THEN [num |-> 0, den |-> 1] ELSE p.average]

LEMMA SellingKeepsAverage ==
    ASSUME NEW N \in Nat, NEW fills \in [1 .. N -> P!Fills], Len(fills) = N,
           NEW prices, NEW p, Between(p, prices),
           NEW f, IsFold(f, p, "sell", fills, N),
           NEW t, IsSum(t, QuantitiesOf(fills), N), t[N] <= p.quantity
    PROVE  f[N] = Sold(p, p.quantity - t[N])
  <1> DEFINE Good == {n \in 0 .. N : f[n] = Sold(p, p.quantity - t[n])}
             g == QuantitiesOf(fills)
  <1>1. g \in [1 .. N -> Nat] /\ IsSum(t, g, N)
    BY SummandsAreIntegers, 0 \in Int
  <1>2. /\ \A n \in 0 .. N : t[n] \in Nat /\ t[n] <= t[N]
        /\ t[0] = 0 /\ \A n \in 0 .. N - 1 : t[n + 1] = t[n] + g[n + 1]
    <2> HIDE DEF g
    <2> QED BY <1>1, SumsGrow
  <1>3. \A n \in 1 .. N : g[n] = fills[n].quantity /\ g[n] \in Nat \ {0}
    <2>1. \A n \in 1 .. N : fills[n] \in P!Fills
      OBVIOUS
    <2>2. \A n \in 1 .. N : g[n] = fills[n].quantity
      BY DEF QuantitiesOf
    <2> HIDE DEF g
    <2> QED BY <2>1, <2>2, FillNumbers
  <1>4. /\ p.quantity \in Nat
        /\ p = [quantity |-> p.quantity, average |-> p.average]
        /\ p.quantity = 0 => p.average = [num |-> 0, den |-> 1]
    BY DEF Between, Position, P!Flat
  <1>5. f[0] = p /\ \A n \in 0 .. N - 1 : f[n + 1] = P!Sell(f[n], fills[n + 1])
    BY FoldSteps, SellingSteps
  <1> HIDE DEF g
  <1>6. 0 \in Good
    <2>1. p.quantity - t[0] = p.quantity
      BY <1>2, <1>4
    <2>2. Sold(p, p.quantity) = p
      BY <1>4 DEF Sold
    <2> QED BY <1>5, <2>1, <2>2
  <1>7. ASSUME NEW n \in 0 .. N - 1, n \in Good PROVE n + 1 \in Good
    <2> DEFINE q == p.quantity - t[n]
               k == fills[n + 1].quantity
               r == p.quantity - t[n + 1]
    <2>1. /\ t[n + 1] = t[n] + k /\ k \in Nat \ {0} /\ t[n] \in Nat
          /\ t[n + 1] <= t[N] /\ t[n + 1] \in Nat /\ t[N] \in Nat
      BY <1>2, <1>3
    <2>2. r = q - k /\ r \in Nat /\ q \in Nat /\ k \in Nat /\ q # 0
      <3>1. t[n + 1] <= p.quantity
        BY <1>4, <2>1
      <3>2. /\ p.quantity \in Nat /\ t[n] \in Nat /\ t[n + 1] \in Nat
            /\ k \in Nat /\ k # 0 /\ t[n + 1] = t[n] + k
        BY ONLY <1>4, <2>1
      <3> HIDE DEF k
      <3> QED BY ONLY <3>1, <3>2
    <2>3. f[n] = Sold(p, q) /\ f[n + 1] = P!Sell(f[n], fills[n + 1])
      BY <1>5, <1>7
    <2>4. f[n].quantity = q /\ f[n] = [quantity |-> q, average |-> p.average]
      BY <2>2, <2>3 DEF Sold
    <2> HIDE DEF q, r
    <2>5. CASE k = q
      <3>1. r = 0
        BY <2>2, <2>5
      <3>2. f[n + 1] = P!Flat
        BY <2>3, <2>4, <2>5 DEF P!Sell
      <3>3. f[n + 1] = Sold(p, r)
        BY <3>1, <3>2 DEF Sold, P!Flat
      <3> QED BY <3>3 DEF r
    <2>6. CASE k # q
      <3>1. r # 0
        BY <2>2, <2>6
      <3>2. f[n + 1] = [quantity |-> q - k, average |-> p.average]
        BY <2>3, <2>4, <2>6 DEF P!Sell
      <3>3. f[n + 1] = Sold(p, r)
        BY <2>2, <3>1, <3>2 DEF Sold
      <3> QED BY <3>3 DEF r
    <2> QED BY <2>5, <2>6
  <1>8. \A n \in 0 .. N : n \in Good
    <2> HIDE DEF Good
    <2> QED BY <1>6, <1>7, UpTo
  <1> QED BY <1>8

(* What sales bring in is what was held at its average, and the gain.      *)
LEMMA SellingGains ==
    ASSUME NEW N \in Nat, NEW fills \in [1 .. N -> P!Fills], Len(fills) = N,
           NEW a \in Int,
           NEW t, IsSum(t, QuantitiesOf(fills), N),
           NEW c, IsSum(c, CashOf("sell", fills), N),
           NEW e, IsSum(e, FeesPaid(fills), N),
           NEW g, IsSum(g, GainsOf(fills, a), N)
    PROVE  /\ g[N] = c[N] + e[N] - t[N] * a
           /\ t[N] \in Int /\ c[N] \in Int /\ e[N] \in Int
  <1>1. /\ t[0] = 0 /\ c[0] = 0 /\ e[0] = 0 /\ g[0] = 0
        /\ \A n \in 0 .. N : /\ t[n] \in Int /\ c[n] \in Int
                             /\ e[n] \in Int /\ g[n] \in Int
        /\ \A n \in 0 .. N - 1 :
             /\ t[n + 1] = t[n] + QuantitiesOf(fills)[n + 1]
             /\ c[n + 1] = c[n] + CashOf("sell", fills)[n + 1]
             /\ e[n + 1] = e[n] + FeesPaid(fills)[n + 1]
             /\ g[n + 1] = g[n] + GainsOf(fills, a)[n + 1]
    <2>1. /\ QuantitiesOf(fills) \in [1 .. N -> Int]
          /\ FeesPaid(fills) \in [1 .. N -> Int]
          /\ CashOf("sell", fills) \in [1 .. N -> Int]
          /\ GainsOf(fills, a) \in [1 .. N -> Int]
      BY SummandsAreIntegers
    <2>2. /\ t[0] = 0 /\ \A n \in 0 .. N : t[n] \in Int
          /\ \A n \in 0 .. N - 1 : t[n + 1] = t[n] + QuantitiesOf(fills)[n + 1]
      <3> DEFINE summands == QuantitiesOf(fills)
      <3>1. summands \in [1 .. N -> Int] /\ IsSum(t, summands, N)
        BY <2>1
      <3> HIDE DEF summands
      <3>2. /\ t[0] = 0 /\ \A n \in 0 .. N : t[n] \in Int
            /\ \A n \in 0 .. N - 1 : t[n + 1] = t[n] + summands[n + 1]
        BY <3>1, SumSteps
      <3> QED BY <3>2 DEF summands
    <2>3. /\ c[0] = 0 /\ \A n \in 0 .. N : c[n] \in Int
          /\ \A n \in 0 .. N - 1 :
                c[n + 1] = c[n] + CashOf("sell", fills)[n + 1]
      <3> DEFINE summands == CashOf("sell", fills)
      <3>1. summands \in [1 .. N -> Int] /\ IsSum(c, summands, N)
        BY <2>1
      <3> HIDE DEF summands
      <3>2. /\ c[0] = 0 /\ \A n \in 0 .. N : c[n] \in Int
            /\ \A n \in 0 .. N - 1 : c[n + 1] = c[n] + summands[n + 1]
        BY <3>1, SumSteps
      <3> QED BY <3>2 DEF summands
    <2>4. /\ e[0] = 0 /\ \A n \in 0 .. N : e[n] \in Int
          /\ \A n \in 0 .. N - 1 : e[n + 1] = e[n] + FeesPaid(fills)[n + 1]
      <3> DEFINE summands == FeesPaid(fills)
      <3>1. summands \in [1 .. N -> Int] /\ IsSum(e, summands, N)
        BY <2>1
      <3> HIDE DEF summands
      <3>2. /\ e[0] = 0 /\ \A n \in 0 .. N : e[n] \in Int
            /\ \A n \in 0 .. N - 1 : e[n + 1] = e[n] + summands[n + 1]
        BY <3>1, SumSteps
      <3> QED BY <3>2 DEF summands
    <2>5. /\ g[0] = 0 /\ \A n \in 0 .. N : g[n] \in Int
          /\ \A n \in 0 .. N - 1 : g[n + 1] = g[n] + GainsOf(fills, a)[n + 1]
      <3> DEFINE summands == GainsOf(fills, a)
      <3>1. summands \in [1 .. N -> Int] /\ IsSum(g, summands, N)
        BY <2>1
      <3> HIDE DEF summands
      <3>2. /\ g[0] = 0 /\ \A n \in 0 .. N : g[n] \in Int
            /\ \A n \in 0 .. N - 1 : g[n + 1] = g[n] + summands[n + 1]
        BY <3>1, SumSteps
      <3> QED BY <3>2 DEF summands
    <2> QED BY <2>2, <2>3, <2>4, <2>5
  <1> DEFINE Good == {n \in 0 .. N : g[n] = (c[n] + e[n]) - t[n] * a}
  <1>2. 0 \in Good
    BY <1>1
  <1>3. ASSUME NEW n \in 0 .. N - 1, n \in Good PROVE n + 1 \in Good
    <2> DEFINE k == fills[n + 1].quantity
               x == fills[n + 1].price
               y == fills[n + 1].fee
    <2>1. k \in Nat /\ x \in Nat /\ y \in Nat
      <3>1. fills[n + 1] \in P!Fills
        OBVIOUS
      <3> QED BY <3>1, FillNumbers
    <2>2. n + 1 \in 1 .. Len(fills)
      OBVIOUS
    <2>3. /\ QuantitiesOf(fills)[n + 1] = k
          /\ FeesPaid(fills)[n + 1] = y
          /\ GainsOf(fills, a)[n + 1] = k * (x - a)
      BY <2>2 DEF QuantitiesOf, FeesPaid, GainsOf
    <2>4. CashOf("sell", fills)[n + 1] = k * x - y
      BY <2>2 DEF CashOf, P!CashDelta, P!Notional
    <2>5. /\ t[n + 1] = t[n] + k /\ e[n + 1] = e[n] + y
          /\ c[n + 1] = c[n] + (k * x - y) /\ g[n + 1] = g[n] + k * (x - a)
      BY <1>1, <2>3, <2>4
    <2>6. g[n] = (c[n] + e[n]) - t[n] * a
      BY <1>3
    <2>7. t[n] \in Int /\ c[n] \in Int /\ e[n] \in Int /\ g[n] \in Int
      BY <1>1
    <2> HIDE DEF k, x, y
    <2>8. k * (x - a) = k * x - k * a
      BY <2>1
    <2>9. t[n + 1] * a = t[n] * a + k * a
      <3>1. (t[n] + k) * a = t[n] * a + k * a
        BY <2>1, <2>7
      <3> QED BY <2>5, <3>1
    <2>10. k * x \in Int /\ k * a \in Int /\ t[n] * a \in Int
      BY <2>1, <2>7
    <2> DEFINE kx == k * x
               ka == k * a
               ta == t[n] * a
               tt == t[n + 1] * a
    <2>11. /\ kx \in Int /\ ka \in Int /\ ta \in Int
           /\ c[n + 1] = c[n] + (kx - y) /\ g[n + 1] = g[n] + (kx - ka)
           /\ tt = ta + ka /\ g[n] = (c[n] + e[n]) - ta
           /\ e[n + 1] = e[n] + y /\ y \in Int
      BY <2>1, <2>5, <2>6, <2>8, <2>9, <2>10
    <2> HIDE DEF kx, ka, ta, tt
    <2>12. g[n + 1] = (c[n + 1] + e[n + 1]) - tt
      BY <2>7, <2>11
    <2>13. g[n + 1] = (c[n + 1] + e[n + 1]) - t[n + 1] * a
      BY <2>12 DEF tt
    <2> QED BY <2>13
  <1>4. \A n \in 0 .. N : n \in Good
    <2> HIDE DEF Good
    <2> QED BY <1>2, <1>3, UpTo
  <1> QED BY <1>1, <1>4

(* What purchases cost is in the book, at the average, and in the fees.    *)
LEMMA CostStep ==
    ASSUME NEW q \in Nat, NEW d \in Nat, NEW x \in Nat, NEW m \in Nat, NEW k \in Nat,
           NEW w \in Int, q * x = d * w
    PROVE  (q + k) * (q * x + d * m) = (d * (q + k)) * (w + m)
  <1>1. d * w + d * m = d * (w + m)
    OBVIOUS
  <1>2. (q + k) * (d * (w + m)) = (d * (q + k)) * (w + m)
    OBVIOUS
  <1> QED BY <1>1, <1>2

LEMMA BuyingCosts ==
    ASSUME NEW N \in Nat, NEW fills \in [1 .. N -> P!Fills], Len(fills) = N,
           NEW prices \in SUBSET Nat, \A n \in 1 .. N : fills[n].price \in prices,
           NEW p, Between(p, prices), p.average.den = 1,
           NEW f, IsFold(f, p, "buy", fills, N),
           NEW c, IsSum(c, CashOf("buy", fills), N),
           NEW e, IsSum(e, FeesPaid(fills), N)
    PROVE  /\ Between(f[N], prices)
           /\ f[N].quantity * f[N].average.num
              = f[N].average.den * ((p.quantity * p.average.num - c[N]) - e[N])
           /\ c[N] \in Int /\ e[N] \in Int
  <1> DEFINE b == p.quantity * p.average.num
             Cost(n) == (b - c[n]) - e[n]
             Good == {n \in 0 .. N :
                        /\ Between(f[n], prices)
                        /\ f[n].quantity * f[n].average.num
                           = f[n].average.den * Cost(n)}
  <1>0. \A n \in 0 .. N - 1 : f[n + 1] = P!Buy(f[n], fills[n + 1])
    BY BuyingSteps
  <1>1. /\ c[0] = 0 /\ \A n \in 0 .. N : c[n] \in Int
        /\ \A n \in 0 .. N - 1 : c[n + 1] = c[n] + CashOf("buy", fills)[n + 1]
    <2> DEFINE summands == CashOf("buy", fills)
    <2>1. summands \in [1 .. N -> Int] /\ IsSum(c, summands, N)
      BY SummandsAreIntegers, 0 \in Int
    <2> HIDE DEF summands
    <2>2. /\ c[0] = 0 /\ \A n \in 0 .. N : c[n] \in Int
          /\ \A n \in 0 .. N - 1 : c[n + 1] = c[n] + summands[n + 1]
      BY <2>1, SumSteps
    <2> QED BY <2>2 DEF summands
  <1>2. /\ e[0] = 0 /\ \A n \in 0 .. N : e[n] \in Int
        /\ \A n \in 0 .. N - 1 : e[n + 1] = e[n] + FeesPaid(fills)[n + 1]
    <2> DEFINE summands == FeesPaid(fills)
    <2>1. summands \in [1 .. N -> Int] /\ IsSum(e, summands, N)
      BY SummandsAreIntegers, 0 \in Int
    <2> HIDE DEF summands
    <2>2. /\ e[0] = 0 /\ \A n \in 0 .. N : e[n] \in Int
          /\ \A n \in 0 .. N - 1 : e[n + 1] = e[n] + summands[n + 1]
      BY <2>1, SumSteps
    <2> QED BY <2>2 DEF summands
  <1>3. b \in Nat
    BY DEF Between, Position
  <1> HIDE DEF b
  <1>4. 0 \in Good
    <2>1. f[0] = p
      BY FoldSteps
    <2>2. Cost(0) = b
      BY <1>1, <1>2, <1>3
    <2>3. p.quantity * p.average.num = p.average.den * b
      BY <1>3 DEF b
    <2> HIDE DEF Cost
    <2>4. 0 \in 0 .. N
      OBVIOUS
    <2> QED BY <2>1, <2>2, <2>3, <2>4
  <1>5. ASSUME NEW n \in 0 .. N - 1, n \in Good PROVE n + 1 \in Good
    <2> DEFINE fill == fills[n + 1]
               k == fill.quantity
               y == fill.fee
               m == P!Notional(fill)
               q == f[n].quantity
               d == f[n].average.den
               x == f[n].average.num
               w == Cost(n)
    <2>0. n \in 0 .. N /\ n + 1 \in 0 .. N /\ n + 1 \in 1 .. Len(fills)
      OBVIOUS
    <2>1. f[n + 1] = P!Buy(f[n], fill)
      BY <1>0
    <2>2. fill \in P!Fills /\ fill.price \in prices
      BY <2>0
    <2>3. Between(f[n], prices) /\ q * x = d * w
      BY <1>5
    <2>4. Between(f[n + 1], prices)
      BY <2>1, <2>2, <2>3, BuyKeepsBetween
    <2>5. q \in Nat /\ d \in Nat /\ x \in Nat
      BY <2>3 DEF Between, Position
    <2>6. k \in Nat /\ m \in Nat /\ y \in Nat
      <3>1. k \in Nat /\ fill.price \in Nat /\ y \in Nat
        BY <2>2, FillNumbers
      <3> QED BY <3>1 DEF P!Notional
    <2>7. /\ CashOf("buy", fills)[n + 1] = -(m + y)
          /\ FeesPaid(fills)[n + 1] = y
      BY <2>0 DEF CashOf, FeesPaid, P!CashDelta
    <2>8. /\ f[n + 1].quantity = q + k
          /\ f[n + 1].average.num = q * x + d * m
          /\ f[n + 1].average.den = d * (q + k)
      BY <2>1 DEF P!Buy
    <2>9. c[n + 1] = c[n] + (-(m + y)) /\ e[n + 1] = e[n] + y
      BY <1>1, <1>2, <2>7
    <2>10. c[n] \in Int /\ e[n] \in Int
      BY <1>1, <1>2, <2>0
    <2> HIDE DEF k, y, m, q, d, x
    <2>11. Cost(n + 1) = w + m /\ w \in Int
      BY <1>3, <2>6, <2>9, <2>10
    <2> HIDE DEF Cost, w
    <2>12. (q + k) * (q * x + d * m) = (d * (q + k)) * (w + m)
      BY <2>3, <2>5, <2>6, <2>11, CostStep
    <2>13. f[n + 1].quantity * f[n + 1].average.num
           = f[n + 1].average.den * Cost(n + 1)
      BY <2>8, <2>11, <2>12
    <2> QED BY <2>0, <2>4, <2>13
  <1>6. \A n \in 0 .. N : n \in Good
    <2> HIDE DEF Good
    <2> QED BY <1>4, <1>5, UpTo
  <1>7. N \in Good /\ c[N] \in Int /\ e[N] \in Int
    BY <1>1, <1>2, <1>6
  <1> QED BY <1>7 DEF b

(* Half a last digit of the average on every unit held.                    *)
LEMMA RoundingCosts ==
    ASSUME NEW q \in Nat, NEW d \in Nat \ {0}, NEW x \in Nat, NEW w \in Int,
           NEW r \in Nat, q * x = d * w, q = 0 => x = 0 /\ d = 1 /\ r = 0,
           2 * d * r <= 2 * x + d, 2 * x + d < 2 * d * r + 2 * d
    PROVE  2 * (q * r - w) \in -q .. q
  <1>1. CASE q = 0
    <2>1. w = 0 /\ q * r = 0
      BY <1>1
    <2> QED BY <1>1, <2>1
  <1>2. CASE q # 0
    <2> DEFINE a == q * r
    <2>0. a \in Nat
      OBVIOUS
    <2>1. d * (2 * a) <= d * (2 * w + q)
      <3>1. q * (2 * d * r) <= q * (2 * x + d)
        <4>1. 2 * d * r \in Nat /\ 2 * x + d \in Nat
          OBVIOUS
        <4> QED BY <4>1
      <3>2. q * (2 * d * r) = d * (2 * a)
        OBVIOUS
      <3>3. q * (2 * x + d) = 2 * (q * x) + d * q
        OBVIOUS
      <3>4. d * (2 * w + q) = 2 * (d * w) + d * q
        OBVIOUS
      <3> QED BY <3>1, <3>2, <3>3, <3>4
    <2>2. d * (2 * w + q) <= d * (2 * a + 2 * q)
      <3>1. q * (2 * x + d) <= q * (2 * d * r + 2 * d)
        <4>1. 2 * d * r + 2 * d \in Nat /\ 2 * x + d \in Nat
          OBVIOUS
        <4> QED BY <4>1
      <3>2. q * (2 * d * r + 2 * d) = d * (2 * a + 2 * q)
        OBVIOUS
      <3>3. q * (2 * x + d) = 2 * (q * x) + d * q
        OBVIOUS
      <3>4. d * (2 * w + q) = 2 * (d * w) + d * q
        OBVIOUS
      <3> QED BY <3>1, <3>2, <3>3, <3>4
    <2>3. 2 * a \in Int /\ 2 * w + q \in Int /\ 2 * a + 2 * q \in Int
      BY <2>0
    <2> HIDE DEF a
    <2>4. 2 * a <= 2 * w + q /\ 2 * w + q <= 2 * a + 2 * q
      BY <2>1, <2>2, <2>3, Multiples
    <2>5. 2 * (a - w) \in -q .. q
      BY <2>0, <2>4
    <2> QED BY <2>5 DEF a
  <1> QED BY <1>1, <1>2

-----------------------------------------------------------------------------
(* The row is what it was or the fold of an execution; the prices paid     *)
(* bound the average it keeps.                                             *)
PortfolioInv ==
    /\ row = P!NoRow \/ row \in [quantity : Nat, average : Nat]
    /\ paid \subseteq Nat
    /\ Between(P!LoadPosition, paid)

LEMMA Loaded ==
    ASSUME row = P!NoRow \/ row \in [quantity : Nat, average : Nat]
    PROVE  /\ P!LoadPosition.quantity \in Nat
           /\ P!LoadPosition.average.num \in Nat
           /\ P!LoadPosition.average.den = 1
           /\ P!LoadPosition \in Position
  <1>1. CASE row = P!NoRow
    BY <1>1 DEF P!LoadPosition, P!Flat, Position
  <1>2. CASE row # P!NoRow
    <2>1. /\ P!LoadPosition = [quantity |-> row.quantity,
                               average |-> [num |-> row.average, den |-> 1]]
          /\ row.quantity \in Nat /\ row.average \in Nat
      BY <1>2 DEF P!LoadPosition
    <2> QED BY <2>1 DEF Position
  <1> QED BY <1>1, <1>2

(* A saved position, as the next cycle loads it.                           *)
LEMMA Reloaded ==
    ASSUME NEW p \in Position, P!SavePosition(p)
    PROVE  /\ row' \in [quantity : Nat, average : Nat]
           /\ P!LoadPosition' = [quantity |-> p.quantity,
                                 average |-> [num |-> P!Stored(p.average), den |-> 1]]
  <1>1. row' = [quantity |-> p.quantity, average |-> P!Stored(p.average)]
    BY DEF P!SavePosition
  <1>2. p.quantity \in Nat /\ P!Stored(p.average) \in Nat
    <2>1. /\ p.average.num \in Nat /\ p.average.den \in Nat \ {0}
          /\ p.average = [num |-> p.average.num, den |-> p.average.den]
      BY DEF Position
    <2>2. P!Stored([num |-> p.average.num, den |-> p.average.den]) \in Nat
      BY <2>1, StoredBounds
    <2> QED BY <2>1, <2>2 DEF Position
  <1>3. row' # P!NoRow
    BY <1>1, <1>2 DEF P!NoRow
  <1> QED BY <1>1, <1>2, <1>3 DEF P!LoadPosition

LEMMA StoredStaysBetween ==
    ASSUME NEW prices \in SUBSET Nat, NEW p, Between(p, prices)
    PROVE  Between([quantity |-> p.quantity,
                    average |-> [num |-> P!Stored(p.average), den |-> 1]], prices)
  <1> DEFINE x == p.average.num
             d == p.average.den
             r == P!Stored([num |-> x, den |-> d])
  <1>1. /\ p.quantity \in Nat /\ x \in Nat /\ d \in Nat \ {0}
        /\ p.average = [num |-> x, den |-> d]
    BY DEF Between, Position
  <1>2. /\ r \in Nat
        /\ \A low \in Nat : low * d <= x => low <= r
        /\ \A high \in Nat : x <= high * d => r <= high
        /\ x = 0 => r = 0
    <2> HIDE DEF x, d
    <2> QED BY <1>1, StoredBounds
  <1>3. CASE p.quantity = 0
    <2>1. x = 0
      BY <1>3 DEF Between, P!Flat
    <2>2. r = 0
      BY <1>2, <2>1
    <2> HIDE DEF r, x, d
    <2> QED BY <1>1, <1>3, <2>2 DEF Between, Position, P!Flat, r
  <1>4. CASE p.quantity # 0
    <2>1. PICK low \in prices : low * d <= x
      BY <1>4 DEF Between
    <2>2. PICK high \in prices : x <= high * d
      BY <1>4 DEF Between
    <2> HIDE DEF x, d, r
    <2>3. low \in Nat /\ high \in Nat /\ low <= r /\ r <= high
      BY <1>2, <2>1, <2>2
    <2>4. low * 1 <= r /\ r <= high * 1
      BY <1>2, <2>3
    <2>5. [quantity |-> p.quantity, average |-> [num |-> r, den |-> 1]] \in Position
      BY <1>1, <1>2 DEF Position
    <2>6. Between([quantity |-> p.quantity, average |-> [num |-> r, den |-> 1]], prices)
      BY <1>4, <2>4, <2>5 DEF Between
    <2>7. P!Stored(p.average) = r
      BY <1>1 DEF r
    <2> QED BY <2>6, <2>7
  <1> QED BY <1>3, <1>4

LEMMA PricesOfPurchases ==
    ASSUME NEW N \in Nat, NEW fills \in [1 .. N -> P!Fills], paid \subseteq Nat
    PROVE  /\ paid \cup {fills[i].price : i \in DOMAIN fills} \in SUBSET Nat
           /\ \A n \in 1 .. N :
                fills[n].price \in paid \cup {fills[i].price : i \in DOMAIN fills}
  <1>1. \A n \in 1 .. N : fills[n] \in P!Fills
    OBVIOUS
  <1>2. \A n \in 1 .. N : fills[n].price \in Nat
    BY <1>1, FillNumbers
  <1> QED BY <1>2

LEMMA WiderBetween ==
    ASSUME NEW prices, NEW more, prices \subseteq more, NEW p, Between(p, prices)
    PROVE  Between(p, more)
  BY DEF Between

(* What booking an execution does.                                         *)
LEMMA Purchases ==
    ASSUME PortfolioInv, NEW fills \in P!SeqOf(P!Fills, MaxFills),
           P!Book("buy", fills)
    PROVE  PortfolioInv' /\ P!Realised
  <1> DEFINE N == Len(fills)
             prices == paid \cup {fills[i].price : i \in DOMAIN fills}
             p == P!LoadPosition
             b == p.quantity * p.average.num
             after == P!ApplyExecution(p, "buy", fills)
  <1>1. N \in Nat /\ fills \in [1 .. N -> P!Fills]
    BY FillsOfExecution
  <1>2. /\ P!SavePosition(after)
        /\ change' = P!CashAfter("buy", fills)
        /\ last' = [side |-> "buy", fills |-> fills]
        /\ paid' = prices
    BY DEF P!Book, P!PricesPaid
  <1>3. prices \in SUBSET Nat /\ \A n \in 1 .. N : fills[n].price \in prices
    <2>1. paid \subseteq Nat
      BY DEF PortfolioInv
    <2> HIDE DEF N
    <2> QED BY <1>1, <2>1, PricesOfPurchases
  <1>4. /\ Between(p, prices) /\ p.average.den = 1
        /\ p.quantity \in Nat /\ p.average.num \in Nat
    <2>1. paid \subseteq prices
      OBVIOUS
    <2> HIDE DEF prices
    <2> QED BY <2>1, WiderBetween, Loaded DEF PortfolioInv
  <1>5. PICK f : IsFold(f, p, "buy", fills, N) /\ after = f[N]
    BY <1>1, ExecutionIsFold
  <1>6. PICK c : IsSum(c, CashOf("buy", fills), N) /\ P!CashAfter("buy", fills) = c[N]
    BY <1>1, CashOfFills
  <1>7. PICK e : IsSum(e, FeesPaid(fills), N) /\ P!FeesOf(fills) = e[N]
    BY <1>1, FeesOfFills
  <1>8. /\ Between(after, prices)
        /\ after.quantity * after.average.num = after.average.den * ((b - c[N]) - e[N])
        /\ c[N] \in Int /\ e[N] \in Int
    <2>1. Len(fills) = N
      OBVIOUS
    <2> HIDE DEF N, prices, p, after
    <2> QED BY <1>1, <1>3, <1>4, <1>5, <1>6, <1>7, <2>1, BuyingCosts
  <1>9. after \in Position
    BY <1>8 DEF Between
  <1> HIDE DEF N, prices, after
  <1>10. /\ row' \in [quantity : Nat, average : Nat]
         /\ P!LoadPosition' = [quantity |-> after.quantity,
                               average |-> [num |-> P!Stored(after.average), den |-> 1]]
    BY <1>2, <1>9, Reloaded
  <1>11. PortfolioInv'
    <2>1. Between(P!LoadPosition', prices)
      BY <1>3, <1>8, <1>10, StoredStaysBetween
    <2> QED BY <1>2, <1>3, <1>10, <2>1 DEF PortfolioInv
  <1>12. P!Realised
    <2> DEFINE q == after.quantity
               d == after.average.den
               x == after.average.num
               r == P!Stored([num |-> x, den |-> d])
               w == (b - c[N]) - e[N]
    <2>1. /\ q \in Nat /\ d \in Nat \ {0} /\ x \in Nat
          /\ after.average = [num |-> x, den |-> d]
      BY <1>9 DEF Position
    <2>2. q = 0 => x = 0 /\ d = 1
      BY <1>8 DEF Between, P!Flat
    <2>3. /\ r \in Nat /\ 2 * d * r <= 2 * x + d /\ 2 * x + d < 2 * d * r + 2 * d
          /\ x = 0 => r = 0
      <3> HIDE DEF x, d
      <3> QED BY <2>1, StoredBounds
    <2>4. b \in Nat
      BY <1>4
    <2>5. w \in Int /\ q * x = d * w
      BY <1>8, <2>4
    <2>6. P!LoadPosition'.quantity = q /\ P!BookValue' = q * r
      BY <1>10, <2>1 DEF P!BookValue
    <2>7. P!BookValue = b
      BY DEF P!BookValue
    <2>8. change' = c[N] /\ P!FeesOf(last'.fills) = e[N] /\ last'.side = "buy"
      BY <1>2, <1>6, <1>7
    <2> HIDE DEF q, d, x, r, w, b, p
    <2>9. 2 * (q * r - w) \in -q .. q
      BY <2>1, <2>2, <2>3, <2>5, RoundingCosts
    <2>10. q * r - w = change' + P!BookValue' - P!BookValue + P!FeesOf(last'.fills)
      <3>1. q * r \in Int
        BY <2>1, <2>3
      <3> QED BY <1>8, <2>4, <2>6, <2>7, <2>8, <3>1 DEF w
    <2>11. 2 * (change' + P!BookValue' - P!BookValue + P!FeesOf(last'.fills)) \in -q .. q
      BY <2>9, <2>10
    <2>12. last'.side # "sell" /\ P!LoadPosition'.quantity = q
      BY <2>6, <2>8
    <2> QED BY <2>11, <2>12 DEF P!Realised
  <1> QED BY <1>11, <1>12

LEMMA Sales ==
    ASSUME PortfolioInv, NEW fills \in P!SeqOf(P!Fills, MaxFills),
           P!Book("sell", fills)
    PROVE  PortfolioInv' /\ P!Realised
  <1> DEFINE N == Len(fills)
             p == P!LoadPosition
             a == p.average.num
             after == P!ApplyExecution(p, "sell", fills)
  <1>1. N \in Nat /\ fills \in [1 .. N -> P!Fills]
    BY FillsOfExecution
  <1>2. /\ ~P!Oversells("sell", fills)
        /\ P!SavePosition(after)
        /\ change' = P!CashAfter("sell", fills)
        /\ last' = [side |-> "sell", fills |-> fills]
        /\ paid' = IF P!Total(fills) = p.quantity THEN {} ELSE paid
    BY DEF P!Book, P!PricesPaid
  <1>3. /\ Between(p, paid) /\ paid \subseteq Nat
        /\ p.quantity \in Nat /\ a \in Nat /\ p.average.den = 1
    BY Loaded DEF PortfolioInv
  <1>4. PICK f : IsFold(f, p, "sell", fills, N) /\ after = f[N]
    BY <1>1, ExecutionIsFold
  <1>5. PICK c : IsSum(c, CashOf("sell", fills), N) /\ P!CashAfter("sell", fills) = c[N]
    BY <1>1, CashOfFills
  <1>6. PICK e : IsSum(e, FeesPaid(fills), N) /\ P!FeesOf(fills) = e[N]
    BY <1>1, FeesOfFills
  <1>7. PICK t : IsSum(t, QuantitiesOf(fills), N) /\ P!Total(fills) = t[N]
    BY <1>1, TotalOfFills
  <1>8. PICK g : IsSum(g, GainsOf(fills, a), N) /\ P!Gain(fills, a) = g[N]
    BY <1>1, GainOfFills
  <1>9. t[N] \in Nat /\ t[N] <= p.quantity
    <2>1. t[N] \in Nat
      <3>1. Len(fills) = N
        OBVIOUS
      <3> HIDE DEF N
      <3>2. QuantitiesOf(fills) \in [1 .. N -> Nat]
        BY <1>1, <3>1, SummandsAreIntegers, 0 \in Int
      <3>3. N \in 0 .. N
        BY <1>1
      <3> QED BY <1>1, <1>7, <3>2, <3>3, SumsGrow
    <2>2. ~(t[N] > p.quantity)
      BY <1>2, <1>7 DEF P!Oversells
    <2> HIDE DEF p, N
    <2> QED BY <1>3, <2>1, <2>2
  <1>10. /\ g[N] = c[N] + e[N] - t[N] * a
         /\ t[N] \in Int /\ c[N] \in Int /\ e[N] \in Int
    <2>1. Len(fills) = N /\ a \in Int
      BY <1>3
    <2> HIDE DEF N, a
    <2> QED BY <1>1, <1>5, <1>6, <1>7, <1>8, <2>1, SellingGains
  <1>11. after = Sold(p, p.quantity - t[N])
    <2>1. Len(fills) = N
      OBVIOUS
    <2> HIDE DEF N, p, after
    <2> QED BY <1>1, <1>3, <1>4, <1>7, <1>9, <2>1, SellingKeepsAverage
  <1> DEFINE q == p.quantity
             k == t[N]
             held == q - k
  <1>12. /\ held \in Nat /\ q \in Nat /\ k \in Nat
         /\ held = 0 <=> k = q
         /\ after.quantity = held
         /\ after.average = IF held = 0 THEN [num |-> 0, den |-> 1] ELSE p.average
    BY <1>3, <1>9, <1>11 DEF Sold
  <1>13. p.average = [num |-> a, den |-> 1] /\ p.average \in [num : Nat, den : Nat \ {0}]
    BY <1>3 DEF Between, Position
  <1>14. after \in Position
    <2>1. after = [quantity |-> after.quantity, average |-> after.average]
      BY <1>11 DEF Sold
    <2>2. [num |-> 0, den |-> 1] \in [num : Nat, den : Nat \ {0}]
      OBVIOUS
    <2> HIDE DEF after, p, held
    <2> QED BY <1>12, <1>13, <2>1, <2>2 DEF Position
  <1> HIDE DEF after
  <1>15. /\ row' \in [quantity : Nat, average : Nat]
         /\ P!LoadPosition' = [quantity |-> after.quantity,
                               average |-> [num |-> P!Stored(after.average), den |-> 1]]
    BY <1>2, <1>14, Reloaded
  <1>16. P!Stored(after.average) = IF held = 0 THEN 0 ELSE a
    <2>1. P!Stored([num |-> 0, den |-> 1]) = 0
      BY StoredBounds
    <2>2. P!Stored([num |-> a, den |-> 1]) = a
      <3> HIDE DEF a
      <3> QED BY <1>3, StoredBounds
    <2> HIDE DEF held, a, p
    <2> QED BY <1>12, <1>13, <2>1, <2>2
  <1>17. P!LoadPosition'.quantity = held
         /\ P!LoadPosition' = [quantity |-> held,
                               average |-> [num |-> IF held = 0 THEN 0 ELSE a,
                                            den |-> 1]]
    BY <1>12, <1>15, <1>16
  <1>18. PortfolioInv'
    <2>1. paid' = IF held = 0 THEN {} ELSE paid
      BY <1>2, <1>7, <1>12
    <2>2. held # 0 => /\ \E price \in paid : price * 1 <= a
                      /\ \E price \in paid : a <= price * 1
      <3>1. held # 0 => p.quantity # 0
        BY <1>12
      <3> QED BY <1>3, <3>1 DEF Between
    <2> DEFINE loaded == [quantity |-> held,
                          average |-> [num |-> IF held = 0 THEN 0 ELSE a,
                                       den |-> 1]]
    <2>3. Between(loaded, paid')
      <3> HIDE DEF held, a
      <3>1. loaded \in Position
        BY <1>3, <1>12 DEF Position
      <3>2. CASE held = 0
        BY <3>1, <3>2 DEF Between, P!Flat
      <3>3. CASE held # 0
        BY <2>1, <2>2, <3>1, <3>3 DEF Between
      <3> QED BY <3>2, <3>3
    <2>4. Between(P!LoadPosition', paid')
      <3> HIDE DEF held, a
      <3> QED BY <1>17, <2>3
    <2>5. paid' \subseteq Nat
      BY <1>3, <2>1
    <2> QED BY <1>15, <2>4, <2>5 DEF PortfolioInv
  <1>19. P!Realised
    <2>1. P!BookValue = q * a /\ P!BookValue' = held * a
      <3>1. P!BookValue = q * a
        BY DEF P!BookValue
      <3>2. P!BookValue' = held * (IF held = 0 THEN 0 ELSE a)
        <4> HIDE DEF held, a
        <4> QED BY <1>17 DEF P!BookValue
      <3> HIDE DEF held, a
      <3>3. held * (IF held = 0 THEN 0 ELSE a) = held * a
        BY <1>3, <1>12
      <3> QED BY <3>1, <3>2, <3>3
    <2>2. held * a = q * a - k * a /\ q * a \in Int /\ k * a \in Int
      <3>1. held = q - k /\ a \in Nat
        BY <1>3
      <3> HIDE DEF held, a, q, k
      <3> QED BY <1>12, <3>1
    <2>3. change' = c[N] /\ P!FeesOf(last'.fills) = e[N] /\ last'.side = "sell"
          /\ P!Gain(last'.fills, P!LoadPosition.average.num) = g[N]
      BY <1>2, <1>5, <1>6, <1>8
    <2> DEFINE qa == q * a
               ka == k * a
    <2>4. /\ qa \in Int /\ ka \in Int /\ P!BookValue = qa /\ P!BookValue' = qa - ka
          /\ g[N] = c[N] + e[N] - ka
      BY <1>10, <2>1, <2>2
    <2> HIDE DEF qa, ka, N, q, a, p, k, held
    <2>5. change' + P!BookValue' - P!BookValue + P!FeesOf(last'.fills)
          = P!Gain(last'.fills, P!LoadPosition.average.num)
      BY <1>10, <2>3, <2>4
    <2> QED BY <2>3, <2>5 DEF P!Realised
  <1> QED BY <1>18, <1>19

LEMMA Refusals ==
    ASSUME PortfolioInv, NEW side, NEW fills, P!Refuse(side, fills)
    PROVE  PortfolioInv' /\ P!Realised
  <1>1. /\ row' = row /\ paid' = paid /\ change' = 0
        /\ last' = [side |-> "sell", fills |-> <<>>]
    BY DEF P!Refuse, P!Oversells
  <1>2. P!LoadPosition' = P!LoadPosition
    BY <1>1 DEF P!LoadPosition
  <1>3. PortfolioInv'
    BY <1>1, <1>2 DEF PortfolioInv
  <1> DEFINE a == P!LoadPosition.average.num
             none == <<>>
  <1>4. Len(none) = 0
    OBVIOUS
  <1>5. P!FeesOf(none) = 0
    <2>1. PICK f : IsSum(f, FeesPaid(none), 0) /\ P!FeesOf(none) = f[0]
      BY <1>4, FeesOfFills
    <2> QED BY <2>1 DEF IsSum
  <1>6. P!Gain(none, a) = 0
    <2> HIDE DEF none, a
    <2>1. PICK f : IsSum(f, GainsOf(none, a), 0) /\ P!Gain(none, a) = f[0]
      BY <1>4, GainOfFills
    <2> QED BY <2>1 DEF IsSum
  <1>7. P!BookValue' = P!BookValue /\ P!BookValue \in Int
    <2>1. P!LoadPosition.quantity \in Int /\ P!LoadPosition.average.num \in Int
      BY Loaded DEF PortfolioInv
    <2> QED BY <1>2, <2>1 DEF P!BookValue
  <1>8. last'.side = "sell" /\ last'.fills = none
    BY <1>1
  <1>9. P!Realised
    <2> HIDE DEF none
    <2>1. P!Gain(last'.fills, P!LoadPosition.average.num) = 0
      BY <1>6, <1>8
    <2>2. change' + P!BookValue' - P!BookValue + P!FeesOf(last'.fills) = 0
      BY <1>1, <1>5, <1>7, <1>8
    <2> QED BY <1>8, <2>1, <2>2 DEF P!Realised
  <1> QED BY <1>3, <1>9

LEMMA PortfolioKeeps ==
    ASSUME PortfolioInv, P!Next
    PROVE  PortfolioInv' /\ P!Realised
  <1>1. PICK side \in P!OrderSide, fills \in P!SeqOf(P!Fills, MaxFills) :
           P!Book(side, fills) \/ P!Refuse(side, fills)
    BY DEF P!Next
  <1>2. CASE P!Refuse(side, fills)
    BY <1>2, Refusals
  <1>3. CASE P!Book(side, fills) /\ side = "buy"
    BY <1>3, Purchases
  <1>4. CASE P!Book(side, fills) /\ side = "sell"
    BY <1>4, Sales
  <1> QED BY <1>1, <1>2, <1>3, <1>4 DEF P!OrderSide

LEMMA PortfolioInvariant == CalculationsSpec => []PortfolioInv
  <1>1. CalculationsInit => PortfolioInv
    <2> SUFFICES ASSUME CalculationsInit PROVE PortfolioInv
      OBVIOUS
    <2>1. row = P!NoRow /\ paid = {}
      BY DEF CalculationsInit, P!Init
    <2>2. P!LoadPosition = P!Flat /\ P!LoadPosition \in Position
      BY <2>1, Loaded DEF P!LoadPosition
    <2> QED BY <2>1, <2>2 DEF PortfolioInv, Between, P!Flat
  <1>2. PortfolioInv /\ [CalculationsNext]_calculations => PortfolioInv'
    <2> SUFFICES ASSUME PortfolioInv, [CalculationsNext]_calculations
                 PROVE  PortfolioInv'
      OBVIOUS
    <2>1. CASE UNCHANGED portfolio
      <3>1. row' = row /\ paid' = paid
        BY <2>1 DEF portfolio
      <3>2. P!LoadPosition' = P!LoadPosition
        BY <3>1 DEF P!LoadPosition
      <3> QED BY <3>1, <3>2 DEF PortfolioInv
    <2>2. CASE P!Next
      BY <2>2, PortfolioKeeps
    <2> QED BY <2>1, <2>2 DEF CalculationsNext, PolicyStep, PortfolioStep,
               StrategyStep, TimeframesStep, calculations
  <1> QED BY <1>1, <1>2, PTL DEF CalculationsSpec

(* The average price stays between the prices paid since the position was  *)
(* last flat, whatever the fills of the executions, the fees, the sales    *)
(* between and the rounding of the column (Position.apply).                *)
THEOREM AverageIsBetweenPricesAlways == CalculationsSpec => []AverageIsBetweenPrices
  <1>1. PortfolioInv => AverageIsBetweenPrices
    <2> SUFFICES ASSUME PortfolioInv PROVE P!AverageIsBetweenPrices
      BY DEF AverageIsBetweenPrices
    <2> DEFINE p == P!LoadPosition
    <2>1. /\ p.quantity \in Nat /\ p.average.num \in Nat /\ p.average.den = 1
          /\ paid \subseteq Nat /\ Between(p, paid)
      BY Loaded DEF PortfolioInv
    <2>2. p.quantity = 0 => p.average.num = 0
      BY <2>1 DEF Between, P!Flat
    <2>3. p.quantity # 0 => /\ \E price \in paid : price * 1 <= p.average.num
                            /\ \E price \in paid : p.average.num <= price * 1
      BY <2>1 DEF Between
    <2>4. \A price \in paid : price * 1 = price
      BY <2>1
    <2>5. p.quantity # 0 => /\ p.quantity > 0
                            /\ \E price \in paid : price <= p.average.num
                            /\ \E price \in paid : p.average.num <= price
      <3> HIDE DEF p
      <3> QED BY <2>1, <2>3, <2>4
    <2> QED BY <2>2, <2>5 DEF P!AverageIsBetweenPrices
  <1> QED BY <1>1, PortfolioInvariant, PTL

(* Cash and position together gain by selling alone, exactly what the      *)
(* prices differ from the average; a purchase costs its fees and at most   *)
(* half a last digit per unit, whatever the fills (apply_execution).       *)
THEOREM OnlySalesRealiseAlways == CalculationsSpec => OnlySalesRealise
  <1>1. PortfolioInv /\ [CalculationsNext]_calculations => [P!Realised]_(P!vars)
    <2> SUFFICES ASSUME PortfolioInv, [CalculationsNext]_calculations
                 PROVE  P!Realised \/ UNCHANGED P!vars
      OBVIOUS
    <2>1. CASE UNCHANGED portfolio
      BY <2>1 DEF portfolio, P!vars
    <2>2. CASE P!Next
      BY <2>2, PortfolioKeeps
    <2> QED BY <2>1, <2>2 DEF CalculationsNext, PolicyStep, PortfolioStep,
               StrategyStep, TimeframesStep, calculations
  <1> QED BY <1>1, PortfolioInvariant, PTL
          DEF CalculationsSpec, OnlySalesRealise, P!OnlySalesRealise
=============================================================================
