---------------------------- MODULE EvaluationProofs ----------------------------
(***************************************************************************)
(* Theorems about Simulation, PaperTrading and WalkForward.                *)
(***************************************************************************)
EXTENDS PaperTrading, WalkForward, FoldLemmas, FiniteSetTheorems, SequenceTheorems, TLAPS

-----------------------------------------------------------------------------
(* Sets of days.                                                           *)

\* A set of days has a first one.
LEMMA LeastIsIn ==
  ASSUME NEW S, S \subseteq Days, S # {}
  PROVE  Least(S) \in S /\ \A y \in S : Least(S) <= y
<1>1. S \subseteq Nat
  BY MarketAssumption DEF Days
<1>2. \E x \in S : \A y \in S : x <= y
  BY <1>1, LeastOfNumbers
<1> QED
  BY <1>2 DEF Least

\* A set of days has a last one.
LEMMA GreatestIsIn ==
  ASSUME NEW S, S \subseteq Days, S # {}
  PROVE  Greatest(S) \in S /\ \A y \in S : y <= Greatest(S)
<1> DEFINE T == {MaxDay - y : y \in S}
<1>1. T \subseteq Nat /\ T # {}
  <2>1. \A y \in S : MaxDay - y \in Nat
    BY MarketAssumption DEF Days
  <2> QED
    BY <2>1
<1>2. PICK x \in T : \A y \in T : x <= y
  BY <1>1, LeastOfNumbers
<1>3. PICK z \in S : x = MaxDay - z
  OBVIOUS
<1>4. \A y \in S : y <= z
  BY <1>2, <1>3, MarketAssumption DEF Days
<1> QED
  BY <1>3, <1>4 DEF Greatest

LEMMA DaysAreFinite ==
  ASSUME NEW S, S \subseteq Days
  PROVE  IsFiniteSet(S) /\ Cardinality(S) \in Nat
<1>1. IsFiniteSet(Days)
  BY MarketAssumption, FS_Interval DEF Days
<1> QED
  BY <1>1, FS_Subset, FS_CardinalityType

-----------------------------------------------------------------------------
(* The window of a signal.                                                 *)

\* Every session of a market state is a past day with a bar of its instrument.
LEMMA SessionsAreHeld ==
  ASSUME MarketTypeOK, NEW i \in Instruments, NEW d \in Nat, NEW x \in After(i, d)
  PROVE  /\ x \in Days /\ d < x /\ x <= today /\ x \notin Closed[i]
         /\ bars[i][x] \in Prices[i]
<1> QED
  BY MarketAssumption DEF MarketTypeOK, After, Days

\* The entry and the exit of a trade are sessions of its window.
LEMMA WindowHolds ==
  ASSUME MarketTypeOK, NEW i \in Instruments, NEW d \in Nat, After(i, d) # {}
  PROVE  /\ EntryDay(i, d) \in Window(i, d)
         /\ \A x \in After(i, d) : EntryDay(i, d) <= x
         /\ ExitDay(i, d) \in Window(i, d)
<1>1. After(i, d) \subseteq Days /\ Window(i, d) \subseteq After(i, d)
  BY DEF After, Window
<1>2. EntryDay(i, d) \in After(i, d) /\ \A x \in After(i, d) : EntryDay(i, d) <= x
  BY <1>1, LeastIsIn DEF EntryDay
<1>3. UpTo(i, d, EntryDay(i, d)) = {EntryDay(i, d)}
  BY <1>1, <1>2, MarketAssumption DEF UpTo, Days
<1>4. EntryDay(i, d) \in Window(i, d)
  <2>1. Cardinality(UpTo(i, d, EntryDay(i, d))) = 1
    BY <1>3, FS_Singleton
  <2>2. 1 <= Horizon
    BY MarketAssumption
  <2> QED
    BY <1>2, <2>1, <2>2 DEF Window
<1>5. ExitDay(i, d) \in Window(i, d)
  <2>1. CASE Touching(i, d) # {}
    <3>1. Touching(i, d) \subseteq Days /\ Touching(i, d) \subseteq Window(i, d)
      BY <1>1 DEF Touching
    <3> QED
      BY <2>1, <3>1, LeastIsIn DEF ExitDay
  <2>2. CASE Touching(i, d) = {}
    BY <1>1, <1>4, <2>2, GreatestIsIn DEF ExitDay
  <2> QED
    BY <2>1, <2>2
<1> QED
  BY <1>2, <1>4, <1>5

SimType ==
  [instrument : Instruments, signal : Days, entryDay : Days, entry : Int,
   exitDay : Days, exit : Int, outcome : {"STOP", "TARGET", "HORIZON"}]

LEMMA PercentIsInt ==
  ASSUME NEW p \in Int, NEW q \in Int
  PROVE  (p * q) \div 100 \in Int
<1>1. p * q \in Int
  OBVIOUS
<1> DEFINE r == p * q
<1>2. r \in Int
  BY <1>1
<1> HIDE DEF r
<1>3. r \div 100 \in Int
  BY <1>2
<1> QED
  BY <1>3 DEF r

LEMMA SimulatedIsTyped ==
  ASSUME MarketTypeOK, NEW i \in Instruments, NEW d \in Days, After(i, d) # {}
  PROVE  Simulated(i, d) \in SimType
<1>1. d \in Nat
  BY MarketAssumption DEF Days
<1>2. /\ EntryDay(i, d) \in Days /\ bars[i][EntryDay(i, d)] \in Prices[i]
      /\ ExitDay(i, d) \in Days /\ bars[i][ExitDay(i, d)] \in Prices[i]
  BY <1>1, WindowHolds, SessionsAreHeld DEF Window
<1>3. Entry(i, d) \in Int /\ bars[i][ExitDay(i, d)].close \in Int
  BY <1>2, MarketAssumption DEF Entry
<1>4. 100 - Stop \in Int /\ 100 + Target \in Int
  BY MarketAssumption
<1>5. StopPrice(i, d) \in Int /\ TargetPrice(i, d) \in Int
  BY <1>3, <1>4, PercentIsInt DEF StopPrice, TargetPrice
<1>6. ExitPrice(i, d) \in Int
  BY <1>3, <1>5 DEF ExitPrice
<1>7. Outcome(i, d) \in {"STOP", "TARGET", "HORIZON"}
  BY DEF Outcome
<1> QED
  BY <1>2, <1>3, <1>6, <1>7 DEF Simulated, SimType

-----------------------------------------------------------------------------
(* A session is added.                                                     *)

LEMMA MarketStarts == MarketInit => MarketTypeOK
<1> SUFFICES ASSUME MarketInit PROVE MarketTypeOK
  OBVIOUS
<1>1. today = 0 /\ today \in 0..MaxDay
  BY MarketAssumption DEF MarketInit
<1>2. bars \in [Instruments -> [Days -> AllBars \cup {NoBar}]]
  BY DEF MarketInit
<1>3. \A i \in Instruments, d \in Days : bars[i][d] = NoBar /\ ~ (d <= today)
  BY <1>1, MarketAssumption DEF MarketInit, Days
<1> QED
  BY <1>1, <1>2, <1>3 DEF MarketTypeOK

LEMMA MarketGoesOn == MarketTypeOK /\ [NextDay]_market => MarketTypeOK'
<1> SUFFICES ASSUME MarketTypeOK, [NextDay]_market PROVE MarketTypeOK'
  OBVIOUS
<1>1. CASE UNCHANGED market
  BY <1>1 DEF market, MarketTypeOK
<1>2. CASE NextDay
  <2>1. today' \in 0..MaxDay /\ today' = today + 1 /\ today' \in Days /\ today \in Nat
    BY <1>2, MarketAssumption DEF NextDay, MarketTypeOK, Days
  <2>2. PICK b \in [Instruments -> AllBars] :
          /\ \A i \in Instruments : b[i] \in Prices[i]
          /\ bars' = [i \in Instruments |->
                        IF today' \in Closed[i] THEN bars[i]
                        ELSE [bars[i] EXCEPT ![today'] = b[i]]]
    BY <1>2 DEF NextDay
  <2>3. \A i \in Instruments :
          bars'[i] \in [Days -> AllBars \cup {NoBar}]
    BY <2>1, <2>2 DEF MarketTypeOK
  <2>4. bars' \in [Instruments -> [Days -> AllBars \cup {NoBar}]]
    BY <2>2, <2>3
  <2>5. ASSUME NEW i \in Instruments, NEW d \in Days
        PROVE  IF d <= today' /\ d \notin Closed[i]
               THEN bars'[i][d] \in Prices[i] ELSE bars'[i][d] = NoBar
    <3>1. CASE d = today'
      BY <2>1, <2>2, <3>1 DEF MarketTypeOK
    <3>2. CASE d # today'
      <4>1. bars'[i][d] = bars[i][d]
        BY <2>1, <2>2, <3>2 DEF MarketTypeOK
      <4>2. d <= today' <=> d <= today
        BY <2>1, <3>2, MarketAssumption DEF Days
      <4> QED
        BY <4>1, <4>2 DEF MarketTypeOK
    <3> QED
      BY <3>1, <3>2
  <2> QED
    BY <2>1, <2>4, <2>5 DEF MarketTypeOK
<1> QED
  BY <1>1, <1>2

\* The session of a day adds at most that day to what follows a signal.
LEMMA SessionAdded ==
  ASSUME MarketTypeOK, NextDay, NEW i \in Instruments, NEW d \in Nat
  PROVE  /\ today \in Nat /\ today' = today + 1
         /\ After(i, d) \subseteq After(i, d)'
         /\ After(i, d)' \subseteq After(i, d) \cup {today'}
         /\ \A x \in After(i, d) : x <= today /\ bars'[i][x] = bars[i][x]
<1>1. today \in Nat /\ today' = today + 1 /\ today' \in Days
  BY MarketAssumption DEF NextDay, MarketTypeOK, Days
<1>2. PICK b \in [Instruments -> AllBars] :
        bars' = [j \in Instruments |->
                   IF today' \in Closed[j] THEN bars[j]
                   ELSE [bars[j] EXCEPT ![today'] = b[j]]]
  BY DEF NextDay
<1>3. \A x \in Days : x # today' => bars'[i][x] = bars[i][x]
  BY <1>1, <1>2 DEF MarketTypeOK
<1>4. \A x \in After(i, d) : x \in Days /\ x <= today
  BY SessionsAreHeld
<1>5. \A x \in After(i, d) : x # today'
  BY <1>1, <1>4 DEF Days
<1>6. \A x \in After(i, d) : bars'[i][x] = bars[i][x]
  BY <1>3, <1>4, <1>5
<1>7. After(i, d)' = {x \in Days : x > d /\ bars'[i][x] # NoBar}
  BY DEF After
<1>8. After(i, d) \subseteq After(i, d)'
  BY <1>6, <1>7 DEF After
<1>9. After(i, d)' \subseteq After(i, d) \cup {today'}
  BY <1>3, <1>7 DEF After
<1> QED
  BY <1>1, <1>4, <1>6, <1>8, <1>9

\* After the session that uses a window up, no session belongs to it.
LEMMA NothingBeyond ==
  ASSUME NEW S, S \subseteq Days, NEW x \in S, NEW y \in S, x < y,
         Cardinality({z \in S : z <= x}) = Horizon
  PROVE  ~ (Cardinality({z \in S : z <= y}) <= Horizon)
<1> DEFINE X == {z \in S : z <= x}
           Y == {z \in S : z <= y}
<1>1. IsFiniteSet(X) /\ IsFiniteSet(Y) /\ Cardinality(X) \in Nat /\ Cardinality(Y) \in Nat
  BY DaysAreFinite
<1>2. X \in SUBSET Y /\ y \in Y /\ y \notin X
  <2>1. \A z \in S : z \in Nat
    BY MarketAssumption DEF Days
  <2>2. \A z \in S : z <= x => z <= y
    BY <2>1
  <2>3. ~ (y <= x) /\ y <= y
    BY <2>1
  <2> QED
    BY <2>2, <2>3
<1>3. Cardinality(X) <= Cardinality(Y) /\ (Cardinality(Y) = Cardinality(X) => Y = X)
  BY <1>1, <1>2, FS_Subset
<1>4. Cardinality(X) # Cardinality(Y)
  BY <1>2, <1>3
<1>5. Cardinality(X) = Horizon
  OBVIOUS
<1> HIDE DEF X, Y
<1>6. ~ (Cardinality(Y) <= Horizon)
  BY <1>1, <1>3, <1>4, <1>5, MarketAssumption
<1> QED
  BY <1>6 DEF Y

\* A window keeps its sessions and gains at most the new day.
LEMMA WindowGrows ==
  ASSUME MarketTypeOK, NextDay, NEW i \in Instruments, NEW d \in Nat
  PROVE  /\ \A x \in After(i, d) : UpTo(i, d, x)' = UpTo(i, d, x)
         /\ Window(i, d) \subseteq Window(i, d)'
         /\ Window(i, d)' \subseteq Window(i, d) \cup {today'}
         /\ \A x \in After(i, d) :
              Cardinality(UpTo(i, d, x)) = Horizon => Window(i, d)' = Window(i, d)
<1>1. /\ today \in Nat /\ today' = today + 1
      /\ After(i, d) \subseteq After(i, d)'
      /\ After(i, d)' \subseteq After(i, d) \cup {today'}
      /\ \A x \in After(i, d) : x <= today
  BY SessionAdded
<1>2. After(i, d) \subseteq Days /\ After(i, d)' \subseteq Days
  BY DEF After
<1>3. ASSUME NEW x \in After(i, d) PROVE UpTo(i, d, x)' = UpTo(i, d, x)
  <2>1. UpTo(i, d, x)' = {y \in After(i, d)' : y <= x}
    BY DEF UpTo
  <2>2. x \in Nat /\ ~ (today' <= x)
    BY <1>1, <1>2, <1>3, MarketAssumption DEF Days
  <2> QED
    BY <1>1, <2>1, <2>2 DEF UpTo
<1>4. Window(i, d)' = {x \in After(i, d)' : Cardinality(UpTo(i, d, x)') <= Horizon}
  BY DEF Window
<1>5. Window(i, d) \subseteq Window(i, d)'
  BY <1>1, <1>3, <1>4 DEF Window
<1>6. Window(i, d)' \subseteq Window(i, d) \cup {today'}
  BY <1>1, <1>3, <1>4 DEF Window
<1>7. ASSUME NEW x \in After(i, d), Cardinality(UpTo(i, d, x)) = Horizon
      PROVE  Window(i, d)' = Window(i, d)
  <2> SUFFICES ASSUME NEW y \in Window(i, d)', y \notin Window(i, d) PROVE FALSE
    BY <1>5
  <2>1. y \in After(i, d)' /\ Cardinality(UpTo(i, d, y)') <= Horizon
    BY <1>4
  <2>2. UpTo(i, d, y)' = {z \in After(i, d)' : z <= y}
    BY DEF UpTo
  <2>3. x \in After(i, d)' /\ x < y
    BY <1>1, <1>2, <1>6, MarketAssumption DEF Days
  <2>4. Cardinality({z \in After(i, d)' : z <= x}) = Horizon
    <3>1. UpTo(i, d, x)' = {z \in After(i, d)' : z <= x}
      BY DEF UpTo
    <3> QED
      BY <1>3, <1>7, <3>1
  <2> QED
    BY <1>2, <2>1, <2>2, <2>3, <2>4, NothingBeyond
<1> QED
  BY <1>3, <1>5, <1>6, <1>7

\* A new session changes no trade that is resolved or has used its window up, and
\* moves no entry and no exit back.
LEMMA TradesSettle ==
  ASSUME MarketTypeOK, NextDay, NEW i \in Instruments, NEW d \in Nat, After(i, d) # {}
  PROVE  /\ After(i, d)' # {}
         /\ EntryDay(i, d)' = EntryDay(i, d) /\ Entry(i, d)' = Entry(i, d)
         /\ ExitDay(i, d)' \in Nat /\ ExitDay(i, d) <= ExitDay(i, d)'
         /\ UsedUp(Simulated(i, d)) => Simulated(i, d)' = Simulated(i, d)
<1>1. /\ today \in Nat /\ today' = today + 1
      /\ After(i, d) \subseteq After(i, d)'
      /\ After(i, d)' \subseteq After(i, d) \cup {today'}
      /\ \A x \in After(i, d) : x <= today /\ bars'[i][x] = bars[i][x]
  BY SessionAdded
<1>2. /\ Window(i, d) \subseteq Window(i, d)'
      /\ Window(i, d)' \subseteq Window(i, d) \cup {today'}
      /\ \A x \in After(i, d) :
           Cardinality(UpTo(i, d, x)) = Horizon => Window(i, d)' = Window(i, d)
  BY WindowGrows
<1>3. /\ EntryDay(i, d) \in Window(i, d) /\ \A x \in After(i, d) : EntryDay(i, d) <= x
      /\ ExitDay(i, d) \in Window(i, d)
  BY WindowHolds
<1>4. /\ After(i, d) \subseteq Days /\ After(i, d)' \subseteq Days
      /\ Window(i, d) \subseteq After(i, d) /\ Window(i, d)' \subseteq After(i, d)'
      /\ Days \subseteq Nat
  BY MarketAssumption DEF After, Window, Days
<1>5. EntryDay(i, d)' = EntryDay(i, d)
  <2> DEFINE e == EntryDay(i, d)
             m == Least(After(i, d)')
  <2>1. m \in After(i, d)' /\ \A y \in After(i, d)' : m <= y
    BY <1>1, <1>4, LeastIsIn
  <2>2. e \in After(i, d) /\ e <= today /\ e \in Nat /\ m \in Nat
    BY <1>1, <1>3, <1>4, <2>1
  <2>3. e = m
    <3>1. \A y \in After(i, d) : e <= y
      BY <1>3
    <3> HIDE DEF e, m
    <3> QED
      BY <1>1, <2>1, <2>2, <3>1
  <2>4. EntryDay(i, d)' = m
    BY DEF EntryDay
  <2> QED
    BY <2>3, <2>4
<1>6. /\ Entry(i, d)' = Entry(i, d)
      /\ StopPrice(i, d)' = StopPrice(i, d) /\ TargetPrice(i, d)' = TargetPrice(i, d)
  <2>1. Entry(i, d)' = Entry(i, d)
    BY <1>1, <1>3, <1>4, <1>5 DEF Entry
  <2> QED
    BY <2>1 DEF StopPrice, TargetPrice
<1>7. \A x \in Window(i, d) : /\ HitsStop(i, d, x)' = HitsStop(i, d, x)
                              /\ HitsTarget(i, d, x)' = HitsTarget(i, d, x)
  BY <1>1, <1>4, <1>6 DEF HitsStop, HitsTarget
<1>8. /\ Touching(i, d) \subseteq Touching(i, d)'
      /\ Touching(i, d)' \subseteq Touching(i, d) \cup {today'}
      /\ Window(i, d)' = Window(i, d) => Touching(i, d)' = Touching(i, d)
      /\ Touching(i, d) \subseteq Window(i, d) /\ Touching(i, d)' \subseteq Window(i, d)'
  <2>1. Touching(i, d)' = {x \in Window(i, d)' : HitsStop(i, d, x)' \/ HitsTarget(i, d, x)'}
    BY DEF Touching
  <2> QED
    BY <1>2, <1>7, <2>1 DEF Touching
<1>9. Touching(i, d) # {} => ExitDay(i, d)' = ExitDay(i, d)
  <2> SUFFICES ASSUME Touching(i, d) # {} PROVE ExitDay(i, d)' = ExitDay(i, d)
    OBVIOUS
  <2> DEFINE l == Least(Touching(i, d))
             m == Least(Touching(i, d)')
  <2>1. l \in Touching(i, d) /\ \A y \in Touching(i, d) : l <= y
    BY <1>4, <1>8, LeastIsIn
  <2>2. m \in Touching(i, d)' /\ \A y \in Touching(i, d)' : m <= y
    BY <1>4, <1>8, LeastIsIn
  <2>3. l <= today /\ l \in Nat /\ m \in Nat
    BY <1>1, <1>4, <1>8, <2>1, <2>2
  <2>4. m <= l /\ l <= m
    <3> HIDE DEF l, m
    <3> QED
      BY <1>1, <1>8, <2>1, <2>2, <2>3
  <2>5. m = l
    BY <2>3, <2>4
  <2>6. ExitDay(i, d) = l /\ ExitDay(i, d)' = m
    BY <1>8 DEF ExitDay
  <2> QED
    BY <2>5, <2>6
<1>10. Touching(i, d) = {} => ExitDay(i, d)' \in Nat /\ ExitDay(i, d) <= ExitDay(i, d)'
  <2> SUFFICES ASSUME Touching(i, d) = {}
               PROVE  ExitDay(i, d)' \in Nat /\ ExitDay(i, d) <= ExitDay(i, d)'
    OBVIOUS
  <2>1. ExitDay(i, d) \in Nat /\ ExitDay(i, d) <= today
    BY <1>1, <1>3, <1>4
  <2>2. CASE Touching(i, d)' # {}
    <3>1. ExitDay(i, d)' = Least(Touching(i, d)')
      BY <2>2 DEF ExitDay
    <3>2. Least(Touching(i, d)') \in Touching(i, d)'
      BY <1>4, <1>8, <2>2, LeastIsIn
    <3>3. ExitDay(i, d)' \in Nat
      BY <1>4, <1>8, <3>1, <3>2
    <3> QED
      BY <1>1, <1>8, <2>1, <3>1, <3>2, <3>3
  <2>3. CASE Touching(i, d)' = {}
    <3>1. ExitDay(i, d)' = Greatest(Window(i, d)')
      BY <2>3 DEF ExitDay
    <3>2. /\ Greatest(Window(i, d)') \in Window(i, d)'
          /\ \A y \in Window(i, d)' : y <= Greatest(Window(i, d)')
      BY <1>2, <1>3, <1>4, GreatestIsIn
    <3> QED
      BY <1>2, <1>3, <1>4, <3>1, <3>2
  <2> QED
    BY <2>2, <2>3
<1>11. ASSUME UsedUp(Simulated(i, d)) PROVE Simulated(i, d)' = Simulated(i, d)
  <2>1. ExitDay(i, d)' = ExitDay(i, d) /\ (Touching(i, d)' = {} <=> Touching(i, d) = {})
    <3>1. CASE Touching(i, d) # {}
      BY <1>8, <1>9, <3>1
    <3>2. CASE Touching(i, d) = {}
      <4>1. Outcome(i, d) = "HORIZON"
        BY <3>2 DEF Outcome
      <4>2. Cardinality(UpTo(i, d, ExitDay(i, d))) = Horizon
        BY <1>11, <4>1 DEF UsedUp, Simulated
      <4>3. Window(i, d)' = Window(i, d)
        BY <1>2, <1>3, <1>4, <4>2
      <4> QED
        BY <1>8, <3>2, <4>3 DEF ExitDay
    <3> QED
      BY <3>1, <3>2
  <2>2. bars'[i][ExitDay(i, d)] = bars[i][ExitDay(i, d)]
    BY <1>1, <1>3, <1>4
  <2>3. Outcome(i, d)' = Outcome(i, d)
    BY <1>6, <2>1, <2>2 DEF Outcome, HitsStop, HitsTarget
  <2>4. ExitPrice(i, d)' = ExitPrice(i, d)
    BY <1>6, <2>1, <2>2, <2>3 DEF ExitPrice
  <2> QED
    BY <1>5, <1>6, <2>1, <2>3, <2>4 DEF Simulated
<1>12. ExitDay(i, d)' \in Nat /\ ExitDay(i, d) <= ExitDay(i, d)'
  <2>1. ExitDay(i, d) \in Nat
    BY <1>3, <1>4
  <2>2. CASE Touching(i, d) # {}
    <3>1. ExitDay(i, d) <= ExitDay(i, d)
      BY <2>1
    <3> QED
      BY <1>9, <2>1, <2>2, <3>1, Zenon
  <2> QED
    BY <1>10, <2>2
<1> QED
  BY <1>1, <1>5, <1>6, <1>11, <1>12

-----------------------------------------------------------------------------
(* The paper broker.                                                       *)

\* The market of every behaviour is well typed: a bar is there exactly for the
\* sessions held so far (store.py as_of).
THEOREM MarketTyped == MarketSpec => []MarketTypeOK
<1> QED
  BY MarketStarts, MarketGoesOn, PTL DEF MarketSpec

\* The fills of a trade: two, well typed, the purchase first.
LEMMA FillsAreTyped ==
  ASSUME NEW t \in SimType, NEW q \in Int
  PROVE  /\ Buy(t, q) \in FillType /\ Sell(t, q) \in FillType
         /\ Realized(t, q) \in Int
<1>1. 100 + Slippage \in Int /\ 100 - Slippage \in Int /\ Fees \in Int
  BY PaperAssumption
<1>2. t.entry \in Int /\ t.exit \in Int /\ t.instrument \in Instruments
      /\ t.entryDay \in Days /\ t.exitDay \in Days
  BY DEF SimType
<1> DEFINE b == (t.entry * (100 + Slippage)) \div 100
           s == (t.exit * (100 - Slippage)) \div 100
<1>3. b \in Int /\ s \in Int
  BY <1>1, <1>2, PercentIsInt
<1> DEFINE cb == (q * b * Fees) \div 100
           cs == (q * s * Fees) \div 100
<1>4. cb \in Int /\ cs \in Int
  <2> HIDE DEF b, s
  <2>1. q * b \in Int /\ q * s \in Int
    BY <1>3
  <2> QED
    BY <1>1, <2>1, PercentIsInt
<1>5. /\ Buy(t, q) = [instrument |-> t.instrument, side |-> "BUY", quantity |-> q,
                      price |-> b, cost |-> cb, day |-> t.entryDay]
      /\ Sell(t, q) = [instrument |-> t.instrument, side |-> "SELL", quantity |-> q,
                       price |-> s, cost |-> cs, day |-> t.exitDay]
  BY DEF Buy, Sell, Fill
<1> HIDE DEF b, s, cb, cs
<1>6. Buy(t, q) \in FillType /\ Sell(t, q) \in FillType
  BY <1>2, <1>3, <1>4, <1>5 DEF FillType
<1>7. Realized(t, q) = -(q * b + cb) + (q * s - cs)
  BY <1>5 DEF Realized
<1>8. q * b \in Int /\ q * s \in Int
  BY <1>3
<1>9. Realized(t, q) \in Int
  <2> DEFINE x == q * b
             y == q * s
  <2>1. x \in Int /\ y \in Int
    BY <1>8
  <2>2. Realized(t, q) = -(x + cb) + (y - cs)
    BY <1>7
  <2> HIDE DEF x, y
  <2> QED
    BY <1>4, <2>1, <2>2
<1> QED
  BY <1>6, <1>9

\* What an interrupted execute leaves of the two fills.
LEMMA PartsOfTrade ==
  ASSUME NEW t \in SimType, NEW q \in Int, NEW n \in 0..2
  PROVE  /\ SubSeq(Both(t, q), 1, n) \in Seq(FillType)
         /\ Both(t, q) \in Seq(FillType)
         /\ t.entryDay <= t.exitDay => SalesFollowPurchases(SubSeq(Both(t, q), 1, n))
         /\ t.entryDay <= t.exitDay => SalesFollowPurchases(Both(t, q))
<1> DEFINE p == Buy(t, q)
           s == Sell(t, q)
           u == SubSeq(Both(t, q), 1, n)
<1>1. p \in FillType /\ s \in FillType
  BY FillsAreTyped
<1>2. /\ p.side = "BUY" /\ s.side = "SELL" /\ p.instrument = s.instrument
      /\ p.quantity = s.quantity /\ p.day = t.entryDay /\ s.day = t.exitDay
  BY DEF Buy, Sell, Fill
<1>3. Both(t, q) = <<p, s>>
  BY DEF Both
<1> HIDE DEF p, s
<1>4. Both(t, q) \in Seq(FillType)
  BY <1>1, <1>3
<1>5. /\ u \in Seq(FillType) /\ Len(u) = n
      /\ \A k \in 1..n : u[k] = <<p, s>>[k]
  <2>1. CASE n = 0
    BY <1>3, <1>4, <2>1
  <2>2. CASE n = 1
    BY <1>1, <1>3, <1>4, <2>2
  <2>3. CASE n = 2
    BY <1>1, <1>3, <1>4, <2>3
  <2> QED
    BY <2>1, <2>2, <2>3
<1>6. ASSUME t.entryDay <= t.exitDay PROVE SalesFollowPurchases(<<p, s>>)
  BY <1>2, <1>6 DEF SalesFollowPurchases
<1> HIDE DEF u
<1>7. ASSUME t.entryDay <= t.exitDay PROVE SalesFollowPurchases(u)
  BY <1>2, <1>5, <1>7 DEF SalesFollowPurchases
<1> QED
  BY <1>3, <1>4, <1>5, <1>6, <1>7 DEF u

LEMMA SalesFollowOn ==
  ASSUME NEW s \in Seq(FillType), NEW u \in Seq(FillType),
         SalesFollowPurchases(s), SalesFollowPurchases(u)
  PROVE  SalesFollowPurchases(s \o u)
<1> DEFINE w == s \o u
<1>1. /\ w \in Seq(FillType) /\ Len(w) = Len(s) + Len(u)
      /\ \A k \in 1..Len(s) : w[k] = s[k]
      /\ \A k \in 1..Len(u) : w[Len(s) + k] = u[k]
  BY ConcatProperties
<1> HIDE DEF w
<1> SUFFICES ASSUME NEW k \in 1..Len(w), w[k].side = "SELL"
             PROVE  /\ k > 1 /\ w[k - 1].side = "BUY"
                    /\ w[k - 1].instrument = w[k].instrument
                    /\ w[k - 1].quantity = w[k].quantity
                    /\ w[k - 1].day <= w[k].day
  BY DEF SalesFollowPurchases, w
<1>2. CASE k <= Len(s)
  <2>1. k \in 1..Len(s) /\ (k > 1 => k - 1 \in 1..Len(s))
    BY <1>2
  <2> QED
    BY <1>1, <2>1 DEF SalesFollowPurchases
<1>3. CASE k > Len(s)
  <2> DEFINE j == k - Len(s)
  <2>1. j \in 1..Len(u) /\ w[k] = u[j]
    <3>1. j \in 1..Len(u) /\ k = Len(s) + j
      BY <1>1, <1>3
    <3> QED
      BY <1>1, <3>1
  <2>2. j > 1 /\ u[j - 1].side = "BUY" /\ u[j - 1].instrument = u[j].instrument
        /\ u[j - 1].quantity = u[j].quantity /\ u[j - 1].day <= u[j].day
    BY <2>1 DEF SalesFollowPurchases
  <2>3. w[k - 1] = u[j - 1] /\ k > 1
    <3>1. j - 1 \in 1..Len(u) /\ k - 1 = Len(s) + (j - 1) /\ k > 1
      BY <2>1, <2>2
    <3> QED
      BY <1>1, <3>1
  <2> QED
    BY <2>1, <2>2, <2>3
<1> QED
  BY <1>2, <1>3

LEMMA TypesSame == TradeType = [quantity : Nat \ {0}, sim : SimType]
  BY DEF TradeType, SimType

\* A new broker is well typed on a well-typed file.
LEMMA NewBrokerTyped ==
  ASSUME NewBroker, MarketTypeOK', ledger' \in Seq(FillType)
  PROVE  TypeOK'
<1>1. /\ cash' \in Int /\ pnl' \in Int /\ raised' \in BOOLEAN
      /\ fills' = <<>> /\ trades' = <<>>
  <2>1. cash' = StartingCash /\ pnl' = 0 /\ fills' = <<>> /\ trades' = <<>>
    BY DEF NewBroker
  <2>2. cash' \in Int /\ pnl' \in Int
    BY <2>1, PaperAssumption
  <2>3. raised' \in BOOLEAN
    BY Zenon DEF NewBroker
  <2> QED
    BY <2>1, <2>2, <2>3
<1>2. <<>> \in Seq(FillType) /\ <<>> \in Seq(TradeType)
  OBVIOUS
<1> QED
  BY <1>1, <1>2, Zenon DEF TypeOK

\* What execute records is well typed.
LEMMA RecordsTyped ==
  ASSUME TypeOK, NEW t \in SimType, NEW q \in Nat \ {0}, NEW n \in 0..2,
         Records(t, q, n), UNCHANGED market
  PROVE  TypeOK'
<1>1. MarketTypeOK'
  BY DEF TypeOK, market, MarketTypeOK
<1>2. /\ q \in Int
      /\ SubSeq(Both(t, q), 1, n) \in Seq(FillType) /\ Both(t, q) \in Seq(FillType)
      /\ Realized(t, q) \in Int
  <2>1. q \in Int
    OBVIOUS
  <2> QED
    BY <2>1, PartsOfTrade, FillsAreTyped
<1>3. ledger' \in Seq(FillType)
  BY <1>2 DEF TypeOK, Records
<1>4. CASE n = 2 /\ fills' = fills \o Both(t, q)
           /\ cash' = cash + Realized(t, q) /\ pnl' = pnl + Realized(t, q)
           /\ trades' = Append(trades, [quantity |-> q, sim |-> t]) /\ UNCHANGED raised
  <2>1. [quantity |-> q, sim |-> t] \in TradeType
    BY TypesSame
  <2>2. trades' \in Seq(TradeType) /\ fills' \in Seq(FillType)
    BY <1>2, <1>4, <2>1 DEF TypeOK
  <2>3. cash' \in Int /\ pnl' \in Int
    BY <1>2, <1>4 DEF TypeOK
  <2> QED
    BY <1>1, <1>3, <1>4, <2>2, <2>3 DEF TypeOK
<1>5. CASE n < 2 /\ fills' = fills \o SubSeq(Both(t, q), 1, n + 1) /\ raised' = TRUE
           /\ UNCHANGED <<cash, pnl, trades>>
  <2>1. n + 1 \in 0..2
    BY <1>5
  <2>2. SubSeq(Both(t, q), 1, n + 1) \in Seq(FillType)
    BY <1>2, <2>1, PartsOfTrade
  <2> QED
    BY <1>1, <1>3, <1>5, <2>2 DEF TypeOK
<1>6. CASE NewBroker
  BY <1>1, <1>3, <1>6, NewBrokerTyped
<1> QED
  BY <1>4, <1>5, <1>6 DEF Records

\* What every execute does, stated for the proofs below.
LEMMA ExecuteRecords ==
  ASSUME TypeOK, NEW i \in Instruments, NEW d \in SignalDays, NEW q \in Quantities,
         Execute(i, d, q)
  PROVE  /\ d \in Days /\ d \in Nat /\ q \in Nat \ {0} /\ After(i, d) # {}
         /\ Simulated(i, d) \in SimType
         /\ UNCHANGED market
         /\ \E n \in 0..2 : Records(Simulated(i, d), q, n)
<1>1. d \in Days /\ d \in Nat /\ q \in Nat \ {0}
  BY PaperAssumption, MarketAssumption DEF Execute, Days
<1>2. After(i, d) # {} /\ MarketTypeOK
  BY DEF Execute, TypeOK
<1>3. Simulated(i, d) \in SimType
  BY <1>1, <1>2, SimulatedIsTyped
<1> QED
  BY <1>1, <1>2, <1>3 DEF Execute

\* The account of the paper broker is well typed, with integer cash and profit, and
\* the trades it shows have shares (paper_trading.py execute).
THEOREM PaperTyped == Spec => []TypeOK
<1>1. Init => TypeOK
  <2> SUFFICES ASSUME Init PROVE TypeOK
    OBVIOUS
  <2>1. MarketTypeOK
    BY MarketStarts DEF Init
  <2>2. <<>> \in Seq(FillType) /\ <<>> \in Seq(TradeType)
    OBVIOUS
  <2>3. cash \in Int /\ pnl \in Int /\ raised \in BOOLEAN
    <3>1. cash = StartingCash /\ pnl = 0
      BY DEF Init
    <3>2. cash \in Int /\ pnl \in Int
      BY <3>1, PaperAssumption
    <3>3. raised \in BOOLEAN
      BY Zenon DEF Init
    <3> QED
      BY <3>2, <3>3
  <2>4. fills = <<>> /\ trades = <<>> /\ ledger = <<>>
    BY DEF Init
  <2> QED
    BY <2>1, <2>2, <2>3, <2>4, Zenon DEF TypeOK
<1>2. TypeOK /\ [Next]_paperVars => TypeOK'
  <2> SUFFICES ASSUME TypeOK, [Next]_paperVars PROVE TypeOK'
    OBVIOUS
  <2>1. CASE SessionEnds
    <3>1. MarketTypeOK'
      BY <2>1, MarketGoesOn DEF SessionEnds, TypeOK
    <3> QED
      BY <2>1, <3>1 DEF SessionEnds, broker, TypeOK
  <2>2. ASSUME NEW i \in Instruments, NEW d \in SignalDays, NEW q \in Quantities,
               Execute(i, d, q)
        PROVE  TypeOK'
    <3>1. PICK t \in SimType : t = Simulated(i, d) /\ \E n \in 0..2 : Records(t, q, n)
      BY <2>2, ExecuteRecords
    <3> QED
      BY <2>2, <3>1, ExecuteRecords, RecordsTyped
  <2>3. CASE Restart
    <3>1. MarketTypeOK' /\ ledger' \in Seq(FillType)
      BY <2>3 DEF Restart, TypeOK, market, MarketTypeOK
    <3> QED
      BY <2>3, <3>1, NewBrokerTyped DEF Restart
  <2>4. CASE UNCHANGED paperVars
    BY <2>4 DEF paperVars, broker, market, TypeOK, MarketTypeOK
  <2> QED
    BY <2>1, <2>2, <2>3, <2>4 DEF Next
<1> QED
  BY <1>1, <1>2, PTL DEF Spec

\* In memory and in the file a sale follows the purchase of the same shares, on the
\* same day or later, whatever appends raise and wherever the process dies.
THEOREM NeverShort == Spec => []NothingSoldShort
<1>1. Init => NothingSoldShort
  <2> SUFFICES ASSUME Init PROVE NothingSoldShort
    OBVIOUS
  <2>1. fills = <<>> /\ ledger = <<>> /\ Len(<<>>) = 0
    BY DEF Init
  <2> QED
    BY <2>1 DEF NothingSoldShort, SalesFollowPurchases
<1>2. TypeOK /\ NothingSoldShort /\ [Next]_paperVars => NothingSoldShort'
  <2> SUFFICES ASSUME TypeOK, NothingSoldShort, [Next]_paperVars
               PROVE SalesFollowPurchases(fills') /\ SalesFollowPurchases(ledger')
    BY DEF NothingSoldShort
  <2>1. /\ SalesFollowPurchases(fills) /\ SalesFollowPurchases(ledger)
        /\ SalesFollowPurchases(<<>>)
        /\ fills \in Seq(FillType) /\ ledger \in Seq(FillType)
    BY DEF NothingSoldShort, SalesFollowPurchases, TypeOK
  <2>2. CASE SessionEnds
    BY <2>1, <2>2 DEF SessionEnds, broker
  <2>3. ASSUME NEW i \in Instruments, NEW d \in SignalDays, NEW q \in Quantities,
               Execute(i, d, q)
        PROVE  SalesFollowPurchases(fills') /\ SalesFollowPurchases(ledger')
    <3>1. PICK t \in SimType : t = Simulated(i, d) /\ \E n \in 0..2 : Records(t, q, n)
      BY <2>3, ExecuteRecords
    <3>2. PICK n \in 0..2 : Records(t, q, n)
      BY <3>1
    <3>3. q \in Int
      <4>1. q \in Nat \ {0}
        BY <2>3, ExecuteRecords
      <4> QED
        BY <4>1
    <3>4. t.entryDay <= t.exitDay
      <4>1. d \in Nat /\ After(i, d) # {} /\ MarketTypeOK
        BY <2>3, ExecuteRecords DEF TypeOK
      <4>2. EntryDay(i, d) <= ExitDay(i, d)
        BY <4>1, WindowHolds DEF Window
      <4> QED
        BY <3>1, <4>2 DEF Simulated
    <3>5. SalesFollowPurchases(ledger')
      BY <2>1, <3>2, <3>3, <3>4, PartsOfTrade, SalesFollowOn DEF Records
    <3>6. CASE fills' = fills \o Both(t, q)
      BY <2>1, <3>2, <3>3, <3>4, <3>5, <3>6, PartsOfTrade, SalesFollowOn
    <3>7. CASE n < 2 /\ fills' = fills \o SubSeq(Both(t, q), 1, n + 1)
      <4>1. n + 1 \in 0..2
        BY <3>7
      <4> QED
        BY <2>1, <3>3, <3>4, <3>5, <3>7, <4>1, PartsOfTrade, SalesFollowOn
    <3>8. CASE NewBroker
      BY <2>1, <3>5, <3>8 DEF NewBroker
    <3> QED
      BY <3>2, <3>5, <3>6, <3>7, <3>8 DEF Records
  <2>4. CASE Restart
    BY <2>1, <2>4 DEF Restart, NewBroker
  <2>5. CASE UNCHANGED paperVars
    BY <2>1, <2>5 DEF paperVars, broker
  <2> QED
    BY <2>2, <2>3, <2>4, <2>5 DEF Next
<1> QED
  BY <1>1, <1>2, PaperTyped, PTL DEF Spec

-----------------------------------------------------------------------------
(* The account.  While nothing has raised, the fills in memory are the end  *)
(* of the file, two for each settled trade, and they explain the cash; the  *)
(* equity curve explains it also after an append that raised, whose trade   *)
(* is not settled.                                                          *)

\* after is the loop of CashAfter.
IsCashAfter(after, changes) ==
  /\ after \in [0..Len(changes) -> Int]
  /\ after[0] = StartingCash
  /\ \A n \in 1..Len(changes) : after[n] = after[n - 1] + changes[n]

LEMMA CashLoop == ASSUME NEW s \in Seq(Int) PROVE IsCashAfter(CashAfter(s), s)
<1> DEFINE Body(f) == [n \in 0..Len(s) |-> IF n = 0 THEN StartingCash ELSE f[n - 1] + s[n]]
           h == [p \in Int \X (1..Len(s)) |-> p[1] + s[p[2]]]
<1>1. Len(s) \in Nat /\ StartingCash \in Int /\ \A n \in 1..Len(s) : s[n] \in Int
  BY PaperAssumption
<1>2. h \in [Int \X (1..Len(s)) -> Int]
  BY <1>1
<1>3. PICK f \in [0..Len(s) -> Int] : IsLoop(f, Len(s), StartingCash, h)
  <2> HIDE DEF h
  <2> QED BY <1>1, <1>2, LoopExists
<1>4. ASSUME NEW n \in 1..Len(s) PROVE f[n] = f[n - 1] + s[n]
  <2>1. n \in 1..Len(s) /\ n - 1 \in 0..Len(s)
    BY <1>1
  <2>2. f[n] = h[<<f[n - 1], n>>] /\ f[n - 1] \in Int
    BY <1>3, <2>1 DEF IsLoop
  <2> QED BY <2>1, <2>2
<1>5. f[0] = StartingCash
  BY <1>3 DEF IsLoop
<1>6. f = Body(f)
  <2>1. ASSUME NEW n \in 0..Len(s) PROVE f[n] = Body(f)[n]
    <3>1. n = 0 \/ n \in 1..Len(s)
      BY <1>1
    <3> QED BY <1>4, <1>5, <3>1
  <2> QED BY <1>3, <2>1
<1>7. CashAfter(s) = Body(CashAfter(s))
  <2>1. CashAfter(s) = CHOOSE g : g = Body(g)
    BY DEF CashAfter
  <2> HIDE DEF Body
  <2> QED BY <1>6, <2>1
<1>8. PICK after : after = CashAfter(s)
  OBVIOUS
<1>9. /\ DOMAIN after = 0..Len(s) /\ after = [n \in 0..Len(s) |-> after[n]]
      /\ after[0] = StartingCash
      /\ \A n \in 1..Len(s) : after[n] = after[n - 1] + s[n]
  <2>1. after = Body(after)
    BY <1>7, <1>8
  <2>2. \A n \in 1..Len(s) : n \in 0..Len(s) /\ n # 0
    BY <1>1
  <2>3. 0 \in 0..Len(s)
    BY <1>1
  <2> QED BY <2>1, <2>2, <2>3
<1>10. \A n \in 0..Len(s) : after[n] = f[n]
  <2>1. after[0] = f[0] /\ \A n \in 1..Len(s) : after[n - 1] = f[n - 1] => after[n] = f[n]
    BY <1>4, <1>5, <1>9
  <2> QED BY <1>1, <2>1, LoopsAgree, ZenonT(60)
<1>11. after \in [0..Len(s) -> Int]
  BY <1>3, <1>9, <1>10
<1> QED BY <1>8, <1>9, <1>11 DEF IsCashAfter

LEMMA CashStarts == ASSUME NEW s \in Seq(Int), Len(s) = 0 PROVE CashAfter(s)[Len(s)] = StartingCash
BY CashLoop DEF IsCashAfter

LEMMA CashGoesOn ==
  ASSUME NEW s \in Seq(Int), NEW t \in Seq(Int), Len(t) = Len(s) + 1,
         \A n \in 1..Len(s) : t[n] = s[n]
  PROVE  CashAfter(t)[Len(t)] = CashAfter(s)[Len(s)] + t[Len(t)]
<1>1. PICK f : f = CashAfter(s) /\ IsCashAfter(f, s)
  BY CashLoop
<1>2. PICK g : g = CashAfter(t) /\ IsCashAfter(g, t)
  BY CashLoop
<1>3. \A n \in 1..Len(s) : f[n - 1] = g[n - 1] => f[n] = g[n]
  <2> SUFFICES ASSUME NEW n \in 1..Len(s), f[n - 1] = g[n - 1] PROVE f[n] = g[n]
    OBVIOUS
  <2>1. n \in 1..Len(t) /\ t[n] = s[n]
    OBVIOUS
  <2>2. f[n] = f[n - 1] + s[n]
    BY <1>1 DEF IsCashAfter
  <2>3. g[n] = g[n - 1] + t[n]
    BY <1>2, <2>1 DEF IsCashAfter
  <2> QED BY <2>1, <2>2, <2>3
<1>4. Len(s) \in Nat
  OBVIOUS
<1>5. f[0] = g[0]
  BY <1>1, <1>2 DEF IsCashAfter
<1>6. \A n \in 0..Len(s) : f[n] = g[n]
  BY ONLY <1>3, <1>4, <1>5, LoopsAgree, ZenonT(60)
<1>7. g[Len(t)] = g[Len(t) - 1] + t[Len(t)]
  <2>1. Len(t) \in 1..Len(t)
    BY <1>4
  <2> QED BY <1>2, <2>1 DEF IsCashAfter
<1>8. Len(t) - 1 = Len(s) /\ Len(s) \in 0..Len(s)
  BY <1>4
<1> QED BY <1>1, <1>2, <1>6, <1>7, <1>8

LEMMA EffectsAreInts ==
  ASSUME NEW s \in Seq(FillType)
  PROVE  [k \in DOMAIN s |-> Effect(s[k])] \in Seq(Int)
<1>1. ASSUME NEW k \in 1..Len(s) PROVE Effect(s[k]) \in Int
  <2>1. PICK f \in FillType : f = s[k]
    OBVIOUS
  <2>2. f.quantity \in Int /\ f.price \in Int /\ f.cost \in Int
    BY <2>1 DEF FillType
  <2> DEFINE x == f.quantity * f.price
  <2>3. x \in Int
    BY <2>2
  <2>4. Effect(f) = IF f.side = "BUY" THEN -(x + f.cost) ELSE x - f.cost
    BY DEF Effect
  <2> HIDE DEF x
  <2>5. Effect(f) \in Int
    BY <2>2, <2>3, <2>4
  <2> QED BY <2>1, <2>5
<1>2. DOMAIN s = 1..Len(s) /\ Len(s) \in Nat
  OBVIOUS
<1> QED BY <1>1, <1>2

LEMMA CashOfNothing == ReconstructCash(<<>>) = StartingCash
<1> DEFINE c == [k \in DOMAIN <<>> |-> Effect(<<>>[k])]
<1>1. <<>> \in Seq(FillType) /\ Len(<<>>) = 0
  OBVIOUS
<1>2. c \in Seq(Int) /\ Len(c) = 0
  <2>1. c \in Seq(Int)
    BY <1>1, EffectsAreInts
  <2>2. DOMAIN c = {}
    OBVIOUS
  <2> QED BY <2>1, <2>2
<1>3. CashAfter(c)[0] = StartingCash
  <2> HIDE DEF c
  <2> QED BY <1>2, CashStarts
<1> QED BY <1>1, <1>3 DEF ReconstructCash

\* reconstruct_cash takes the fills one by one.
LEMMA CashOfOneMore ==
  ASSUME NEW s \in Seq(FillType), NEW f \in FillType
  PROVE  ReconstructCash(Append(s, f)) = ReconstructCash(s) + Effect(f)
<1> DEFINE u == Append(s, f)
           c == [k \in DOMAIN s |-> Effect(s[k])]
           d == [k \in DOMAIN u |-> Effect(u[k])]
<1>1. u \in Seq(FillType) /\ Len(u) = Len(s) + 1 /\ Len(s) \in Nat
  OBVIOUS
<1>2. c \in Seq(Int) /\ d \in Seq(Int)
  <2> HIDE DEF u
  <2> QED BY <1>1, EffectsAreInts
<1>3. Len(c) = Len(s) /\ Len(d) = Len(u)
  <2>1. DOMAIN c = 1..Len(s) /\ DOMAIN d = 1..Len(u)
    BY <1>1
  <2> HIDE DEF c, d, u
  <2> QED BY <1>1, <1>2, <2>1
<1>4. \A k \in 1..Len(s) : d[k] = c[k]
  OBVIOUS
<1>5. d[Len(u)] = Effect(f)
  <2>1. Len(u) \in DOMAIN u /\ u[Len(u)] = f
    BY <1>1
  <2> QED BY <2>1
<1>6. CashAfter(d)[Len(d)] = CashAfter(c)[Len(c)] + d[Len(d)]
  <2> HIDE DEF c, d, u
  <2> QED BY <1>1, <1>2, <1>3, <1>4, CashGoesOn
<1> QED BY <1>3, <1>5, <1>6 DEF ReconstructCash

LEMMA ReconstructedIsInt ==
  ASSUME NEW s \in Seq(FillType) PROVE ReconstructCash(s) \in Int
<1> DEFINE c == [k \in DOMAIN s |-> Effect(s[k])]
<1>1. c \in Seq(Int) /\ DOMAIN c = 1..Len(s)
  BY EffectsAreInts
<1> HIDE DEF c
<1>2. Len(s) = Len(c) /\ Len(s) \in 0..Len(c)
  BY <1>1
<1>3. CashAfter(c)[Len(s)] \in Int
  BY <1>1, <1>2, CashLoop DEF IsCashAfter
<1> QED BY <1>3 DEF ReconstructCash, c

\* The two fills of a trade move the cash by what the trade realizes.
LEMMA CashOfTrade ==
  ASSUME NEW s \in Seq(FillType), NEW t \in SimType, NEW q \in Int
  PROVE  ReconstructCash(s \o Both(t, q)) = ReconstructCash(s) + Realized(t, q)
<1>1. PICK b \in FillType, x \in FillType : b = Buy(t, q) /\ x = Sell(t, q)
  BY FillsAreTyped
<1>2. s \o Both(t, q) = Append(Append(s, b), x) /\ Append(s, b) \in Seq(FillType)
  <2>1. Both(t, q) = <<b, x>>
    BY <1>1 DEF Both
  <2> QED BY <2>1
<1>3. ReconstructCash(s \o Both(t, q)) = ReconstructCash(s) + Effect(b) + Effect(x)
  BY <1>2, CashOfOneMore
<1>4. /\ b.side = "BUY" /\ x.side # "BUY" /\ b.quantity = q /\ x.quantity = q
      /\ b.price \in Int /\ b.cost \in Int /\ x.price \in Int /\ x.cost \in Int
  <2>1. b.side = "BUY" /\ x.side = "SELL" /\ b.quantity = q /\ x.quantity = q
    BY <1>1 DEF Buy, Sell, Fill
  <2> QED BY <2>1 DEF FillType
<1> DEFINE v == q * b.price
           w == q * x.price
<1>5. v \in Int /\ w \in Int /\ ReconstructCash(s) \in Int
  BY <1>4, ReconstructedIsInt
<1>6. Effect(b) = -(v + b.cost) /\ Effect(x) = w - x.cost
  BY <1>4 DEF Effect
<1>7. Realized(t, q) = -(v + b.cost) + (w - x.cost)
  BY <1>1 DEF Realized
<1> HIDE DEF v, w
<1> QED BY <1>3, <1>4, <1>5, <1>6, <1>7

\* The equity curve of some settled trades (terminal.py _equity_curve).
Settlements(ts) == [k \in DOMAIN ts |-> Realized(ts[k].sim, ts[k].quantity)]

LEMMA CurveGoesOn ==
  ASSUME NEW ts \in Seq(TradeType), NEW t \in SimType, NEW q \in Nat \ {0}, NEW us,
         us = Append(ts, [quantity |-> q, sim |-> t])
  PROVE  CashAfter(Settlements(us))[Len(us)] =
           CashAfter(Settlements(ts))[Len(ts)] + Realized(t, q)
<1> DEFINE e == [quantity |-> q, sim |-> t]
<1>1. e \in TradeType /\ e.quantity = q /\ e.sim = t
  BY TypesSame
<1> HIDE DEF e
<1>2. /\ us \in Seq(TradeType) /\ Len(us) = Len(ts) + 1 /\ Len(ts) \in Nat
      /\ us[Len(us)] = e /\ \A k \in 1..Len(ts) : us[k] = ts[k]
  <2>1. us = Append(ts, e)
    BY DEF e
  <2> QED BY <1>1, <2>1
<1>3. ASSUME NEW vs \in Seq(TradeType)
      PROVE  Settlements(vs) \in Seq(Int) /\ Len(Settlements(vs)) = Len(vs)
  <2>1. ASSUME NEW k \in 1..Len(vs) PROVE Realized(vs[k].sim, vs[k].quantity) \in Int
    <3>1. vs[k] \in TradeType
      OBVIOUS
    <3>2. vs[k].sim \in SimType /\ vs[k].quantity \in Int
      BY <3>1, TypesSame
    <3> QED BY <3>2, FillsAreTyped
  <2>2. DOMAIN vs = 1..Len(vs) /\ Len(vs) \in Nat
    OBVIOUS
  <2> QED BY <2>1, <2>2 DEF Settlements
<1>4. \A k \in 1..Len(ts) : Settlements(us)[k] = Settlements(ts)[k]
  <2>1. DOMAIN us = 1..Len(us) /\ DOMAIN ts = 1..Len(ts)
    BY <1>2
  <2>2. 1..Len(ts) \subseteq 1..Len(us)
    BY <1>2
  <2> QED BY <1>2, <2>1, <2>2 DEF Settlements
<1>5. Settlements(us)[Len(us)] = Realized(t, q)
  <2>1. Len(us) \in DOMAIN us
    BY <1>2
  <2> QED BY <1>1, <1>2, <2>1 DEF Settlements
<1>6. PICK c, d : c = Settlements(ts) /\ d = Settlements(us)
  OBVIOUS
<1>7. /\ c \in Seq(Int) /\ Len(c) = Len(ts) /\ d \in Seq(Int) /\ Len(d) = Len(us)
      /\ Len(d) = Len(c) + 1 /\ \A k \in 1..Len(c) : d[k] = c[k]
  BY <1>2, <1>3, <1>4, <1>6
<1>8. CashAfter(d)[Len(d)] = CashAfter(c)[Len(c)] + d[Len(d)]
  BY ONLY <1>7, CashGoesOn
<1> QED BY <1>5, <1>6, <1>7, <1>8

\* What is added to the fills in memory and to the file leaves the one the end of the other.
EndOf(s, t) == Len(s) <= Len(t) /\ s = SubSeq(t, Len(t) - Len(s) + 1, Len(t))

LEMMA EndGrows ==
  ASSUME NEW T, NEW s \in Seq(T), NEW t \in Seq(T), NEW u \in Seq(T), EndOf(s, t)
  PROVE  EndOf(s \o u, t \o u)
<1> DEFINE d == Len(t) - Len(s)
           v == s \o u
           w == t \o u
<1>1. /\ Len(s) \in Nat /\ Len(t) \in Nat /\ Len(u) \in Nat /\ Len(s) <= Len(t)
      /\ d \in Nat
  BY DEF EndOf
<1>2. \A k \in 1..Len(s) : s[k] = t[k + d]
  BY <1>1 DEF EndOf
<1>3. /\ v \in Seq(T) /\ Len(v) = Len(s) + Len(u)
      /\ \A k \in 1..Len(s) : v[k] = s[k]
      /\ \A k \in 1..Len(u) : v[Len(s) + k] = u[k]
  BY ConcatProperties
<1>4. /\ w \in Seq(T) /\ Len(w) = Len(t) + Len(u)
      /\ \A k \in 1..Len(t) : w[k] = t[k]
      /\ \A k \in 1..Len(u) : w[Len(t) + k] = u[k]
  BY ConcatProperties
<1> HIDE DEF v, w
<1>5. \A k \in 1..Len(v) : v[k] = w[k + d]
  <2> SUFFICES ASSUME NEW k \in 1..Len(v) PROVE v[k] = w[k + d]
    OBVIOUS
  <2>1. CASE k <= Len(s)
    <3>1. k \in 1..Len(s) /\ k + d \in 1..Len(t)
      BY <1>1, <2>1
    <3> QED BY <1>2, <1>3, <1>4, <3>1
  <2>2. CASE k > Len(s)
    <3>1. PICK j \in 1..Len(u) : k = Len(s) + j
      <4>1. k - Len(s) \in 1..Len(u) /\ k = Len(s) + (k - Len(s))
        BY <1>1, <1>3, <2>2
      <4> QED BY <4>1
    <3>2. k + d = Len(t) + j
      BY <1>1, <3>1
    <3> QED BY <1>3, <1>4, <3>1, <3>2
  <2> QED BY <1>1, <1>3, <2>1, <2>2
<1>6. Len(v) <= Len(w) /\ Len(w) - Len(v) = d /\ Len(v) \in Nat /\ Len(w) \in Nat
  BY <1>1, <1>3, <1>4
<1>7. v = SubSeq(w, d + 1, Len(w))
  <2> DEFINE z == SubSeq(w, d + 1, Len(w))
  <2>1. Len(z) = Len(v) /\ \A k \in 1..Len(v) : z[k] = w[k + d]
    BY <1>1, <1>4, <1>6
  <2>2. z \in Seq(T)
    BY <1>1, <1>4, <1>6
  <2> HIDE DEF z
  <2>3. v = z
    BY <1>3, <1>5, <2>1, <2>2
  <2> QED BY <2>3 DEF z
<1> QED BY <1>6, <1>7 DEF EndOf, v, w

AccountInv ==
  /\ CashAfter(Settlements(trades))[Len(trades)] = cash
  /\ pnl = cash - StartingCash
  /\ ~raised =>
       /\ EndOf(fills, ledger)
       /\ Len(fills) = 2 * Len(trades)
       /\ cash = ReconstructCash(fills)

LEMMA NewBrokerReconciles ==
  ASSUME NewBroker, ledger' \in Seq(FillType)
  PROVE  AccountInv'
<1>1. /\ cash' = StartingCash /\ pnl' = 0 /\ fills' = <<>> /\ trades' = <<>>
      /\ StartingCash \in Int /\ Len(<<>>) = 0 /\ Len(ledger') \in Nat
  BY PaperAssumption DEF NewBroker
<1>2. CashAfter(Settlements(trades'))[Len(trades')] = StartingCash
  <2>1. Settlements(<<>>) \in Seq(Int) /\ Len(Settlements(<<>>)) = 0
    BY DEF Settlements
  <2> QED BY <1>1, <2>1, CashStarts
<1>3. SubSeq(ledger', Len(ledger') + 1, Len(ledger')) = <<>>
  BY <1>1
<1>4. EndOf(fills', ledger')
  BY <1>1, <1>3 DEF EndOf
<1>5. Len(fills') = 2 * Len(trades') /\ cash' = ReconstructCash(fills')
  BY <1>1, CashOfNothing
<1>6. pnl' = cash' - StartingCash
  BY <1>1
<1>7. CashAfter(Settlements(trades'))[Len(trades')] = cash'
  BY <1>1, <1>2
<1> QED BY <1>4, <1>5, <1>6, <1>7 DEF AccountInv

LEMMA RecordsReconcile ==
  ASSUME TypeOK, AccountInv, NEW t \in SimType, NEW q \in Nat \ {0}, NEW n \in 0..2,
         Records(t, q, n)
  PROVE  AccountInv'
<1>1. /\ q \in Int /\ Both(t, q) \in Seq(FillType) /\ Realized(t, q) \in Int
      /\ SubSeq(Both(t, q), 1, n) \in Seq(FillType) /\ Len(Both(t, q)) = 2
  <2>1. q \in Int
    OBVIOUS
  <2>2. Len(Both(t, q)) = 2
    BY DEF Both
  <2> QED BY <2>1, <2>2, PartsOfTrade, FillsAreTyped
<1>2. /\ cash \in Int /\ pnl \in Int /\ fills \in Seq(FillType) /\ ledger \in Seq(FillType)
      /\ trades \in Seq(TradeType) /\ StartingCash \in Int
  BY PaperAssumption DEF TypeOK
<1>3. CASE n = 2 /\ fills' = fills \o Both(t, q)
           /\ cash' = cash + Realized(t, q) /\ pnl' = pnl + Realized(t, q)
           /\ trades' = Append(trades, [quantity |-> q, sim |-> t]) /\ UNCHANGED raised
  <2>1. CashAfter(Settlements(trades'))[Len(trades')] = cash'
    BY <1>2, <1>3, CurveGoesOn DEF AccountInv
  <2>2. pnl' = cash' - StartingCash
    BY <1>1, <1>2, <1>3 DEF AccountInv
  <2>3. ASSUME ~raised' PROVE /\ EndOf(fills', ledger') /\ Len(fills') = 2 * Len(trades')
                              /\ cash' = ReconstructCash(fills')
    <3>1. /\ EndOf(fills, ledger) /\ Len(fills) = 2 * Len(trades)
          /\ cash = ReconstructCash(fills)
      BY <1>3, <2>3, Zenon DEF AccountInv
    <3>2. ledger' = ledger \o Both(t, q)
      <4>1. SubSeq(Both(t, q), 1, 2) = Both(t, q)
        BY <1>1
      <4> QED BY <1>3, <4>1 DEF Records
    <3>3. EndOf(fills', ledger')
      BY <1>1, <1>2, <1>3, <3>1, <3>2, EndGrows
    <3>4. Len(fills') = Len(fills) + 2 /\ Len(trades') = Len(trades) + 1 /\ Len(trades) \in Nat
      <4>1. Len(fills') = Len(fills) + 2
        <5>1. fills' = fills \o Both(t, q)
          BY <1>3
        <5>2. Len(fills \o Both(t, q)) = Len(fills) + Len(Both(t, q))
          BY <1>1, <1>2, ConcatProperties
        <5> QED BY <1>1, <5>1, <5>2
      <4>2. [quantity |-> q, sim |-> t] \in TradeType
        BY TypesSame
      <4>3. Len(trades') = Len(trades) + 1 /\ Len(trades) \in Nat
        BY <1>2, <1>3, <4>2
      <4> QED BY <4>1, <4>3
    <3>5. cash' = ReconstructCash(fills')
      BY <1>1, <1>2, <1>3, <3>1, CashOfTrade
    <3> QED BY <3>1, <3>3, <3>4, <3>5
  <2> QED BY <2>1, <2>2, <2>3 DEF AccountInv
<1>4. CASE n < 2 /\ raised' = TRUE /\ UNCHANGED <<cash, pnl, trades>>
  BY <1>4 DEF AccountInv
<1>5. CASE NewBroker
  <2>1. ledger' \in Seq(FillType)
    BY <1>1, <1>2 DEF Records
  <2> QED BY <1>5, <2>1, NewBrokerReconciles
<1> QED BY <1>3, <1>4, <1>5 DEF Records

\* paper_trading.py reconstruct_cash: while no append has raised, the cash of the
\* broker is what the fills of this run explain, which are the end of the file;
\* terminal.py _equity_curve: the curve that is shown ends at that cash, always.
THEOREM AccountsReconcile == Spec => []AccountReconciles
<1>1. Init => AccountInv
  <2> SUFFICES ASSUME Init PROVE AccountInv
    OBVIOUS
  <2>1. /\ cash = StartingCash /\ pnl = 0 /\ fills = <<>> /\ trades = <<>> /\ ledger = <<>>
        /\ StartingCash \in Int /\ Len(<<>>) = 0
    BY PaperAssumption DEF Init
  <2>2. Settlements(<<>>) \in Seq(Int) /\ Len(Settlements(<<>>)) = 0
    BY DEF Settlements
  <2>3. CashAfter(Settlements(trades))[Len(trades)] = cash
    BY <2>1, <2>2, CashStarts
  <2>4. SubSeq(<<>>, 1, 0) = <<>>
    OBVIOUS
  <2>5. EndOf(fills, ledger)
    BY <2>1, <2>4 DEF EndOf
  <2>6. cash = ReconstructCash(fills) /\ Len(fills) = 2 * Len(trades)
    BY <2>1, CashOfNothing
  <2> QED BY <2>1, <2>3, <2>5, <2>6 DEF AccountInv
<1>2. TypeOK /\ AccountInv /\ [Next]_paperVars => AccountInv'
  <2> SUFFICES ASSUME TypeOK, AccountInv, [Next]_paperVars PROVE AccountInv'
    OBVIOUS
  <2>1. CASE UNCHANGED <<cash, pnl, fills, trades, raised, ledger>>
    BY <2>1 DEF AccountInv
  <2>2. ASSUME NEW i \in Instruments, NEW d \in SignalDays, NEW q \in Quantities,
               Execute(i, d, q)
        PROVE  AccountInv'
    <3>1. PICK t \in SimType : t = Simulated(i, d) /\ \E n \in 0..2 : Records(t, q, n)
      BY <2>2, ExecuteRecords
    <3> QED BY <2>2, <3>1, ExecuteRecords, RecordsReconcile
  <2>3. CASE Restart
    BY <2>3, NewBrokerReconciles DEF Restart, TypeOK
  <2> QED BY <2>1, <2>2, <2>3 DEF Next, SessionEnds, paperVars, broker
<1>3. AccountInv => AccountReconciles
  BY DEF AccountInv, AccountReconciles, Settlements, EquityCurve, EndOf
<1> QED BY <1>1, <1>2, <1>3, PaperTyped, PTL DEF Spec

-----------------------------------------------------------------------------
(* Trades stay true.                                                       *)

\* What holds of a trade ever after it was made; the exit is a session held, which
\* TradesStayTrue does not say and its proof needs.
Stands(t) ==
  LET again == Simulated(t.instrument, t.signal)
  IN /\ t.exitDay \in After(t.instrument, t.signal)
     /\ t.signal < t.entryDay /\ t.entryDay <= t.exitDay
     /\ again.entryDay = t.entryDay /\ again.entry = t.entry
     /\ t.exitDay <= again.exitDay
     /\ UsedUp(t) => again = t

TradesStand == \A k \in 1..Len(trades) : \E t \in SimType : t = trades[k].sim /\ Stands(t)

LEMMA NewTradeStands ==
  ASSUME MarketTypeOK, NEW i \in Instruments, NEW d \in Days, After(i, d) # {},
         NEW t \in SimType, t = Simulated(i, d)
  PROVE  Stands(t)
<1>1. d \in Nat
  BY MarketAssumption DEF Days
<1>2. /\ EntryDay(i, d) \in Window(i, d)
      /\ \A x \in After(i, d) : EntryDay(i, d) <= x
      /\ ExitDay(i, d) \in Window(i, d)
  BY <1>1, WindowHolds
<1>3. /\ Window(i, d) \subseteq After(i, d)
      /\ \A x \in After(i, d) : x \in Nat /\ d < x
  BY MarketAssumption DEF Window, After, Days
<1>4. /\ t.instrument = i /\ t.signal = d
      /\ t.entryDay = EntryDay(i, d) /\ t.exitDay = ExitDay(i, d)
  BY DEF Simulated
<1>5. t.exitDay \in After(i, d) /\ d < t.entryDay /\ t.entryDay <= t.exitDay
      /\ t.exitDay <= t.exitDay
  BY <1>2, <1>3, <1>4
<1> QED
  BY <1>4, <1>5 DEF Stands

LEMMA SessionKeepsTrade ==
  ASSUME MarketTypeOK, NextDay, NEW t \in SimType, Stands(t)
  PROVE  Stands(t)'
<1> DEFINE i == t.instrument
           d == t.signal
<1>1. i \in Instruments /\ d \in Nat /\ t.exitDay \in Nat /\ t.exitDay \in After(i, d)
  BY MarketAssumption DEF SimType, Days, Stands
<1>2. /\ EntryDay(i, d)' = EntryDay(i, d) /\ Entry(i, d)' = Entry(i, d)
      /\ ExitDay(i, d)' \in Nat /\ ExitDay(i, d) <= ExitDay(i, d)'
      /\ UsedUp(Simulated(i, d)) => Simulated(i, d)' = Simulated(i, d)
      /\ After(i, d)' # {} /\ After(i, d) # {}
  BY <1>1, TradesSettle
<1>3. After(i, d) \subseteq After(i, d)' /\ UpTo(i, d, t.exitDay)' = UpTo(i, d, t.exitDay)
  BY <1>1, SessionAdded, WindowGrows
<1>4. UsedUp(t)' <=> UsedUp(t)
  BY <1>3 DEF UsedUp
<1>5. /\ EntryDay(i, d) = t.entryDay /\ Entry(i, d) = t.entry /\ t.exitDay <= ExitDay(i, d)
      /\ t.signal < t.entryDay /\ t.entryDay <= t.exitDay
  BY DEF Stands, Simulated
<1>6. t.exitDay <= ExitDay(i, d)'
  <2>1. ExitDay(i, d) \in Nat
    BY <1>1, <1>2, WindowHolds, MarketAssumption DEF Window, After, Days
  <2> QED
    BY <1>1, <1>2, <1>5, <2>1
<1>7. UsedUp(t) => Simulated(i, d)' = t
  <2> SUFFICES ASSUME UsedUp(t) PROVE Simulated(i, d)' = t
    OBVIOUS
  <2>1. Simulated(i, d) = t
    BY DEF Stands
  <2> QED
    BY <1>2, <2>1
<1>8. /\ (t.exitDay \in After(i, d))'
      /\ Simulated(i, d).entryDay' = EntryDay(i, d)' /\ Simulated(i, d).entry' = Entry(i, d)'
      /\ Simulated(i, d).exitDay' = ExitDay(i, d)'
  BY <1>1, <1>3 DEF Simulated
<1> QED
  BY <1>2, <1>4, <1>5, <1>6, <1>7, <1>8 DEF Stands

LEMMA SameMarketSameTrade ==
  ASSUME UNCHANGED market, NEW t, Stands(t)
  PROVE  Stands(t)'
<1>1. today' = today /\ bars' = bars
  BY DEF market
<1>2. \A i, d : After(i, d)' = After(i, d)
  BY <1>1 DEF After
<1>3. \A i, d, x : UpTo(i, d, x)' = UpTo(i, d, x)
  BY <1>2 DEF UpTo
<1>4. \A i, d : /\ Window(i, d)' = Window(i, d) /\ EntryDay(i, d)' = EntryDay(i, d)
  BY <1>2, <1>3 DEF Window, EntryDay
<1>5. \A i, d : /\ Entry(i, d)' = Entry(i, d) /\ StopPrice(i, d)' = StopPrice(i, d)
                /\ TargetPrice(i, d)' = TargetPrice(i, d)
  BY <1>1, <1>4 DEF Entry, StopPrice, TargetPrice
<1>6. \A i, d, x : /\ HitsStop(i, d, x)' = HitsStop(i, d, x)
                   /\ HitsTarget(i, d, x)' = HitsTarget(i, d, x)
  BY <1>1, <1>5 DEF HitsStop, HitsTarget
<1>7. \A i, d : /\ Touching(i, d)' = Touching(i, d) /\ ExitDay(i, d)' = ExitDay(i, d)
                /\ Outcome(i, d)' = Outcome(i, d) /\ ExitPrice(i, d)' = ExitPrice(i, d)
  BY <1>1, <1>4, <1>5, <1>6 DEF Touching, ExitDay, Outcome, ExitPrice
<1>8. Simulated(t.instrument, t.signal)' = Simulated(t.instrument, t.signal)
  BY <1>4, <1>5, <1>7 DEF Simulated
<1>9. UsedUp(t)' = UsedUp(t)
  BY <1>3 DEF UsedUp
<1> QED
  BY <1>2, <1>8, <1>9 DEF Stands

\* The paper account is never contradicted by the future: a trade shown before its
\* window is over keeps its entry, exits no earlier when it is made again, and is
\* final once it touched a barrier or used its window up (backtest.py simulate).
THEOREM TradesAreTrue == Spec => []TradesStayTrue
<1>1. Init => TradesStand
  BY DEF Init, TradesStand
<1>2. TypeOK /\ TradesStand /\ [Next]_paperVars => TradesStand'
  <2> SUFFICES ASSUME TypeOK, TradesStand, [Next]_paperVars PROVE TradesStand'
    OBVIOUS
  <2>0. MarketTypeOK /\ trades \in Seq(TradeType)
    BY DEF TypeOK
  <2>1. CASE SessionEnds
    <3>1. NextDay /\ trades' = trades
      BY <2>1 DEF SessionEnds, broker
    <3> SUFFICES ASSUME NEW k \in 1..Len(trades)
                 PROVE  \E t \in SimType : t = trades[k].sim /\ Stands(t)'
      BY <3>1 DEF TradesStand
    <3>2. PICK t \in SimType : t = trades[k].sim /\ Stands(t)
      BY DEF TradesStand
    <3> QED
      BY <2>0, <3>1, <3>2, SessionKeepsTrade
  <2>2. ASSUME UNCHANGED market, trades' = trades
        PROVE  TradesStand'
    <3> SUFFICES ASSUME NEW k \in 1..Len(trades)
                 PROVE  \E t \in SimType : t = trades[k].sim /\ Stands(t)'
      BY <2>2 DEF TradesStand
    <3>1. PICK t \in SimType : t = trades[k].sim /\ Stands(t)
      BY DEF TradesStand
    <3> QED
      BY <2>2, <3>1, SameMarketSameTrade
  <2>3. ASSUME NewBroker PROVE TradesStand'
    BY <2>3 DEF NewBroker, TradesStand
  <2>4. ASSUME NEW i \in Instruments, NEW d \in SignalDays, NEW q \in Quantities,
               Execute(i, d, q)
        PROVE  TradesStand'
    <3>1. /\ d \in Days /\ After(i, d) # {} /\ UNCHANGED market
          /\ Simulated(i, d) \in SimType
          /\ \E n \in 0..2 : Records(Simulated(i, d), q, n)
      BY <2>4, ExecuteRecords
    <3>2. PICK t \in SimType : t = Simulated(i, d) /\ \E n \in 0..2 : Records(t, q, n)
      BY <3>1
    <3>3. CASE trades' = Append(trades, [quantity |-> q, sim |-> t])
      <4> SUFFICES ASSUME NEW k \in 1..Len(trades')
                   PROVE  \E u \in SimType : u = trades'[k].sim /\ Stands(u)'
        BY DEF TradesStand
      <4>1. CASE k \in 1..Len(trades)
        <5>1. trades'[k] = trades[k]
          BY <2>0, <3>3, <4>1
        <5>2. PICK u \in SimType : u = trades[k].sim /\ Stands(u)
          BY <4>1 DEF TradesStand
        <5> QED
          BY <3>1, <5>1, <5>2, SameMarketSameTrade
      <4>2. CASE k = Len(trades) + 1
        <5>1. trades'[k].sim = t
          BY <2>0, <3>3, <4>2
        <5>2. Stands(t)
          BY <2>0, <3>1, <3>2, NewTradeStands
        <5> QED
          BY <3>1, <5>1, <5>2, SameMarketSameTrade
      <4> QED
        BY <2>0, <3>3, <4>1, <4>2
    <3> QED
      BY <2>2, <2>3, <3>1, <3>2, <3>3 DEF Records
  <2>5. CASE Restart
    BY <2>3, <2>5 DEF Restart
  <2>6. CASE UNCHANGED paperVars
    BY <2>2, <2>6 DEF paperVars, broker
  <2> QED
    BY <2>1, <2>4, <2>5, <2>6 DEF Next
<1>3. TradesStand => TradesStayTrue
  BY DEF TradesStand, TradesStayTrue, Stands
<1> QED
  BY <1>1, <1>2, <1>3, PaperTyped, PTL DEF Spec

-----------------------------------------------------------------------------
(* The purge.                                                              *)

\* Under such a calendar every exit is inside the gap.
LEMMA ExitWithinGap ==
  ASSUME GapCoversWindow, MarketTypeOK, NEW i \in Instruments, NEW d \in Days,
         After(i, d) # {}
  PROVE  ExitDay(i, d) \in Nat /\ ExitDay(i, d) <= d + Horizon + Embargo
<1> DEFINE x == ExitDay(i, d)
<1>1. d \in Nat
  BY MarketAssumption DEF Days
<1>2. x \in After(i, d) /\ Cardinality(UpTo(i, d, x)) <= Horizon
  BY <1>1, WindowHolds DEF Window
<1>3. x \in Days \ Closed[i] /\ x \in Nat /\ x <= today
  BY <1>1, <1>2, SessionsAreHeld, MarketAssumption DEF Days
<1> DEFINE S == {y \in Days \ Closed[i] : d < y /\ y <= x}
<1>4. UpTo(i, d, x) = S
  <2>1. \A y \in Days : d < y /\ y <= x =>
          (bars[i][y] # NoBar <=> y \notin Closed[i])
    BY <1>3, MarketAssumption DEF MarketTypeOK, Days
  <2>2. \A y \in Days : y > d <=> d < y
    BY <1>1, MarketAssumption DEF Days
  <2> HIDE DEF x
  <2> QED
    BY <2>1, <2>2 DEF UpTo, After
<1>5. Cardinality(S) \in Nat
  BY DaysAreFinite
<1>6. ~ (x > d + Horizon + Embargo)
  <2>1. Cardinality(S) <= Horizon
    BY <1>2, <1>4
  <2>2. ~ (Cardinality(S) > Horizon)
    <3> HIDE DEF S
    <3> QED
      BY <1>5, <2>1, MarketAssumption
  <2>3. x > d + Horizon + Embargo => Cardinality(S) > Horizon
    BY <1>3 DEF GapCoversWindow
  <2> QED
    BY <2>2, <2>3
<1> HIDE DEF x
<1> QED
  BY <1>1, <1>3, <1>6, MarketAssumption, FoldAssumption DEF x

\* Where the calendar keeps the gap, no training label of any fold was read from a
\* bar of the test period, whatever prices come (cv.py purged_walk_forward).
THEOREM PurgeWorks ==
  ASSUME GapCoversWindow
  PROVE  MarketSpec => []TrainingIsPurged
<1>1. MarketTypeOK => TrainingIsPurged
  <2> SUFFICES ASSUME MarketTypeOK,
                      NEW last \in Days, NEW k \in 1..Splits,
                      NEW r \in TrainRows(Rows(last), k), NEW s \in TestRows(Rows(last), k)
               PROVE  ExitDay(r.instrument, r.day) < s.day
    BY DEF TrainingIsPurged
  <2> DEFINE rows == Rows(last)
             days == {q.day : q \in TestRows(rows, k)}
             start == TestStart(rows, k)
  <2>1. \A q \in rows : /\ q.instrument \in Instruments /\ q.day \in Days
                        /\ After(q.instrument, q.day) # {}
    BY MarketAssumption DEF Rows, Days
  <2>2. days \subseteq Days /\ s.day \in days
    BY <2>1 DEF TestRows
  <2>3. start \in Days /\ start <= s.day
    BY <2>2, LeastIsIn DEF TestStart
  <2>4. r \in rows /\ r.day + Horizon + Embargo < start
    BY DEF TrainRows
  <2>5. ExitDay(r.instrument, r.day) \in Nat
        /\ ExitDay(r.instrument, r.day) <= r.day + Horizon + Embargo
    BY <2>1, <2>4, ExitWithinGap
  <2>6. r.day \in Nat /\ s.day \in Nat /\ start \in Nat
    BY <2>1, <2>2, <2>3, <2>4, MarketAssumption DEF Days
  <2> HIDE DEF start, rows, days
  <2> QED
    BY <2>3, <2>4, <2>5, <2>6, MarketAssumption, FoldAssumption
<1> QED
  BY <1>1, MarketTyped, PTL
-----------------------------------------------------------------------------
(* The folds.                                                              *)

LEMMA ProductsGrow ==
  ASSUME NEW a \in Nat, NEW b \in Nat, NEW c \in Nat, a <= b
  PROVE  a * c <= b * c
<1>1. PICK d \in Nat : b = a + d
  <2>1. b - a \in Nat /\ b = a + (b - a)
    OBVIOUS
  <2> QED BY <2>1
<1>2. b * c = a * c + d * c
  BY <1>1
<1>3. d * c \in Nat /\ a * c \in Nat
  OBVIOUS
<1> QED BY <1>2, <1>3

\* The folds that test the row at place p, when each but the last has size rows.
Testing(p, size) == {k \in 1..Splits : k * size < p /\ (k < Splits => p <= (k + 1) * size)}

LEMMA FirstBlockUntested ==
  ASSUME NEW p \in Nat, NEW size \in Nat, p <= size
  PROVE  Testing(p, size) = {}
<1>1. ASSUME NEW k \in 1..Splits PROVE ~ (k * size < p)
  <2>1. k \in Nat /\ 1 <= k /\ 1 * size = size /\ k * size \in Nat
    BY FoldAssumption
  <2>2. 1 * size <= k * size
    BY <2>1, ProductsGrow
  <2> QED BY <2>1, <2>2
<1> QED BY <1>1 DEF Testing

LEMMA OneBlockTests ==
  ASSUME NEW p \in Nat, NEW size \in Nat, p > size
  PROVE  \E g \in 1..Splits : Testing(p, size) = {g}
<1> DEFINE S == {k \in 1..Splits : k * size < p}
           T == {Splits - k : k \in S}
<1>0. Splits \in Nat /\ Splits >= 1
  BY FoldAssumption
<1>1. 1 \in S
  <2>1. 1 * size = size
    OBVIOUS
  <2> QED BY <1>0, <2>1
<1>2. PICK g \in S : \A k \in S : k <= g
  <2>1. T \subseteq Nat /\ T # {}
    <3>1. \A k \in S : Splits - k \in Nat
      BY <1>0
    <3> QED BY <1>1, <3>1
  <2>2. PICK x \in T : \A y \in T : x <= y
    BY <2>1, LeastOfNumbers
  <2>3. PICK g \in S : x = Splits - g
    OBVIOUS
  <2>4. ASSUME NEW k \in S PROVE k <= g
    <3>1. Splits - g <= Splits - k
      BY <2>2, <2>3
    <3> QED BY <1>0, <3>1
  <2> QED BY <2>4
<1>3. g \in Nat /\ g \in 1..Splits /\ g * size \in Nat /\ g * size < p
  BY <1>0
<1>4. ASSUME g < Splits PROVE p <= (g + 1) * size
  <2>1. g + 1 \in 1..Splits /\ ~ (g + 1 <= g) /\ (g + 1) * size \in Nat
    BY <1>0, <1>3, <1>4
  <2>2. g + 1 \notin S
    BY <1>2, <2>1
  <2> QED BY <2>1, <2>2
<1>5. g \in Testing(p, size)
  BY <1>3, <1>4 DEF Testing
<1>6. ASSUME NEW k \in Testing(p, size) PROVE k = g
  <2>1. k \in S /\ k \in Nat /\ k <= g
    BY <1>0, <1>2 DEF Testing
  <2>2. ASSUME k < g PROVE FALSE
    <3>1. k < Splits /\ k + 1 <= g /\ k + 1 \in Nat /\ (k + 1) * size \in Nat
      BY <1>0, <1>3, <2>1, <2>2
    <3>2. p <= (k + 1) * size
      BY <3>1 DEF Testing
    <3>3. (k + 1) * size <= g * size
      BY <1>3, <3>1, ProductsGrow
    <3> QED BY <1>3, <3>1, <3>2, <3>3
  <2> QED BY <1>3, <2>1, <2>2
<1> QED BY <1>3, <1>5, <1>6

\* The rows of a data set are finitely many, so every one of them has a place.
LEMMA RowsHavePlaces ==
  ASSUME NEW last \in Days
  PROVE  /\ IsFiniteSet(Rows(last)) /\ FoldSize(Rows(last)) \in Nat
         /\ \A r \in Rows(last) : Position(Rows(last), r) \in Nat
<1> DEFINE rows == Rows(last)
           row(x) == [instrument |-> x[1], day |-> x[2]]
<1>1. IsFiniteSet(Instruments \X (1..last))
  <2>1. IsFiniteSet(1..last)
    BY MarketAssumption, FS_Interval DEF Days
  <2> QED BY <2>1, FoldAssumption, FS_Product
<1>2. IsFiniteSet({row(x) : x \in Instruments \X (1..last)})
  <2> DEFINE pairs == Instruments \X (1..last)
             f == [x \in pairs |-> row(x)]
  <2>1. f \in Surjection(pairs, {row(x) : x \in pairs})
    BY DEF Surjection
  <2> QED BY <1>1, <2>1, FS_Surjection
<1>3. ASSUME NEW r \in [instrument : Instruments, day : 1..last]
      PROVE  r \in {row(x) : x \in Instruments \X (1..last)}
  <2>1. <<r.instrument, r.day>> \in Instruments \X (1..last)
    OBVIOUS
  <2>2. r = row(<<r.instrument, r.day>>)
    OBVIOUS
  <2> QED BY <2>1, <2>2
<1>4. rows \subseteq {row(x) : x \in Instruments \X (1..last)}
  BY <1>3 DEF Rows
<1>5. IsFiniteSet(rows)
  BY <1>2, <1>4, FS_Subset
<1>6. FoldSize(rows) \in Nat
  <2>1. Cardinality(rows) \in Nat /\ Splits + 1 \in Nat /\ Splits + 1 > 0
    BY <1>5, FS_CardinalityType, FoldAssumption
  <2>2. \A n \in Nat, m \in Nat : m > 0 => n \div m \in Nat
    OBVIOUS
  <2>3. Cardinality(rows) \div (Splits + 1) \in Nat
    BY <2>1, <2>2
  <2> QED BY <2>3 DEF FoldSize
<1>7. ASSUME NEW r \in rows PROVE Position(rows, r) \in Nat
  <2> DEFINE upTo == {s \in rows : s.day < r.day
                      \/ (s.day = r.day /\ Order[s.instrument] <= Order[r.instrument])}
  <2>1. IsFiniteSet(upTo)
    BY <1>5, FS_Subset
  <2>2. Cardinality(upTo) \in Nat
    BY <2>1, FS_CardinalityType
  <2> QED BY <2>2 DEF Position
<1> QED BY <1>5, <1>6, <1>7

\* Whatever rows there are, however many they are and whether they divide into the
\* folds or not, each one is tested exactly once unless it is in the first block,
\* which only trains (cv.py purged_walk_forward).
THEOREM TestedOnce == MarketSpec => []RowsAreTestedOnce
<1>1. RowsAreTestedOnce
  <2> SUFFICES ASSUME NEW last \in Days, NEW r \in Rows(last)
               PROVE  Cardinality({k \in 1..Splits :
                                     r \in [x \in 1..Splits |-> TestRows(Rows(last), x)][k]})
                        = IF Position(Rows(last), r) <= FoldSize(Rows(last)) THEN 0 ELSE 1
    BY DEF RowsAreTestedOnce
  <2> DEFINE rows == Rows(last)
             p == Position(rows, r)
             size == FoldSize(rows)
  <2>1. p \in Nat /\ size \in Nat
    BY RowsHavePlaces
  <2>2. {k \in 1..Splits : r \in [x \in 1..Splits |-> TestRows(rows, x)][k]} = Testing(p, size)
    BY DEF TestRows, Testing
  <2>3. CASE p <= size
    <3>1. Testing(p, size) = {}
      BY <2>1, <2>3, FirstBlockUntested
    <3> QED BY <2>2, <2>3, <3>1, FS_EmptySet
  <2>4. CASE p > size
    <3>1. PICK g \in 1..Splits : Testing(p, size) = {g}
      BY <2>1, <2>4, OneBlockTests
    <3>2. Cardinality({g}) = 1
      BY FS_Singleton
    <3>3. ~ (p <= size)
      BY <2>1, <2>4
    <3> QED BY <2>2, <3>1, <3>2, <3>3
  <2> QED BY <2>1, <2>3, <2>4
<1> QED BY <1>1, PTL
===============================================================================
