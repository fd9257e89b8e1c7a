------------------------------ MODULE DayProofs ------------------------------
(***************************************************************************)
(* Theorems about Terminal: its plan (Rotation) and its limiter            *)
(* (RateLimiter), for any portfolio, edges and candidates, any limit and   *)
(* window, through failed builds, restarts and new builds; and what its    *)
(* views and its logbook (Logbook) show of the day it was built for.       *)
(***************************************************************************)
EXTENDS Terminal, FoldLemmas, FiniteSetTheorems, SequenceTheorems, TLAPS

-----------------------------------------------------------------------------
(* Least elements.                                                         *)

\* Of finitely many holdings one has the least edge.
LEMMA LeastEdge ==
  ASSUME NEW S, IsFiniteSet(S), S # {}, NEW f, \A x \in S : f[x] \in Int
  PROVE  \E x \in S : \A y \in S : f[x] <= f[y]
<1> DEFINE Has(T) == \E x \in T : \A y \in T : f[x] <= f[y]
           Bad == {T \in SUBSET S : T # {} /\ ~ Has(T)}
           Sizes == {Cardinality(T) : T \in Bad}
<1>1. \A T \in SUBSET S : IsFiniteSet(T) /\ Cardinality(T) \in Nat
  BY FS_Subset, FS_CardinalityType
<1>2. SUFFICES ASSUME Bad # {} PROVE FALSE
  OBVIOUS
<1>3. Sizes \subseteq Nat /\ Sizes # {}
  BY <1>1, <1>2
<1>4. PICK c \in Sizes : \A d \in Sizes : c <= d
  BY <1>3, LeastOfNumbers
<1>5. PICK T \in Bad : c = Cardinality(T)
  OBVIOUS
<1>6. PICK x \in T : TRUE
  OBVIOUS
<1>7. Cardinality(T \ {x}) = Cardinality(T) - 1
  BY <1>1, FS_RemoveElement
<1>8. T \ {x} \notin Bad
  <2> SUFFICES ASSUME T \ {x} \in Bad PROVE FALSE
    OBVIOUS
  <2>1. c <= Cardinality(T \ {x})
    BY <1>4
  <2> QED
    BY <2>1, <1>1, <1>5, <1>7
<1>9. CASE T \ {x} = {}
  <2>1. \A y \in T : f[x] <= f[y]
    BY <1>9
  <2> QED
    BY <2>1, <1>6
<1>10. CASE T \ {x} # {}
  <2>1. PICK z \in T \ {x} : \A y \in T \ {x} : f[z] <= f[y]
    BY <1>8, <1>10
  <2>2. CASE f[x] <= f[z]
    <3>1. \A y \in T : f[x] <= f[y]
      BY <2>1, <2>2
    <3> QED
      BY <3>1, <1>6
  <2>3. CASE f[z] <= f[x]
    <3>1. \A y \in T : f[z] <= f[y]
      BY <2>1, <2>3
    <3> QED
      BY <3>1
  <2> QED
    BY <2>2, <2>3
<1> QED
  BY <1>9, <1>10

-----------------------------------------------------------------------------
(* The plan.  The invariant speaks of a call in progress or done:          *)
(* what each move is about, that remaining, Left and Entered go together,  *)
(* that slots counts what may still be entered, and that a candidate the   *)
(* loop has passed by has no way in left.                                  *)

PlanTyped ==
  /\ IsFiniteSet(Held) /\ Held \subseteq Names
  /\ edges \in [Names -> Int]
  /\ DOMAIN offers \subseteq Names
  /\ \A n \in DOMAIN offers : offers[n].edge \in Int
  /\ todo \subseteq DOMAIN offers /\ remaining \subseteq Held
  /\ slots \in Int
  /\ planning = "exits" => todo = DOMAIN offers
  /\ planning = "done" => todo = {}

About(m) ==
  \/ m.action = "EXIT" /\ m.name \in Held /\ m.from = Nobody
  \/ m.action = "BUY" /\ m.name \in DOMAIN offers \ (Held \cup todo) /\ m.from = Nobody
  \/ m.action = "ROTATE" /\ m.name \in DOMAIN offers \ (Held \cup todo) /\ m.from \in Held
  \/ m.action = "NO_TRADE" /\ moves = {m} /\ planning = "done"

Apart ==
  \A m, k \in moves :
    \/ m = k
    \/ m.name # k.name /\ (m.from # k.from \/ m.from = Nobody) /\ m.from # k.name

Parted ==
  /\ \A m \in moves : About(m)
  /\ Apart
  /\ remaining = Held \ Left /\ Left \subseteq Held
  /\ Entered \subseteq DOMAIN offers /\ Entered \cap (Held \cup todo) = {}

Counting ==
  /\ Cardinality(remaining \cup Entered) + slots = MaxPositions
  /\ slots >= 0 \/ Cardinality(remaining \cup Entered) <= Cardinality(Held)

PassedBy(n) ==
  /\ slots <= 0
  /\ \A h \in remaining : ~Beats(n, h)
  /\ \A k \in Entered : offers[n].edge <= offers[k].edge

Best ==
  /\ \A n \in DOMAIN offers \ todo, k \in todo : offers[k].edge <= offers[n].edge
  /\ \A n \in DOMAIN offers \ todo : Eligible(n) /\ n \notin Entered => PassedBy(n)

Going == planning \in {"candidates", "done"}
PlanInv == PlanTyped /\ (Going => Parted /\ Counting /\ Best)

\* What a further move changes.
LEMMA AfterBuy ==
  ASSUME NEW n, NEW r, moves' = moves \cup {Move("BUY", n, Nobody, r)}
  PROVE  Entered' = Entered \cup {n} /\ Left' = Left
<1> DEFINE b == Move("BUY", n, Nobody, r)
<1>1. b.action = "BUY" /\ b.name = n
  BY DEF Move
<1> HIDE DEF b
<1>2. moves' = moves \cup {b}
  BY DEF b
<1> QED
  BY <1>1, <1>2 DEF Entered, Left

LEMMA AfterExchange ==
  ASSUME NEW n, NEW h, NEW r, moves' = moves \cup {Move("ROTATE", n, h, r)}
  PROVE  Entered' = Entered \cup {n} /\ Left' = Left \cup {h}
<1> DEFINE b == Move("ROTATE", n, h, r)
<1>1. b.action = "ROTATE" /\ b.name = n /\ b.from = h
  BY DEF Move
<1> HIDE DEF b
<1>2. moves' = moves \cup {b}
  BY DEF b
<1> QED
  BY <1>1, <1>2 DEF Entered, Left

\* Names are finitely many, and so is every set of them.
LEMMA NamesAreFinite ==
  ASSUME NEW S, S \subseteq Names
  PROVE  IsFiniteSet(S) /\ Cardinality(S) \in Nat
BY RotationAssumption, FS_Subset, FS_CardinalityType

LEMMA ExitsPlan ==
  ASSUME PlanTyped, Exits
  PROVE  PlanTyped' /\ Parted' /\ Counting' /\ Best'
<1> DEFINE exited == {n \in Held : edges[n] < ExitEdge}
           new == {Move("EXIT", n, Nobody, holdings[n]) : n \in exited}
<1>1. /\ moves' = new /\ remaining' = Held \ exited
      /\ slots' = MaxPositions - Cardinality(Held \ exited)
      /\ planning' = "candidates"
      /\ UNCHANGED <<cash, holdings, edges, offers, todo>> /\ todo = DOMAIN offers
  BY DEF Exits, PlanTyped
<1>2. Held' = Held
  BY <1>1 DEF Held
<1>3. \A m \in new : m.action = "EXIT" /\ m.name \in exited /\ m.from = Nobody
  BY DEF Move
<1>4. Entered' = {}
  BY <1>1, <1>3 DEF Entered
<1>5. Left' = exited
  <2>1. ASSUME NEW n \in exited PROVE \E m \in new : m.action = "EXIT" /\ m.name = n
    <3>1. Move("EXIT", n, Nobody, holdings[n]) \in new
      OBVIOUS
    <3> QED
      BY <3>1 DEF Move
  <2> HIDE DEF new, exited
  <2>2. \A x : x \in Left' => x \in exited
    BY <1>1, <1>3 DEF Left
  <2>3. \A x : x \in exited => x \in Left'
    BY <1>1, <2>1 DEF Left
  <2> QED
    BY <2>2, <2>3
<1>6. Cardinality(Held \ exited) \in Nat /\ Cardinality(Held \ exited) <= Cardinality(Held)
  BY FS_Subset, FS_CardinalityType DEF PlanTyped
<1>7. PlanTyped'
  BY <1>1, <1>2, <1>6, RotationAssumption DEF PlanTyped
<1>8. Apart'
  <2>1. \A m, k \in new : m # k => m.name # k.name
    BY DEF Move
  <2>2. \A m \in new : m.name \in Names /\ m.from = Nobody
    BY <1>3 DEF PlanTyped
  <2>3. \A m, k \in new : m = k \/ (m.name # k.name /\ m.from = Nobody /\ m.from # k.name)
    BY <2>1, <2>2, RotationAssumption
  <2> HIDE DEF new
  <2> QED
    BY <2>3, <1>1 DEF Apart
<1>9. Parted'
  <2>1. \A m \in moves' : About(m)'
    BY <1>1, <1>2, <1>3 DEF About
  <2> HIDE DEF new, exited
  <2>2. exited \subseteq Held
    BY DEF exited
  <2> QED
    BY <1>1, <1>2, <1>4, <1>5, <1>8, <2>1, <2>2 DEF Parted
<1>10. Counting'
  <2> HIDE DEF new, exited
  <2>1. remaining' \cup Entered' = Held \ exited
    BY <1>1, <1>4
  <2>2. /\ Cardinality(remaining' \cup Entered') = Cardinality(Held \ exited)
        /\ Cardinality(Held') = Cardinality(Held)
    BY <2>1, <1>2
  <2>3. Cardinality(Held) \in Nat
    BY FS_CardinalityType DEF PlanTyped
  <2> QED
    BY <1>1, <1>6, <2>2, <2>3, RotationAssumption DEF Counting
<1>11. Best'
  BY <1>1 DEF Best
<1> QED
  BY <1>7, <1>9, <1>10, <1>11

\* What holds of the candidate that is considered, and what it leaves alone.
LEMMA Considered ==
  ASSUME PlanInv, NEW n \in Names, Consider(n)
  PROVE  /\ planning = "candidates" /\ planning' = planning
         /\ n \in todo /\ todo' = todo \ {n} /\ n \in DOMAIN offers /\ n # Nobody
         /\ Held' = Held /\ edges' = edges /\ offers' = offers /\ holdings' = holdings
         /\ \A x : Eligible(x)' = Eligible(x)
         /\ \A x, h : Beats(x, h)' = Beats(x, h)
         /\ \A k \in todo : offers[k].edge <= offers[n].edge
         /\ PlanTyped /\ Parted /\ Counting /\ Best
         /\ n \notin Entered
<1>1. planning = "candidates" /\ n \in todo /\ todo' = todo \ {n}
  BY DEF Consider
<1>2. UNCHANGED <<cash, holdings, edges, offers, planning>>
  BY DEF Consider
<1>3. PlanTyped /\ Parted /\ Counting /\ Best
  BY <1>1 DEF PlanInv, Going
<1>4. n \in DOMAIN offers /\ n \notin Entered
  BY <1>1, <1>3 DEF PlanTyped, Parted
<1>5. \A k \in todo : offers[k].edge <= offers[n].edge
  BY DEF Consider, Strongest
<1>6. n # Nobody
  BY RotationAssumption
<1>7. Held' = Held
  BY <1>2 DEF Held
<1>8. \A x : Eligible(x)' = Eligible(x)
  BY <1>2, <1>7 DEF Eligible
<1>9. \A x, h : Beats(x, h)' = Beats(x, h)
  BY <1>2 DEF Beats
<1> QED
  BY <1>1, <1>2, <1>3, <1>4, <1>5, <1>6, <1>7, <1>8, <1>9

\* The loop goes on in the order of the edges.
LEMMA OrderGoesOn ==
  ASSUME PlanInv, NEW n \in Names, Consider(n)
  PROVE  \A x \in DOMAIN offers' \ todo', k \in todo' : offers'[k].edge <= offers'[x].edge
<1>1. \A x \in DOMAIN offers \ todo, k \in todo : offers[k].edge <= offers[x].edge
  BY Considered DEF Best
<1> QED
  BY <1>1, Considered

LEMMA SkipPlan ==
  ASSUME PlanInv, NEW n \in Names, Consider(n), UNCHANGED <<remaining, slots, moves>>,
         Eligible(n) => PassedBy(n)
  PROVE  PlanTyped' /\ Parted' /\ Counting' /\ Best'
<1>1. UNCHANGED <<remaining, slots, moves>>
  OBVIOUS
<1>2. Entered' = Entered /\ Left' = Left
  BY <1>1 DEF Entered, Left
<1>3. PlanTyped'
  BY Considered, <1>1 DEF PlanTyped
<1>4. Apart'
  <2>1. Apart
    BY Considered DEF Parted
  <2> QED
    BY <1>1, <2>1 DEF Apart
<1>5. Parted'
  <2>1. \A m \in moves : About(m)
    BY Considered DEF Parted
  <2>2. \A m \in moves' : About(m)'
    BY Considered, <1>1, <2>1 DEF About
  <2> QED
    BY Considered, <1>1, <1>2, <1>4, <2>2 DEF Parted
<1>6. Counting'
  BY Considered, <1>1, <1>2 DEF Counting
<1>7. ASSUME NEW x \in DOMAIN offers \ todo', Eligible(x), x \notin Entered
      PROVE  PassedBy(x)'
  <2>1. PassedBy(x)
    <3>1. CASE x = n
      BY <3>1, <1>7
    <3>2. CASE x # n
      <4>1. x \in DOMAIN offers \ todo
        BY <3>2, Considered
      <4> QED
        BY <4>1, <1>7, Considered DEF Best
    <3> QED
      BY <3>1, <3>2
  <2> QED
    BY <2>1, <1>1, <1>2, Considered DEF PassedBy
<1> QED
  BY <1>2, <1>3, <1>5, <1>6, <1>7, OrderGoesOn, Considered DEF Best

LEMMA BuyPlan ==
  ASSUME PlanInv, NEW n \in Names, Consider(n), Buy(n)
  PROVE  PlanTyped' /\ Parted' /\ Counting' /\ Best'
<1>0. PICK b : b = Move("BUY", n, Nobody, Stake)
  OBVIOUS
<1>1. /\ moves' = moves \cup {b} /\ slots > 0 /\ slots' = slots - 1
      /\ remaining' = remaining /\ n \notin Held
  BY <1>0 DEF Buy, Eligible
<1>2. Entered' = Entered \cup {n} /\ Left' = Left
  BY <1>0, <1>1, AfterBuy
<1>3. b.action = "BUY" /\ b.name = n /\ b.from = Nobody
  BY <1>0 DEF Move
<1>4. PlanTyped'
  BY Considered, <1>1 DEF PlanTyped
<1>5. ASSUME NEW m \in moves
      PROVE  /\ m.name # n /\ m.from # n /\ m.name # Nobody /\ About(m)'
  <2>1. About(m)
    BY Considered DEF Parted
  <2>2. m.name \in Names /\ m.name # n /\ m.from \in Held \cup {Nobody}
    BY <2>1, <1>1, Considered DEF About, PlanTyped
  <2>3. About(m)'
    BY <2>1, <1>1, Considered DEF About
  <2> QED
    BY <2>2, <2>3, <1>1, Considered, RotationAssumption
<1>6. Apart'
  <2>1. Apart
    BY Considered DEF Parted
  <2> QED
    BY <2>1, <1>1, <1>3, <1>5, Considered DEF Apart
<1>7. Parted'
  <2>1. About(b)'
    BY <1>1, <1>3, Considered DEF About
  <2>2. \A m \in moves' : About(m)'
    BY <2>1, <1>1, <1>5
  <2> QED
    BY <1>1, <1>2, <1>6, <2>2, Considered DEF Parted
<1>8. Counting'
  <2>1. remaining \cup Entered \subseteq Names /\ n \notin remaining \cup Entered
    BY <1>1, Considered DEF PlanTyped, Parted
  <2>2. Cardinality((remaining \cup Entered) \cup {n}) = Cardinality(remaining \cup Entered) + 1
    BY <2>1, NamesAreFinite, FS_AddElement
  <2>3. Cardinality(remaining' \cup Entered') = Cardinality(remaining \cup Entered) + 1
    <3>1. remaining' \cup Entered' = (remaining \cup Entered) \cup {n}
      BY <1>1, <1>2
    <3> QED
      BY <2>2, <3>1
  <2>4. Cardinality(remaining \cup Entered) \in Nat /\ slots \in Int
    BY <2>1, NamesAreFinite, Considered DEF PlanTyped
  <2>5. Cardinality(remaining \cup Entered) + slots = MaxPositions
    BY Considered DEF Counting
  <2> QED
    BY <1>1, <2>3, <2>4, <2>5 DEF Counting
<1>9. \A x \in DOMAIN offers \ todo' : Eligible(x) => x \in Entered'
  <2> SUFFICES ASSUME NEW x \in DOMAIN offers \ todo', Eligible(x), x \notin Entered', x # n
               PROVE  FALSE
    BY <1>2
  <2>1. PassedBy(x)
    BY <1>2, Considered DEF Best
  <2> QED
    BY <2>1, <1>1, Considered DEF PassedBy, PlanTyped
<1> QED
  BY <1>4, <1>7, <1>8, <1>9, OrderGoesOn, Considered DEF Best

LEMMA ExchangePlan ==
  ASSUME PlanInv, NEW n \in Names, Consider(n), Exchange(n)
  PROVE  PlanTyped' /\ Parted' /\ Counting' /\ Best'
<1>1. PICK h \in remaining :
        /\ Beats(n, h) /\ moves' = moves \cup {Move("ROTATE", n, h, holdings[h])}
        /\ remaining' = remaining \ {h}
  BY DEF Exchange
<1>2. PICK b : b = Move("ROTATE", n, h, holdings[h])
  OBVIOUS
<1>3. /\ moves' = moves \cup {b} /\ slots' = slots /\ n \notin Held
      /\ b.action = "ROTATE" /\ b.name = n /\ b.from = h
  BY <1>1, <1>2 DEF Exchange, Eligible, Move
<1>4. Entered' = Entered \cup {n} /\ Left' = Left \cup {h}
  BY <1>1, AfterExchange
<1>5. h \in Held /\ h \notin Left /\ h \notin Entered /\ h # Nobody
  BY Considered, RotationAssumption DEF Parted, PlanTyped
<1>6. PlanTyped'
  BY Considered, <1>1, <1>3 DEF PlanTyped
<1>7. ASSUME NEW m \in moves
      PROVE  /\ m.name # n /\ m.from # n /\ m.from # h /\ m.name # h /\ About(m)'
  <2>1. About(m)
    BY Considered DEF Parted
  <2>2. m.name \in Names /\ m.name # n /\ m.from \in Held \cup {Nobody}
    BY <2>1, <1>3, Considered DEF About, PlanTyped
  <2>3. About(m)'
    BY <2>1, <1>3, Considered DEF About
  <2>4. m.action = "EXIT" => m.name \in Left
    BY DEF Left
  <2>5. m.action = "ROTATE" => m.from \in Left
    BY DEF Left
  <2>6. m.from # h /\ m.name # h
    BY <2>1, <2>4, <2>5, <1>5, Considered DEF About
  <2> QED
    BY <2>2, <2>3, <2>6, <1>3, Considered
<1>8. Apart'
  <2>1. Apart
    BY Considered DEF Parted
  <2> QED
    BY <2>1, <1>3, <1>5, <1>7, Considered DEF Apart
<1>9. Parted'
  <2>1. About(b)'
    BY <1>3, <1>5, Considered DEF About
  <2>2. \A m \in moves' : About(m)'
    BY <2>1, <1>3, <1>7
  <2> QED
    BY <1>1, <1>3, <1>4, <1>5, <1>8, <2>2, Considered DEF Parted
<1>10. Counting'
  <2>1. /\ remaining \cup Entered \subseteq Names /\ n \notin remaining \cup Entered
        /\ h \in remaining \cup Entered
    BY <1>3, <1>5, Considered DEF PlanTyped, Parted
  <2> DEFINE P == remaining \cup Entered
  <2>2. remaining' \cup Entered' = (P \ {h}) \cup {n}
    BY <1>1, <1>4, <1>5
  <2>3. IsFiniteSet(P) /\ Cardinality(P) \in Nat /\ P \ {h} \subseteq Names
    BY <2>1, NamesAreFinite
  <2>4. Cardinality(P \ {h}) = Cardinality(P) - 1 /\ IsFiniteSet(P \ {h})
    BY <2>1, <2>3, FS_RemoveElement
  <2>5. Cardinality((P \ {h}) \cup {n}) = Cardinality(P \ {h}) + 1
    BY <2>1, <2>4, FS_AddElement
  <2> HIDE DEF P
  <2>6. Cardinality(remaining' \cup Entered') = Cardinality(P)
    <3>1. Cardinality(remaining' \cup Entered') = Cardinality((P \ {h}) \cup {n})
      BY <2>2
    <3> QED
      BY <2>3, <2>4, <2>5, <3>1
  <2>7. /\ Cardinality(P) + slots = MaxPositions
        /\ slots >= 0 \/ Cardinality(P) <= Cardinality(Held)
    BY Considered DEF Counting, P
  <2> QED
    BY <1>3, <2>6, <2>7, Considered DEF Counting
<1>11. ASSUME NEW x \in DOMAIN offers \ todo', Eligible(x), x \notin Entered'
       PROVE  PassedBy(x)'
  <2>1. x \in DOMAIN offers \ todo /\ x \notin Entered
    BY <1>4, <1>11, Considered
  <2>2. PassedBy(x)
    BY <2>1, <1>11, Considered DEF Best
  <2>3. ~Beats(x, h)
    BY <2>2 DEF PassedBy
  <2>4. offers[x].edge <= offers[n].edge
    <3>1. offers[x].edge \in Int /\ offers[n].edge \in Int /\ edges[h] + Margin \in Int
      BY <1>5, <2>1, Considered, RotationAssumption DEF PlanTyped
    <3> QED
      BY <3>1, <2>3, <1>1 DEF Beats
  <2>5. \A k \in Entered' : offers'[x].edge <= offers'[k].edge
    BY <2>2, <2>4, <1>4, Considered DEF PassedBy
  <2>6. slots' <= 0 /\ \A g \in remaining' : ~Beats(x, g)'
    BY <2>2, <1>1, <1>3, Considered DEF PassedBy
  <2> QED
    BY <2>5, <2>6 DEF PassedBy
<1> QED
  BY <1>6, <1>9, <1>10, <1>11, OrderGoesOn, Considered DEF Best

LEMMA ConsiderPlan ==
  ASSUME PlanInv, NEW n \in Names, Consider(n)
  PROVE  PlanInv'
<1>1. CASE Skip(n)
  BY <1>1, SkipPlan DEF PlanInv, Skip
<1>2. CASE Buy(n)
  BY <1>2, BuyPlan DEF PlanInv
<1>3. CASE Exchange(n)
  BY <1>3, ExchangePlan DEF PlanInv
<1>4. CASE Decline(n)
  <2>1. /\ slots <= 0 /\ UNCHANGED <<remaining, slots, moves>>
        /\ \A h \in remaining : Weakest(h) => ~Beats(n, h)
    BY <1>4 DEF Decline
  <2>2. /\ \A h \in remaining : edges[h] \in Int
        /\ IsFiniteSet(remaining) /\ offers[n].edge \in Int
    BY Considered, FS_Subset DEF PlanTyped
  <2>3. ASSUME NEW h \in remaining PROVE ~Beats(n, h)
    <3>1. PICK w \in remaining : \A k \in remaining : edges[w] <= edges[k]
      BY <2>2, LeastEdge
    <3>2. ~Beats(n, w)
      BY <2>1, <3>1 DEF Weakest
    <3>3. edges[w] \in Int /\ edges[h] \in Int /\ edges[w] <= edges[h] /\ Margin \in Int
      BY <2>2, <3>1, RotationAssumption
    <3> QED
      BY <3>2, <3>3, <2>2 DEF Beats
  <2>4. \A k \in Entered : offers[n].edge <= offers[k].edge
    BY Considered DEF Parted, Best
  <2>5. PassedBy(n)
    BY <2>1, <2>3, <2>4 DEF PassedBy
  <2> QED
    BY <2>1, <2>5, SkipPlan DEF PlanInv
<1> QED
  BY <1>1, <1>2, <1>3, <1>4 DEF Consider

LEMMA PlannedPlan ==
  ASSUME PlanInv, Planned
  PROVE  PlanInv'
<1>1. /\ planning = "candidates" /\ planning' = "done" /\ todo = {}
      /\ moves' = IF moves = {} THEN {Move("NO_TRADE", Nobody, Nobody, 0)} ELSE moves
      /\ UNCHANGED <<cash, holdings, edges, offers, todo, remaining, slots>>
  BY DEF Planned
<1>2. PlanTyped /\ Parted /\ Counting /\ Best
  BY <1>1 DEF PlanInv, Going
<1>3. PICK b : b = Move("NO_TRADE", Nobody, Nobody, 0)
  OBVIOUS
<1>4. b.action = "NO_TRADE"
  BY <1>3 DEF Move
<1>5. moves' = IF moves = {} THEN {b} ELSE moves
  BY <1>1, <1>3
<1>6. Entered' = Entered /\ Left' = Left
  BY <1>4, <1>5 DEF Entered, Left
<1>7. Held' = Held
  BY <1>1 DEF Held
<1>8. /\ \A x : Eligible(x)' = Eligible(x)
      /\ \A x, h : Beats(x, h)' = Beats(x, h)
  BY <1>1, <1>7 DEF Eligible, Beats
<1>9. \A x : PassedBy(x)' = PassedBy(x)
  BY <1>1, <1>6, <1>8 DEF PassedBy
<1>10. PlanTyped'
  BY <1>1, <1>2, <1>7 DEF PlanTyped
<1>11. \A m \in moves' : About(m)'
  <2>1. ASSUME NEW m \in moves' PROVE About(m)'
    <3>1. CASE moves = {}
      BY <3>1, <1>1, <1>4, <1>5 DEF About
    <3>2. CASE moves # {}
      <4>1. About(m) /\ m.action # "NO_TRADE"
        BY <3>2, <1>1, <1>2, <1>5 DEF Parted, About
      <4> QED
        BY <4>1, <1>1, <1>7 DEF About
    <3> QED
      BY <3>1, <3>2
  <2> QED
    BY <2>1
<1>12. Apart'
  BY <1>2, <1>5 DEF Parted, Apart
<1>13. Parted' /\ Counting'
  BY <1>1, <1>2, <1>6, <1>7, <1>11, <1>12 DEF Parted, Counting
<1>14. Best'
  BY <1>1, <1>2, <1>6, <1>8, <1>9 DEF Best
<1> QED
  BY <1>10, <1>13, <1>14 DEF PlanInv

LEMMA PlanIsKept ==
  ASSUME PlanInv, Rotate
  PROVE  PlanInv'
BY ExitsPlan, ConsiderPlan, PlannedPlan DEF Rotate, PlanInv

\* What the invariant says of the plan.
LEMMA PlanInvImplies ==
  ASSUME PlanInv
  PROVE  PlanIsSound /\ PlanIsBest
<1>1. PlanTyped /\ (planning \in {"candidates", "done"} => Parted /\ Counting /\ Best)
  BY DEF PlanInv, Going
<1>2. ASSUME planning \in {"candidates", "done"}
      PROVE  \/ Cardinality(Positions) <= MaxPositions
             \/ Cardinality(Positions) <= Cardinality(Held)
  <2>1. Positions = remaining \cup Entered
    BY <1>1, <1>2 DEF Positions, Parted
  <2>2. Cardinality(remaining \cup Entered) \in Nat
    BY <1>1, <1>2, NamesAreFinite DEF PlanTyped, Parted
  <2>3. slots \in Int /\ MaxPositions \in Int
    BY <1>1, RotationAssumption DEF PlanTyped
  <2> QED
    BY <1>1, <1>2, <2>1, <2>2, <2>3 DEF Counting
<1>3. PlanIsSound
  BY <1>1, <1>2 DEF PlanIsSound, Parted, Apart
<1>4. PlanIsBest
  <2> SUFFICES ASSUME planning = "done" PROVE PlanIsBest
    BY DEF PlanIsBest
  <2>1. Best /\ Parted
    BY <1>1
  <2>2. todo = {}
    BY <1>1 DEF PlanTyped
  <2> QED
    BY <2>1, <2>2 DEF PlanIsBest, Best, PassedBy
<1> QED
  BY <1>3, <1>4

-----------------------------------------------------------------------------
(* The steps of the terminal, by what they do to the plan and the limiter. *)

PlanStep == UNCHANGED rotation \/ Rotate \/ NothingPlanned \/ Portfolio
RecsStep == UNCHANGED recs \/ recs' = <<>> \/ CurrentRecs
LimiterStep ==
  \/ UNCHANGED limiter \/ Allow("chat") \/ Refuse("chat") \/ Elapses(clock + 1) \/ NewLimiter
StepKinds == UNCHANGED forecast /\ PlanStep /\ RecsStep /\ LimiterStep

LEMMA BuildSteps == ASSUME BuildStep PROVE StepKinds
<1> USE DEF StepKinds, PlanStep, RecsStep, LimiterStep, world, picks, serving, unlogged
<1>1. CASE Train BY <1>1 DEF Train
<1>2. CASE PaperTrack BY <1>2 DEF PaperTrack
<1>3. CASE CurrentRecs BY <1>3 DEF CurrentRecs
<1>4. CASE Portfolio BY <1>4 DEF Portfolio
<1>5. CASE Plans BY <1>5 DEF Plans
<1>6. CASE RaiseAlert BY <1>6 DEF RaiseAlert
<1>7. CASE Observability BY <1>7 DEF Observability
<1>8. CASE LogbookSetup BY <1>8 DEF LogbookSetup
<1>9. CASE LogSnapshot BY <1>9 DEF LogSnapshot
<1>10. CASE LogRecommendation BY <1>10 DEF LogRecommendation
<1>11. CASE LogDecision BY <1>11 DEF LogDecision
<1>12. CASE RecommendationsLogged BY <1>12 DEF RecommendationsLogged
<1>13. CASE LogVeto BY <1>13 DEF LogVeto
<1>14. CASE LogPlan BY <1>14 DEF LogPlan
<1>15. CASE LogFill BY <1>15 DEF LogFill
<1>16. CASE LogAlert BY <1>16 DEF LogAlert
<1>17. CASE Serves BY <1>17 DEF Serves
<1> QED
  BY <1>1, <1>2, <1>3, <1>4, <1>5, <1>6, <1>7, <1>8, <1>9, <1>10, <1>11, <1>12, <1>13, <1>14,
     <1>15, <1>16, <1>17 DEF BuildStep

LEMMA RequestSteps == ASSUME Request PROVE StepKinds
<1> USE DEF StepKinds, PlanStep, RecsStep, LimiterStep, world, picks, serving, built
<1>1. CASE \E i \in Names \cup {Nobody} : Chat(i) BY <1>1 DEF Chat
<1>2. CASE ChatEnds BY <1>2 DEF ChatEnds
<1>3. CASE \E i \in Noted : RecordUserExecution(i) BY <1>3 DEF RecordUserExecution
<1>4. CASE \E i \in Noted, l \in Given : RecordFeedback(i, l) BY <1>4 DEF RecordFeedback
<1> QED
  BY <1>1, <1>2, <1>3, <1>4 DEF Request

LEMMA Steps == ASSUME [Next]_terminalVars PROVE StepKinds
<1> USE DEF StepKinds, PlanStep, RecsStep, LimiterStep, world, picks, serving
<1>1. CASE \E s \in Environments : Starts(s) BY <1>1 DEF Starts
<1>2. CASE Requested BY <1>2 DEF Requested
<1>3. CASE BuildStep BY <1>3, BuildSteps
<1>4. CASE Raises BY <1>4 DEF Raises, Discarded
<1>5. CASE Dies BY <1>5 DEF Dies, Discarded
<1>6. CASE Request BY <1>6, RequestSteps
<1>7. CASE TimePasses BY <1>7 DEF TimePasses, built
<1>8. CASE UNCHANGED terminalVars BY <1>8 DEF terminalVars
<1> QED
  BY <1>1, <1>2, <1>3, <1>4, <1>5, <1>6, <1>7, <1>8 DEF Next

-----------------------------------------------------------------------------
(* The plan the terminal asks for.                                         *)

RecsTyped ==
  /\ forecast \in [Names -> Int]
  /\ DOMAIN recs \subseteq Names
  /\ \A i \in DOMAIN recs : recs[i].net \in Int

LEMMA BuiltNet ==
  ASSUME forecast \in [Names -> Int], NEW i \in Names, NEW f
  PROVE  Build(i, f).net \in Int
<1> DEFINE won == forecast[i] * TargetPct
           lost == (100 - forecast[i]) * StopPct
<1>1. won \in Int /\ lost \in Int
  BY TerminalAssumption
<1>2. Build(i, f).net = (won - lost) \div 100
  BY DEF Build, Recommendation
<1> HIDE DEF won, lost
<1> QED
  BY <1>1, <1>2

LEMMA PicksTyped ==
  ASSUME RecsTyped, CurrentRecs, UNCHANGED forecast
  PROVE  RecsTyped'
<1> DEFINE C == Scan(FeaturesOn(asOf), Order, TopK)
<1>1. PICK G : /\ G \subseteq Names
               /\ recs' = [i \in G |-> Build(i, FeaturesOn(asOf)[i])]
  <2> DEFINE D == {c \in C : ~Dropped(FeaturesOn(asOf)[c])}
  <2>1. D \subseteq Names
    BY DEF Scan, Passing, FeaturesOn
  <2>2. recs' = [i \in D |-> Build(i, FeaturesOn(asOf)[i])]
    BY DEF CurrentRecs, Picks
  <2> HIDE DEF D
  <2> QED
    BY <2>1, <2>2
<1>2. \A i \in G : recs'[i].net \in Int
  BY <1>1, BuiltNet DEF RecsTyped
<1> QED
  BY <1>1, <1>2 DEF RecsTyped

LEMMA PortfolioPlan ==
  ASSUME RecsTyped, Portfolio
  PROVE  PlanInv'
<1>1. /\ planning' = "exits" /\ slots' = 0
      /\ DOMAIN holdings' = DOMAIN Quantities /\ remaining' = DOMAIN Quantities
      /\ edges' = [i \in Names |-> EdgeOf(i)]
      /\ offers' = [i \in DOMAIN recs |-> [edge |-> recs[i].net, pass |-> TRUE]]
      /\ todo' = DOMAIN recs
  BY DEF Portfolio, Calls
<1>2. \A i \in Names : EdgeOf(i) \in Int
  BY TerminalAssumption DEF EdgeOf, RecsTyped
<1>3. \A n \in DOMAIN recs : offers'[n].edge \in Int
  BY <1>1 DEF RecsTyped
<1>4. IsFiniteSet(DOMAIN Quantities) /\ DOMAIN Quantities \subseteq Names
  BY NamesAreFinite, TerminalAssumption
<1>5. Held' = DOMAIN Quantities
  BY <1>1 DEF Held
<1>6. edges' \in [Names -> Int]
  BY <1>1, <1>2
<1>7. DOMAIN offers' = DOMAIN recs
  BY <1>1
<1>8. PlanTyped'
  BY <1>1, <1>3, <1>4, <1>5, <1>6, <1>7 DEF PlanTyped, RecsTyped
<1> QED
  BY <1>1, <1>8 DEF PlanInv, Going

LEMMA NoPlan ==
  ASSUME NothingPlanned
  PROVE  PlanInv'
<1>1. /\ holdings' = [n \in {} |-> 0] /\ edges' = [n \in Names |-> 0]
      /\ offers' = [n \in {} |-> 0] /\ todo' = {} /\ remaining' = {} /\ slots' = 0
      /\ planning' = "idle"
  BY DEF NothingPlanned
<1>2. Held' = {} /\ IsFiniteSet({})
  BY <1>1, FS_EmptySet DEF Held
<1>3. PlanTyped'
  BY <1>1, <1>2 DEF PlanTyped
<1> QED
  BY <1>1, <1>3 DEF PlanInv, Going

LEMMA PlanUntouched ==
  ASSUME PlanInv, UNCHANGED rotation
  PROVE  PlanInv'
<1>1. UNCHANGED <<cash, holdings, edges, offers, todo, remaining, slots, moves, planning>>
  BY DEF rotation
<1>2. Held' = Held /\ Entered' = Entered /\ Left' = Left
  BY <1>1 DEF Held, Entered, Left
<1>3. /\ \A x : Eligible(x)' = Eligible(x)
      /\ \A x, h : Beats(x, h)' = Beats(x, h)
  BY <1>1, <1>2 DEF Eligible, Beats
<1>4. \A x : PassedBy(x)' = PassedBy(x)
  BY <1>1, <1>2, <1>3 DEF PassedBy
<1>5. PlanTyped' = PlanTyped
  BY <1>1, <1>2 DEF PlanTyped
<1>6. Parted => Parted'
  BY <1>1, <1>2 DEF Parted, About, Apart
<1>7. Counting => Counting'
  BY <1>1, <1>2 DEF Counting
<1>8. Best => Best'
  BY <1>1, <1>2, <1>3, <1>4 DEF Best
<1> QED
  BY <1>1, <1>5, <1>6, <1>7, <1>8 DEF PlanInv, Going

LEMMA PlanStart ==
  ASSUME Init
  PROVE  RecsTyped /\ PlanInv
<1>1. /\ holdings = [n \in {} |-> 0] /\ edges = [n \in Names |-> 0]
      /\ offers = [n \in {} |-> 0] /\ todo = {} /\ remaining = {} /\ slots = 0
      /\ planning = "idle" /\ recs = <<>> /\ forecast \in Forecasts
  BY DEF Init, NoTerminal, NoRotation
<1>2. Held = {} /\ IsFiniteSet({})
  BY <1>1, FS_EmptySet DEF Held
<1>3. PlanTyped
  BY <1>1, <1>2 DEF PlanTyped
<1>4. RecsTyped
  BY <1>1, TerminalAssumption DEF RecsTyped
<1> QED
  BY <1>1, <1>3, <1>4 DEF PlanInv, Going

LEMMA PlanGoesOn ==
  ASSUME RecsTyped, PlanInv, [Next]_terminalVars
  PROVE  RecsTyped' /\ PlanInv'
<1>1. UNCHANGED forecast /\ PlanStep /\ RecsStep
  BY Steps DEF StepKinds
<1>2. RecsTyped'
  <2>1. CASE UNCHANGED recs BY <2>1, <1>1 DEF RecsTyped
  <2>2. CASE recs' = <<>> BY <2>2, <1>1 DEF RecsTyped
  <2>3. CASE CurrentRecs BY <2>3, <1>1, PicksTyped
  <2> QED BY <1>1, <2>1, <2>2, <2>3 DEF RecsStep
<1>3. PlanInv'
  BY <1>1, PlanUntouched, PlanIsKept, NoPlan, PortfolioPlan DEF PlanStep
<1> QED
  BY <1>2, <1>3

\* recommend_rotation: in whatever terminal, built once or again after a step of its
\* build raised, from whatever holdings, edges and candidates, the plan leaves a
\* holding once and only if it is held, enters nothing held, left or entered before,
\* and ends within max_positions, or with no more positions than there were.
THEOREM PlansAreSound == Spec => []PlanIsSound
<1>1. Init => RecsTyped /\ PlanInv
  BY PlanStart
<1>2. RecsTyped /\ PlanInv /\ [Next]_terminalVars => (RecsTyped /\ PlanInv)'
  BY PlanGoesOn
<1>3. PlanInv => PlanIsSound
  BY PlanInvImplies
<1> QED
  BY <1>1, <1>2, <1>3, PTL DEF Spec

\* recommend_rotation: a candidate that could be entered and was not beats no
\* holding that remains, finds no slot, and is no better than any that is entered.
THEOREM PlansAreBest == Spec => []PlanIsBest
<1>1. Init => RecsTyped /\ PlanInv
  BY PlanStart
<1>2. RecsTyped /\ PlanInv /\ [Next]_terminalVars => (RecsTyped /\ PlanInv)'
  BY PlanGoesOn
<1>3. PlanInv => PlanIsBest
  BY PlanInvImplies
<1> QED
  BY <1>1, <1>2, <1>3, PTL DEF Spec

-----------------------------------------------------------------------------
(* The limiter.  g are the calls allowed of a key, w the window it is in,  *)
(* c the time: a call falls in its window, the call Limit places on falls  *)
(* in a later one, and only the last w[2] calls fall in w.                 *)

CallsOf(g) == g \in Seq(Int \X Int)
Within(g, c) ==
  \A n \in 1..Len(g) : g[n][2] <= g[n][1] /\ g[n][1] < g[n][2] + Window /\ g[n][1] <= c
Spaced(g) ==
  \A n \in 1..Len(g) : n + Limit \in 1..Len(g) => g[n + Limit][2] >= g[n][2] + Window
Opened(g, w, c) ==
  /\ w[1] \in Int /\ w[2] \in Nat /\ w[2] <= Limit /\ w[1] <= c /\ w[2] <= Len(g)
  /\ \A n \in 1..Len(g) : g[n][2] <= w[1] /\ (n <= Len(g) - w[2] => g[n][2] + Window <= w[1])

Fair(g, c) == CallsOf(g) /\ Within(g, c) /\ Spaced(g)
LimiterInv ==
  /\ clock \in Int /\ DOMAIN granted = Keys
  /\ \A k \in Keys :
       /\ Fair(granted[k], clock)
       /\ k \notin DOMAIN windows => granted[k] = <<>>
       /\ k \in DOMAIN windows => Opened(granted[k], windows[k], clock)

LEMMA OneMore ==
  ASSUME NEW g, NEW c \in Int, NEW w, Fair(g, c), Opened(g, w, c), w[2] < Limit,
         c < w[1] + Window
  PROVE  Fair(Append(g, <<c, w[1]>>), c) /\ Opened(Append(g, <<c, w[1]>>), <<w[1], w[2] + 1>>, c)
<1> DEFINE h == Append(g, <<c, w[1]>>)
<1>1. /\ h \in Seq(Int \X Int) /\ Len(h) = Len(g) + 1 /\ Len(g) \in Nat
      /\ \A n \in 1..Len(g) : h[n] = g[n] /\ g[n][1] \in Int /\ g[n][2] \in Int
      /\ h[Len(g) + 1] = <<c, w[1]>>
  BY DEF Fair, CallsOf, Opened
<1>2. \A n \in 1..Len(h) : n \in 1..Len(g) \/ n = Len(g) + 1
  BY <1>1
<1>3. /\ w[1] \in Int /\ w[2] \in Nat /\ w[1] <= c /\ w[2] <= Len(g) /\ Limit \in Nat \ {0}
      /\ w[2] < Limit
  BY LimiterAssumption DEF Opened
<1>4. h[Len(g) + 1][1] = c /\ h[Len(g) + 1][2] = w[1]
  BY <1>1
<1> HIDE DEF h
<1>5. Within(h, c)
  <2>1. \A n \in 1..Len(g) : h[n][2] <= h[n][1] /\ h[n][1] < h[n][2] + Window /\ h[n][1] <= c
    BY <1>1 DEF Within, Fair
  <2>2. w[1] <= c /\ c < w[1] + Window /\ c <= c
    BY <1>3
  <2> QED
    BY <2>1, <2>2, <1>2, <1>4 DEF Within
<1>6. Spaced(h)
  <2> SUFFICES ASSUME NEW n \in 1..Len(h), n + Limit \in 1..Len(h)
               PROVE  h[n + Limit][2] >= h[n][2] + Window
    BY DEF Spaced
  <2>1. n \in 1..Len(g)
    BY <1>1, <1>3
  <2>2. CASE n + Limit \in 1..Len(g)
    BY <2>1, <2>2, <1>1 DEF Fair, Spaced
  <2>3. CASE n + Limit = Len(g) + 1
    <3>1. n <= Len(g) - w[2]
      <4>1. PICK count \in Nat : count = w[2]
        BY <1>3
      <4>2. PICK size \in Nat : size = Len(g)
        BY <1>1
      <4>3. n \in Nat /\ n + Limit = size + 1 /\ count < Limit /\ Limit \in Nat
        BY <4>1, <4>2, <1>3, <2>1, <2>3
      <4>4. n <= size - count
        BY <4>3
      <4> QED
        BY <4>1, <4>2, <4>4
    <3>2. g[n][2] + Window <= w[1] /\ h[n] = g[n] /\ g[n][2] \in Int
      BY <3>1, <2>1, <1>1 DEF Opened
    <3> QED
      BY <3>2, <2>3, <1>3, <1>4, LimiterAssumption
  <2> QED
    BY <2>2, <2>3, <1>2
<1>7. Opened(h, <<w[1], w[2] + 1>>, c)
  <2>1. \A n \in 1..Len(g) :
          /\ h[n][2] <= w[1]
          /\ n <= Len(g) - w[2] => h[n][2] + Window <= w[1]
    BY <1>1 DEF Opened
  <2>2. \A n \in 1..Len(h) :
          /\ h[n][2] <= w[1]
          /\ n <= Len(h) - (w[2] + 1) => h[n][2] + Window <= w[1]
    <3> SUFFICES ASSUME NEW n \in 1..Len(h)
                 PROVE  /\ h[n][2] <= w[1]
                        /\ n <= Len(h) - (w[2] + 1) => h[n][2] + Window <= w[1]
      OBVIOUS
    <3>1. Len(h) - (w[2] + 1) = Len(g) - w[2]
      <4>1. PICK size \in Nat, count \in Nat : size = Len(g) /\ count = w[2]
        BY <1>1, <1>3
      <4>2. Len(h) = size + 1
        BY <4>1, <1>1
      <4>3. (size + 1) - (count + 1) = size - count
        BY <4>1
      <4> QED
        BY <4>1, <4>2, <4>3
    <3>2. CASE n \in 1..Len(g)
      BY <3>1, <3>2, <2>1
    <3>3. CASE n = Len(g) + 1
      <4>1. w[2] \in Nat /\ Len(g) \in Nat
        BY <1>1, <1>3
      <4>2. ~(n <= Len(g) - w[2])
        BY <4>1, <3>3
      <4>3. h[n][2] <= w[1]
        BY <1>3, <1>4, <3>3
      <4> QED
        BY <3>1, <4>2, <4>3
    <3> QED
      BY <3>2, <3>3, <1>2
  <2>3. w[2] + 1 <= Limit
    BY <1>3
  <2> QED
    BY <2>2, <2>3, <1>1, <1>3 DEF Opened
<1> QED
  BY <1>1, <1>5, <1>6, <1>7 DEF Fair, CallsOf, h

\* The window a call falls in is open, and has not ended.
LEMMA CurrentIsOpen ==
  ASSUME LimiterInv, NEW k \in Keys
  PROVE  Opened(granted[k], Current(k), clock) /\ clock < Current(k)[1] + Window
<1>1. clock \in Int /\ Fair(granted[k], clock) /\ Limit \in Nat \ {0} /\ Window \in Nat \ {0}
  BY LimiterAssumption DEF LimiterInv
<1>2. /\ Len(granted[k]) \in Nat
      /\ \A n \in 1..Len(granted[k]) : granted[k][n][2] \in Int
  BY <1>1 DEF Fair, CallsOf
<1>3. CASE k \notin DOMAIN windows
  <2>1. Current(k) = <<clock, 0>> /\ granted[k] = <<>>
    BY <1>3 DEF Current, LimiterInv
  <2> QED
    BY <2>1, <1>1 DEF Opened
<1>4. CASE k \in DOMAIN windows /\ clock - windows[k][1] >= Window
  <2>1. Current(k) = <<clock, 0>> /\ Opened(granted[k], windows[k], clock)
    BY <1>4 DEF Current, LimiterInv
  <2>2. \A n \in 1..Len(granted[k]) : granted[k][n][2] <= windows[k][1]
    BY <2>1 DEF Opened
  <2>3. windows[k][1] \in Int
    BY <2>1 DEF Opened
  <2>4. \A n \in 1..Len(granted[k]) :
          granted[k][n][2] <= clock /\ granted[k][n][2] + Window <= clock
    BY <2>2, <2>3, <1>1, <1>2, <1>4
  <2> QED
    BY <2>1, <2>4, <1>1, <1>2 DEF Opened
<1>5. CASE k \in DOMAIN windows /\ ~(clock - windows[k][1] >= Window)
  <2>1. Current(k) = windows[k] /\ Opened(granted[k], windows[k], clock)
    BY <1>5 DEF Current, LimiterInv
  <2>2. windows[k][1] \in Int
    BY <2>1 DEF Opened
  <2> QED
    BY <2>1, <2>2, <1>1, <1>5
<1> QED
  BY <1>3, <1>4, <1>5

LEMMA LimiterGoesOn ==
  ASSUME LimiterInv, LimiterStep
  PROVE  LimiterInv'
<1>1. CASE UNCHANGED limiter
  BY <1>1 DEF limiter, LimiterInv
<1>2. CASE Allow("chat")
  <2>1. PICK w : /\ w = Current("chat") /\ w[2] < Limit
                 /\ windows' = Counted("chat", <<w[1], w[2] + 1>>)
                 /\ granted' = [granted EXCEPT !["chat"] = Append(@, <<clock, w[1]>>)]
                 /\ clock' = clock
    BY <1>2 DEF Allow
  <2>2. ASSUME NEW k \in Keys, k # "chat"
        PROVE  /\ granted'[k] = granted[k] /\ (k \in DOMAIN windows' <=> k \in DOMAIN windows)
               /\ k \in DOMAIN windows => windows'[k] = windows[k]
    BY <2>1, <2>2 DEF Counted, LimiterInv
  <2>3. ASSUME "chat" \in Keys
        PROVE  /\ Fair(granted'["chat"], clock) /\ "chat" \in DOMAIN windows'
               /\ Opened(granted'["chat"], windows'["chat"], clock)
    <3>1. /\ granted'["chat"] = Append(granted["chat"], <<clock, w[1]>>)
          /\ "chat" \in DOMAIN windows' /\ windows'["chat"] = <<w[1], w[2] + 1>>
      BY <2>1, <2>3 DEF Counted, LimiterInv
    <3>2. Fair(granted["chat"], clock) /\ clock \in Int
      BY <2>3 DEF LimiterInv
    <3>3. Opened(granted["chat"], w, clock) /\ clock < w[1] + Window
      BY <2>1, <2>3, CurrentIsOpen
    <3> QED
      BY <3>1, <3>2, <3>3, <2>1, OneMore
  <2>4. DOMAIN granted' = Keys
    BY <2>1 DEF LimiterInv
  <2> QED
    BY <2>1, <2>2, <2>3, <2>4 DEF LimiterInv
<1>3. CASE Refuse("chat")
  <2>1. PICK w : /\ w = Current("chat") /\ windows' = Counted("chat", w)
                 /\ UNCHANGED <<clock, granted>>
    BY <1>3 DEF Refuse
  <2>2. ASSUME NEW k \in Keys, k # "chat"
        PROVE  /\ k \in DOMAIN windows' <=> k \in DOMAIN windows
               /\ k \in DOMAIN windows => windows'[k] = windows[k]
    BY <2>1, <2>2 DEF Counted
  <2>3. ASSUME "chat" \in Keys
        PROVE  "chat" \in DOMAIN windows' /\ Opened(granted["chat"], windows'["chat"], clock)
    BY <2>1, <2>3, CurrentIsOpen DEF Counted
  <2> QED
    BY <2>1, <2>2, <2>3 DEF LimiterInv
<1>4. CASE Elapses(clock + 1)
  <2>1. clock' = clock + 1 /\ UNCHANGED <<windows, granted>> /\ clock \in Int
    BY <1>4 DEF Elapses, LimiterInv
  <2>2. ASSUME NEW k \in Keys
        PROVE  /\ Fair(granted[k], clock')
               /\ Opened(granted[k], windows[k], clock) => Opened(granted[k], windows[k], clock')
    <3>1. CallsOf(granted[k]) /\ Within(granted[k], clock) /\ Spaced(granted[k])
      BY DEF LimiterInv, Fair
    <3>2. \A n \in 1..Len(granted[k]) : granted[k][n][1] \in Int
      BY <3>1 DEF CallsOf
    <3>3. Within(granted[k], clock')
      BY <2>1, <3>1, <3>2 DEF Within
    <3>4. Opened(granted[k], windows[k], clock) => Opened(granted[k], windows[k], clock')
      BY <2>1 DEF Opened
    <3> QED
      BY <3>1, <3>3, <3>4 DEF Fair
  <2> QED
    BY <2>1, <2>2 DEF LimiterInv
<1>5. CASE NewLimiter
  <2>1. clock' = 0 /\ DOMAIN windows' = {} /\ granted' = [k \in Keys |-> <<>>]
    BY <1>5 DEF NewLimiter
  <2>2. Fair(<<>>, 0)
    BY DEF Fair, CallsOf, Within, Spaced
  <2> QED
    BY <2>1, <2>2 DEF LimiterInv
<1> QED
  BY <1>1, <1>2, <1>3, <1>4, <1>5 DEF LimiterStep

\* RateLimiter.allow as the chat of the terminal uses it: around the end of a window
\* at most twice the limit passes, for any limit and window and however long it
\* serves: the first and the last of 2 * Limit + 1 successive calls allowed are more
\* than a window apart.
THEOREM TwiceTheLimitAtMost == Spec => []TwiceTheLimit
<1>1. Init => LimiterInv
  <2> SUFFICES ASSUME Init PROVE LimiterInv
    OBVIOUS
  <2>1. clock = 0 /\ DOMAIN windows = {} /\ granted = [k \in Keys |-> <<>>]
    BY DEF Init, NoTerminal, LimiterInit
  <2>2. Fair(<<>>, 0)
    BY DEF Fair, CallsOf, Within, Spaced
  <2> QED
    BY <2>1, <2>2 DEF LimiterInv
<1>2. LimiterInv /\ [Next]_terminalVars => LimiterInv'
  BY Steps, LimiterGoesOn DEF StepKinds
<1>3. LimiterInv => TwiceTheLimit
  <2> SUFFICES ASSUME LimiterInv, NEW k \in Keys, NEW n \in 1..Len(granted[k]),
                      n + 2 * Limit \in 1..Len(granted[k])
               PROVE  granted[k][n + 2 * Limit][1] - granted[k][n][1] > Window
    BY DEF TwiceTheLimit
  <2>1. PICK g : g = granted[k]
    OBVIOUS
  <2>2. CallsOf(g) /\ Within(g, clock) /\ Spaced(g)
    BY <2>1 DEF LimiterInv, Fair
  <2>3. /\ Limit \in Nat \ {0} /\ Window \in Nat /\ Len(g) \in Nat /\ n \in 1..Len(g)
        /\ n + 2 * Limit \in 1..Len(g)
    BY <2>1, <2>2, LimiterAssumption DEF CallsOf
  <2>4. PICK m : m = n + Limit
    OBVIOUS
  <2>5. m \in 1..Len(g) /\ m + Limit \in 1..Len(g) /\ m + Limit = n + 2 * Limit
    BY <2>3, <2>4
  <2>6. g[m][2] >= g[n][2] + Window /\ g[m + Limit][2] >= g[m][2] + Window
    BY <2>2, <2>3, <2>4, <2>5 DEF Spaced
  <2>7. /\ g[n][1] \in Int /\ g[n][2] \in Int /\ g[m][2] \in Int
        /\ g[m + Limit][1] \in Int /\ g[m + Limit][2] \in Int
    <3>1. \A j \in 1..Len(g) : g[j][1] \in Int /\ g[j][2] \in Int
      BY <2>2 DEF CallsOf
    <3> QED
      BY <3>1, <2>3, <2>5
  <2>8. g[n][1] < g[n][2] + Window /\ g[m + Limit][2] <= g[m + Limit][1]
    BY <2>2, <2>3, <2>5 DEF Within
  <2>9. g[m + Limit][1] - g[n][1] > Window
    <3>1. \A a, b, d, e, f \in Int :
            a < b + Window /\ d >= b + Window /\ e >= d + Window /\ e <= f => f - a > Window
      BY <2>3
    <3> QED
      BY <3>1, <2>6, <2>7, <2>8
  <2> QED
    BY <2>1, <2>5, <2>9
<1> QED
  BY <1>1, <1>2, <1>3, PTL DEF Spec

-----------------------------------------------------------------------------
(* What is shown.  Until there are recommendations nothing is planned and  *)
(* no alert is out; from then on offers, alerts and the rows of the        *)
(* logbook are of recommendations, and a new logbook starts with no rows.  *)

Early == stage \in {"down", "up", "train", "track", "recs"}
Approved ==
  \A i \in DOMAIN recs :
    recs[i].quantity > 0 /\ recs[i].verdict # "VETO" /\ i \notin DOMAIN vetoed
Planless == planning \in {"idle", "exits"} => moves = {}
Calm == Early => planning = "idle" /\ DOMAIN offers = {} /\ engine.delivered = <<>>
AlertsTyped == \E T : engine.delivered \in Seq(T)
ToLog == stage \in {"recommendations", "decision"} => left \subseteq DOMAIN recs
Booked ==
  Logging =>
    /\ \E T : tables["recommendation"] \in Seq(T)
    /\ NamesIn(tables["recommendation"]) \subseteq DOMAIN recs

ShownInv ==
  /\ Approved /\ planning \in {"idle", "exits", "candidates", "done"}
  /\ Planless /\ Calm /\ DOMAIN offers \subseteq DOMAIN recs
  /\ AlertsTyped /\ Offered \subseteq DOMAIN recs
  /\ ToLog /\ Booked

shown == <<recs, vetoed, offers, planning, moves, engine>>

\* A step that only writes the logbook, or goes from one stage to the next.
LEMMA ShownUntouched ==
  ASSUME ShownInv, UNCHANGED shown, Early' => Early,
         stage' \in {"recommendations", "decision"} => left' \subseteq DOMAIN recs,
         Booked'
  PROVE  ShownInv'
<1>1. UNCHANGED <<recs, vetoed, offers, planning, moves, engine>>
  BY DEF shown
<1>2. Approved' /\ Planless' /\ Calm' /\ AlertsTyped' /\ ToLog'
  BY <1>1 DEF ShownInv, Approved, Planless, Calm, AlertsTyped, ToLog
<1>3. Offered' = Offered
  BY <1>1 DEF Offered
<1> QED
  BY <1>1, <1>2, <1>3 DEF ShownInv

\* The tables are left alone, and the stage is as much the logbook's as it was.
LEMMA BookUntouched ==
  ASSUME ShownInv, UNCHANGED <<recs, tables>>, Logging' => Logging
  PROVE  Booked'
BY DEF ShownInv, Booked, NamesIn

LEMMA SizedOrNothing ==
  ASSUME NEW f, ~Dropped(f)
  PROVE  Quantity(f) > 0 /\ AssessRisk(RiskOf(f)) # "VETO"
<1>1. \A entry, stop, turnover, d, sector :
        \/ SizePosition(entry, stop, turnover, d, sector) = 0
        \/ SizePosition(entry, stop, turnover, d, sector) > 0
  <2> SUFFICES ASSUME NEW entry, NEW stop, NEW turnover, NEW d, NEW sector
               PROVE  \/ SizePosition(entry, stop, turnover, d, sector) = 0
                      \/ SizePosition(entry, stop, turnover, d, sector) > 0
    OBVIOUS
  <2> DEFINE caps == Caps(entry, stop, turnover, d, sector)
             least == CHOOSE q \in {caps[c] : c \in DOMAIN caps} : \A c \in DOMAIN caps : q <= caps[c]
  <2>1. SizePosition(entry, stop, turnover, d, sector)
          = IF entry <= stop \/ entry <= 0 THEN 0 ELSE IF least > 0 THEN least ELSE 0
    BY Zenon DEF SizePosition
  <2> HIDE DEF least
  <2> QED
    BY <2>1
<1>2. Quantity(f) = 0 \/ Quantity(f) > 0
  BY <1>1 DEF Quantity
<1> QED
  BY <1>2 DEF Dropped

LEMMA PicksShown ==
  ASSUME ShownInv, CurrentRecs
  PROVE  ShownInv'
<1>1. PICK C, F :
        /\ recs' = [i \in {c \in C : ~Dropped(F[c])} |-> Build(i, F[i])]
        /\ vetoed' = [i \in {c \in C : Dropped(F[c])} |-> Refusal(F[i])]
  BY DEF CurrentRecs, Picks
<1>2. ASSUME NEW i \in DOMAIN recs'
      PROVE  recs'[i].quantity > 0 /\ recs'[i].verdict # "VETO" /\ i \notin DOMAIN vetoed'
  <2>1. ~Dropped(F[i]) /\ recs'[i] = Build(i, F[i]) /\ i \notin DOMAIN vetoed'
    BY <1>1
  <2>2. /\ Build(i, F[i]).quantity = Quantity(F[i])
        /\ Build(i, F[i]).verdict = AssessRisk(RiskOf(F[i]))
    BY DEF Build, Recommendation
  <2> QED
    BY <2>1, <2>2, SizedOrNothing
<1>3. Approved'
  BY <1>2 DEF Approved
<1>4. /\ stage = "recs" /\ stage' = "portfolio"
      /\ UNCHANGED <<offers, planning, moves, engine, tables>>
  BY DEF CurrentRecs, rotation, alerting, book
<1>5. DOMAIN offers' = {} /\ engine'.delivered = <<>> /\ planning' = "idle"
  BY <1>4 DEF ShownInv, Calm, Early
<1>6. Offered' = {}
  BY <1>5 DEF Offered
<1>7. Planless' /\ Calm' /\ AlertsTyped' /\ ToLog' /\ Booked'
  BY <1>4, <1>5 DEF ShownInv, Planless, Calm, Early, AlertsTyped, ToLog, Booked, Logging
<1> QED
  BY <1>3, <1>5, <1>6, <1>7 DEF ShownInv

LEMMA PortfolioShows ==
  ASSUME ShownInv, Portfolio
  PROVE  ShownInv'
<1>1. /\ stage = "portfolio" /\ stage' = "rotation" /\ UNCHANGED <<recs, vetoed, engine, tables>>
      /\ planning' = "exits" /\ moves' = {}
      /\ offers' = [i \in DOMAIN recs |-> [edge |-> recs[i].net, pass |-> TRUE]]
  BY DEF Portfolio, Calls, picks, alerting, book
<1>2. Offered' = Offered /\ DOMAIN offers' = DOMAIN recs
  BY <1>1 DEF Offered
<1>3. Approved' /\ Planless' /\ Calm' /\ AlertsTyped' /\ ToLog' /\ Booked'
  BY <1>1
     DEF ShownInv, Approved, Planless, Calm, Early, AlertsTyped, ToLog, Booked, Logging
<1> QED
  BY <1>1, <1>2, <1>3 DEF ShownInv

LEMMA PlansShow ==
  ASSUME ShownInv, Plans
  PROVE  ShownInv'
<1>1. /\ stage = "rotation" /\ stage' \in {"rotation", "alerts"}
      /\ UNCHANGED <<recs, vetoed, engine, tables>>
      /\ Rotate
  BY DEF Plans, picks, alerting, book
<1>2. UNCHANGED offers /\ planning' \in {"candidates", "done"}
  BY <1>1 DEF Rotate, Exits, Consider, Planned
<1>3. Offered' = Offered
  BY <1>1 DEF Offered
<1>4. Approved' /\ Planless' /\ Calm' /\ AlertsTyped' /\ ToLog' /\ Booked'
  BY <1>1, <1>2
     DEF ShownInv, Approved, Planless, Calm, Early, AlertsTyped, ToLog, Booked, Logging
<1> QED
  BY <1>1, <1>2, <1>3, <1>4 DEF ShownInv

LEMMA AlertShows ==
  ASSUME ShownInv, RaiseAlert
  PROVE  ShownInv'
<1>1. PICK i, a :
        /\ a = IF i \in DOMAIN recs THEN NewOpportunity(i, asOf) ELSE RiskVetoed(i, vetoed[i].flags)
        /\ engine' = Emitted(engine, a, Quiet, hour)
  BY DEF RaiseAlert
<1>2. stage = "alerts" /\ stage' = stage /\ UNCHANGED <<recs, vetoed, offers, planning, moves, tables>>
  BY DEF RaiseAlert, picks, rotation, book
<1>3. a.type = "new_opportunity" => a.name \in DOMAIN recs
  BY <1>1 DEF NewOpportunity, RiskVetoed, Alert
<1>4. PICK T, d : d = engine.delivered /\ d \in Seq(T) /\ Len(d) \in Nat
  BY DEF ShownInv, AlertsTyped
<1>5. engine'.delivered = Append(d, a) \/ engine'.delivered = d
  BY <1>1, <1>4 DEF Emitted
<1>6. AlertsTyped'
  <2>1. Append(d, a) \in Seq(T \cup {a}) /\ d \in Seq(T)
    BY <1>4
  <2> QED
    BY <2>1, <1>5 DEF AlertsTyped
<1>7. Offered' \subseteq DOMAIN recs
  <2>1. \A k \in 1..Len(d) : d[k].type = "new_opportunity" => d[k].name \in DOMAIN recs
    BY <1>4 DEF ShownInv, Offered
  <2>2. CASE engine'.delivered = d
    BY <2>1, <2>2 DEF Offered
  <2>3. CASE engine'.delivered = Append(d, a)
    <3>1. PICK e : e = Append(d, a)
      OBVIOUS
    <3>2. /\ Len(e) = Len(d) + 1 /\ e[Len(d) + 1] = a
          /\ \A k \in 1..Len(d) : e[k] = d[k]
      BY <3>1, <1>4
    <3>3. \A k \in 1..Len(e) : e[k].type = "new_opportunity" => e[k].name \in DOMAIN recs
      BY <3>2, <2>1, <1>3, <1>4
    <3> QED
      BY <3>1, <3>3, <2>3 DEF Offered
  <2> QED
    BY <2>2, <2>3, <1>5
<1>8. Approved' /\ Planless' /\ Calm' /\ ToLog' /\ Booked'
  BY <1>2 DEF ShownInv, Approved, Planless, Calm, Early, ToLog, Booked, Logging
<1> QED
  BY <1>2, <1>6, <1>7, <1>8 DEF ShownInv

-----------------------------------------------------------------------------
(* The logbook.                                                            *)

LEMMA AddElsewhere ==
  ASSUME NEW t, t # "recommendation", NEW fields, Add(t, fields)
  PROVE  tables'["recommendation"] = tables["recommendation"]
<1>1. "recommendation" \in Tables
  BY DEF Tables, Required
<1> QED
  BY <1>1 DEF Add, Commits

LEMMA AddRecommendation ==
  ASSUME NEW fields, Add("recommendation", fields),
         "instrument_id" \in DOMAIN fields,
         NEW T, tables["recommendation"] \in Seq(T)
  PROVE  /\ \E U : tables'["recommendation"] \in Seq(U)
         /\ NamesIn(tables'["recommendation"])
              \subseteq NamesIn(tables["recommendation"]) \cup {fields.instrument_id}
<1>1. "recommendation" \in Tables
  BY DEF Tables, Required
<1>2. PICK old : old = tables["recommendation"]
  OBVIOUS
<1>3. PICK new : new = Rows("recommendation", <<fields>>)
  OBVIOUS
<1>4. tables'["recommendation"] = old \o new
  BY <1>1, <1>2, <1>3 DEF Add, Commits
<1>5. PICK row : row = With(fields, "id", <<"recommendation", Len(old) + 1>>)
  OBVIOUS
<1>6. row.instrument_id = fields.instrument_id
  BY <1>5 DEF With
<1>7. new = <<row>>
  <2>1. Len(<<fields>>) = 1 /\ <<fields>>[1] = fields
    OBVIOUS
  <2>2. new = [k \in 1..1 |-> With(<<fields>>[k], "id", <<"recommendation", Len(old) + k>>)]
    BY <1>2, <1>3, <2>1 DEF Rows
  <2>3. DOMAIN new = 1..1 /\ new[1] = row
    BY <2>1, <2>2, <1>5
  <2>4. \A k \in 1..1 : k = 1
    OBVIOUS
  <2> QED
    BY <2>2, <2>3, <2>4
<1>8. PICK all : all = old \o <<row>>
  OBVIOUS
<1>9. /\ old \in Seq(T) /\ Len(old) \in Nat /\ all \in Seq(T \cup {row}) /\ Len(all) = Len(old) + 1
      /\ \A k \in 1..Len(old) : all[k] = old[k]
      /\ all[Len(old) + 1] = row
  BY <1>2, <1>8
<1>10. \A k \in 1..Len(all) : k \in 1..Len(old) \/ k = Len(old) + 1
  BY <1>9
<1>11. NamesIn(all) \subseteq NamesIn(old) \cup {fields.instrument_id}
  BY <1>6, <1>9, <1>10 DEF NamesIn
<1> QED
  BY <1>2, <1>4, <1>7, <1>8, <1>9, <1>11

\* The list the loop over the recommendations is in has a first one.
LEMMA FirstIsOne ==
  ASSUME NEW S, S \subseteq Names, S # {}
  PROVE  First(S) \in S
<1>1. IsFiniteSet(S) /\ \A i \in S : Order[i] \in Int
  BY NamesAreFinite, TerminalAssumption
<1>2. \E i \in S : \A j \in S : Order[i] <= Order[j]
  BY <1>1, LeastEdge
<1> QED
  BY <1>2 DEF First

LEMMA RecommendationShows ==
  ASSUME ShownInv, RecsTyped, LogRecommendation
  PROVE  ShownInv'
<1>1. /\ stage = "recommendations" /\ stage' = "decision" /\ left # {} /\ UNCHANGED left
      /\ UNCHANGED shown
  BY DEF LogRecommendation, unlogged, picks, rotation, alerting, shown
<1>2. First(left) \in DOMAIN recs
  <2>1. left \subseteq DOMAIN recs /\ left \subseteq Names
    BY <1>1 DEF ShownInv, ToLog, RecsTyped
  <2> QED
    BY <2>1, <1>1, FirstIsOne
<1>3. PICK fields : /\ Add("recommendation", fields)
                    /\ "instrument_id" \in DOMAIN fields /\ fields.instrument_id = First(left)
  BY DEF LogRecommendation
<1>4. /\ NamesIn(tables["recommendation"]) \subseteq DOMAIN recs
      /\ \E T : tables["recommendation"] \in Seq(T)
  BY <1>1 DEF ShownInv, Booked, Logging
<1>5. /\ \E U : tables'["recommendation"] \in Seq(U)
      /\ NamesIn(tables'["recommendation"]) \subseteq DOMAIN recs
  BY <1>2, <1>3, <1>4, AddRecommendation
<1>6. Booked'
  BY <1>1, <1>5 DEF Booked, shown, NamesIn
<1> QED
  BY <1>1, <1>6, ShownUntouched DEF Early, ShownInv, ToLog

\* The rows of the other tables.
LEMMA OtherRowsShow ==
  ASSUME ShownInv, UNCHANGED shown, Early' => Early, Logging' => Logging,
         stage' \in {"recommendations", "decision"} => left' \subseteq DOMAIN recs,
         tables'["recommendation"] = tables["recommendation"]
  PROVE  ShownInv'
<1>1. Booked'
  BY DEF ShownInv, Booked, NamesIn, shown
<1> QED
  BY <1>1, ShownUntouched

LEMMA SetupShows ==
  ASSUME ShownInv, LogbookSetup
  PROVE  ShownInv'
<1>1. /\ stage = "setup" /\ stage' = "snapshot" /\ tables' = Created /\ UNCHANGED shown
  BY DEF LogbookSetup, unlogged, picks, rotation, alerting, shown
<1>2. tables'["recommendation"] = <<>>
  BY <1>1 DEF Created, Tables, Required
<1>3. NamesIn(<<>>) = {} /\ <<>> \in Seq({})
  BY DEF NamesIn
<1>4. Booked'
  BY <1>2, <1>3 DEF Booked, NamesIn
<1> QED
  BY <1>1, <1>4, ShownUntouched DEF Early

LEMMA LogbookShows ==
  ASSUME ShownInv,
         \/ LogSnapshot \/ LogDecision \/ RecommendationsLogged \/ LogVeto \/ LogPlan
         \/ LogFill \/ LogAlert \/ Serves
  PROVE  ShownInv'
<1> USE DEF unlogged, picks, rotation, alerting, shown, Early, Logging
<1>1. CASE LogSnapshot
  <2>1. tables'["recommendation"] = tables["recommendation"]
    BY <1>1 DEF LogSnapshot, RecordPortfolioSnapshot, Commits, Tables, Required
  <2>2. /\ UNCHANGED shown /\ stage = "snapshot" /\ stage' = "recommendations"
        /\ left' = DOMAIN recs
    BY <1>1 DEF LogSnapshot
  <2> QED
    BY <2>1, <2>2, OtherRowsShow
<1>2. CASE LogDecision
  <2>1. tables'["recommendation"] = tables["recommendation"]
    BY <1>2, AddElsewhere DEF LogDecision
  <2>2. /\ UNCHANGED shown /\ stage = "decision" /\ stage' = "recommendations"
        /\ left' \subseteq left
    BY <1>2 DEF LogDecision
  <2> QED
    BY <2>1, <2>2, OtherRowsShow DEF ShownInv, ToLog
<1>3. CASE RecommendationsLogged
  <2>1. /\ UNCHANGED shown /\ stage = "recommendations" /\ stage' = "vetoes"
        /\ UNCHANGED tables
    BY <1>3 DEF RecommendationsLogged, book
  <2> QED
    BY <2>1, OtherRowsShow
<1>4. CASE LogVeto
  <2>1. tables'["recommendation"] = tables["recommendation"]
    BY <1>4, AddElsewhere DEF LogVeto
  <2>2. UNCHANGED shown /\ stage = "vetoes" /\ stage' = "vetoes"
    BY <1>4 DEF LogVeto
  <2> QED
    BY <2>1, <2>2, OtherRowsShow
<1>5. CASE LogPlan
  <2>1. tables'["recommendation"] = tables["recommendation"]
    BY <1>5 DEF LogPlan, RecordDailyPlan, Commits, Tables, Required
  <2>2. UNCHANGED shown /\ stage = "vetoes" /\ stage' = "fills"
    BY <1>5 DEF LogPlan
  <2> QED
    BY <2>1, <2>2, OtherRowsShow
<1>6. CASE LogFill
  <2>1. tables'["recommendation"] = tables["recommendation"]
    BY <1>6, AddElsewhere DEF LogFill
  <2>2. UNCHANGED shown /\ stage = "fills" /\ stage' = "fills"
    BY <1>6 DEF LogFill
  <2> QED
    BY <2>1, <2>2, OtherRowsShow
<1>7. CASE LogAlert
  <2>1. tables'["recommendation"] = tables["recommendation"]
    BY <1>7, AddElsewhere DEF LogAlert
  <2>2. UNCHANGED shown /\ stage = "fills" /\ stage' = "fills"
    BY <1>7 DEF LogAlert
  <2> QED
    BY <2>1, <2>2, OtherRowsShow
<1>8. CASE Serves
  <2>1. UNCHANGED shown /\ stage = "fills" /\ stage' = "serving" /\ UNCHANGED tables
    BY <1>8 DEF Serves, book
  <2> QED
    BY <2>1, OtherRowsShow
<1> QED
  BY <1>1, <1>2, <1>3, <1>4, <1>5, <1>6, <1>7, <1>8

LEMMA BuildShows ==
  ASSUME ShownInv, RecsTyped, BuildStep
  PROVE  ShownInv'
<1>1. CASE Train \/ PaperTrack
  <2>1. /\ UNCHANGED shown /\ UNCHANGED tables /\ stage \in {"train", "track"}
        /\ stage' \in {"track", "recs"}
    BY <1>1 DEF Train, PaperTrack, picks, rotation, alerting, book, shown
  <2> QED
    BY <2>1, OtherRowsShow DEF Early, Logging
<1>2. CASE Observability
  <2>1. /\ UNCHANGED shown /\ UNCHANGED tables /\ stage = "alerts" /\ stage' = "setup"
    BY <1>2 DEF Observability, picks, rotation, alerting, book, shown
  <2> QED
    BY <2>1, OtherRowsShow DEF Early, Logging
<1> QED
  BY <1>1, <1>2, PicksShown, PortfolioShows, PlansShow, AlertShows, SetupShows,
     RecommendationShows, LogbookShows DEF BuildStep

LEMMA NothingShown ==
  ASSUME stage' \in {"down", "up"}, Discarded
  PROVE  ShownInv'
<1>1. /\ recs' = <<>> /\ vetoed' = <<>> /\ offers' = [n \in {} |-> 0] /\ planning' = "idle"
      /\ moves' = {} /\ engine' = NewEngine
  BY DEF Discarded, NothingPlanned
<1>2. engine'.delivered = <<>> /\ <<>> \in Seq({})
  BY <1>1 DEF NewEngine
<1>3. DOMAIN offers' = {} /\ DOMAIN recs' = {}
  BY <1>1
<1>4. Offered' = {}
  BY <1>2 DEF Offered
<1>5. Approved' /\ Planless' /\ Calm' /\ AlertsTyped' /\ ToLog' /\ Booked'
  BY <1>1, <1>2, <1>3
     DEF Approved, Planless, Calm, AlertsTyped, ToLog, Booked, Logging
<1> QED
  BY <1>1, <1>3, <1>4, <1>5 DEF ShownInv

LEMMA ShownStart == ASSUME Init PROVE ShownInv
<1>1. /\ recs = <<>> /\ vetoed = <<>> /\ offers = [n \in {} |-> 0] /\ planning = "idle"
      /\ moves = {} /\ engine = NewEngine /\ stage = "down"
  BY DEF Init, NoTerminal, NoRotation
<1>2. engine.delivered = <<>> /\ <<>> \in Seq({})
  BY <1>1 DEF NewEngine
<1>3. DOMAIN offers = {} /\ DOMAIN recs = {}
  BY <1>1
<1>4. Offered = {}
  BY <1>2 DEF Offered
<1>5. Approved /\ Planless /\ Calm /\ AlertsTyped /\ ToLog /\ Booked
  BY <1>1, <1>2, <1>3
     DEF Approved, Planless, Calm, AlertsTyped, ToLog, Booked, Logging
<1> QED
  BY <1>1, <1>3, <1>4, <1>5 DEF ShownInv

LEMMA RequestShows ==
  ASSUME ShownInv, Request \/ TimePasses
  PROVE  ShownInv'
<1>1. UNCHANGED shown /\ stage = "serving" /\ stage' = "serving"
  BY DEF Request, TimePasses, Chat, ChatEnds, RecordUserExecution, RecordFeedback, built, picks,
         rotation, alerting, shown
<1>2. tables'["recommendation"] = tables["recommendation"]
  BY AddElsewhere DEF Request, TimePasses, Chat, ChatEnds, RecordUserExecution, RecordFeedback
<1> QED
  BY <1>1, <1>2, OtherRowsShow DEF Early, Logging

LEMMA ShownGoesOn ==
  ASSUME ShownInv, RecsTyped, [Next]_terminalVars
  PROVE  ShownInv'
<1>1. CASE (\E s \in Environments : Starts(s)) \/ Requested
  <2>1. /\ UNCHANGED shown /\ UNCHANGED tables /\ stage \in {"down", "up"}
        /\ stage' \in {"up", "train"}
    BY <1>1 DEF Starts, Requested, picks, rotation, alerting, book, shown
  <2> QED
    BY <2>1, OtherRowsShow DEF Early, Logging
<1>2. CASE BuildStep
  BY <1>2, BuildShows
<1>3. CASE Raises \/ Dies
  BY <1>3, NothingShown DEF Raises, Dies
<1>4. CASE Request \/ TimePasses
  BY <1>4, RequestShows
<1>5. CASE UNCHANGED terminalVars
  <2>1. UNCHANGED shown /\ UNCHANGED <<tables, stage, left>>
    BY <1>5 DEF terminalVars, picks, rotation, alerting, book, shown
  <2> QED
    BY <2>1, OtherRowsShow DEF Early, Logging, ShownInv, ToLog
<1> QED
  BY <1>1, <1>2, <1>3, <1>4, <1>5 DEF Next

\* The terminal shows nothing as a recommendation that was vetoed or sized to nothing:
\* not in its list, its plan, its alerts or its logbook, in whatever market, and
\* however often a build raised or the process died and a new one was built.
THEOREM ApprovedOnly == Spec => []OnlyApprovedIsShown
<1> DEFINE Inv == RecsTyped /\ PlanInv /\ ShownInv
<1>1. Init => Inv
  BY PlanStart, ShownStart
<1>2. Inv /\ [Next]_terminalVars => Inv'
  BY PlanGoesOn, ShownGoesOn
<1>3. Inv => OnlyApprovedIsShown
  <2> SUFFICES ASSUME Inv PROVE OnlyApprovedIsShown
    OBVIOUS
  <2>1. Entered \subseteq DOMAIN recs
    <3>1. CASE Going
      BY <3>1 DEF PlanInv, Parted, ShownInv
    <3>2. CASE ~Going
      <4>1. moves = {}
        BY <3>2 DEF Going, ShownInv, Planless
      <4> QED
        BY <4>1 DEF Entered
    <3> QED
      BY <3>1, <3>2
  <2> QED
    BY <2>1 DEF OnlyApprovedIsShown, ShownInv, Approved, Booked
<1> HIDE DEF Inv
<1> QED
  BY <1>1, <1>2, <1>3, PTL DEF Spec

-----------------------------------------------------------------------------
(* Reading the tables.                                                     *)

LEMMA CountTo == ASSUME NEW n \in Nat PROVE IsFiniteSet(1..n) /\ Cardinality(1..n) = n
BY FS_Interval

\* A row that has these values, and the rows of a table that do.
Fits(row, filters) == \A c \in DOMAIN filters : row[c] = filters[c]
Fitting(rows, filters) == {k \in 1..Len(rows) : Fits(rows[k], filters)}

\* found is the loop of Matching.
IsMatched(found, rows, filters, T) ==
  /\ found \in [0..Len(rows) -> Seq(T)]
  /\ found[0] = <<>>
  /\ \A n \in 1..Len(rows) :
       found[n] = IF Fits(rows[n], filters) THEN Append(found[n - 1], rows[n]) ELSE found[n - 1]

LEMMA MatchingLoop ==
  ASSUME NEW T, NEW rows \in Seq(T), NEW filters
  PROVE  \E found : IsMatched(found, rows, filters, T) /\ Matching(rows, filters) = found[Len(rows)]
<1> DEFINE Takes(out, n) == IF Fits(rows[n], filters) THEN Append(out, rows[n]) ELSE out
<1> DEFINE Body(f) == [n \in 0..Len(rows) |-> IF n = 0 THEN <<>> ELSE Takes(f[n - 1], n)]
<1> DEFINE h == [p \in Seq(T) \X (1..Len(rows)) |-> Takes(p[1], p[2])]
<1>1. Len(rows) \in Nat /\ \A n \in 1..Len(rows) : rows[n] \in T
  OBVIOUS
<1>2. \A out \in Seq(T) : \A n \in 1..Len(rows) : Takes(out, n) \in Seq(T)
  BY <1>1
<1>3. h \in [Seq(T) \X (1..Len(rows)) -> Seq(T)]
  BY <1>2
<1>4. PICK f \in [0..Len(rows) -> Seq(T)] : IsLoop(f, Len(rows), <<>>, h)
  <2>1. <<>> \in Seq(T)
    OBVIOUS
  <2> HIDE DEF h
  <2> QED BY <1>1, <1>3, <2>1, LoopExists
<1>5. f = Body(f)
  <2>1. ASSUME NEW n \in 0..Len(rows) PROVE f[n] = Body(f)[n]
    <3>1. CASE n = 0
      BY <1>4, <3>1 DEF IsLoop
    <3>2. CASE n # 0
      <4>1. n \in 1..Len(rows) /\ n - 1 \in 0..Len(rows)
        BY <1>1, <3>2
      <4>2. f[n] = h[<<f[n - 1], n>>] /\ f[n - 1] \in Seq(T)
        BY <1>4, <4>1 DEF IsLoop
      <4>3. h[<<f[n - 1], n>>] = Takes(f[n - 1], n)
        BY <4>1, <4>2
      <4> QED BY <3>2, <4>2, <4>3
    <3> QED BY <3>1, <3>2
  <2> QED BY <1>4, <2>1
<1> DEFINE found == CHOOSE g : g = Body(g)
<1>6. found = Body(found)
  BY <1>5
<1>7. Matching(rows, filters) = found[Len(rows)]
  BY DEF Matching, Fits
<1>8. found = f
  <2> HIDE DEF found
  <2>1. DOMAIN found = 0..Len(rows) /\ found[0] = f[0]
    BY <1>1, <1>5, <1>6
  <2>2. ASSUME NEW n \in 1..Len(rows), found[n - 1] = f[n - 1] PROVE found[n] = f[n]
    <3>1. n \in 0..Len(rows) /\ n # 0
      BY <1>1
    <3> HIDE DEF Takes
    <3>2. f[n] = Takes(f[n - 1], n)
      BY <1>5, <3>1
    <3>3. found[n] = Takes(found[n - 1], n)
      BY <1>6, <3>1
    <3> QED BY <2>2, <3>2, <3>3
  <2>3. \A n \in 0..Len(rows) : found[n] = f[n]
    <3>1. found[0] = f[0] /\ \A n \in 1..Len(rows) : found[n - 1] = f[n - 1] => found[n] = f[n]
      BY <2>1, <2>2
    <3>2. Len(rows) \in Nat
      BY <1>1
    <3> QED BY <3>1, <3>2, LoopsAgree, ZenonT(60)
  <2> QED BY <1>4, <1>6, <2>1, <2>3
<1>9. IsMatched(f, rows, filters, T)
  <2>1. f[0] = <<>>
    BY <1>4 DEF IsLoop
  <2>2. ASSUME NEW n \in 1..Len(rows) PROVE f[n] = Takes(f[n - 1], n)
    <3>1. n \in 0..Len(rows) /\ n # 0
      BY <1>1
    <3> HIDE DEF Takes
    <3> QED BY <1>5, <3>1
  <2> QED BY <1>4, <2>1, <2>2 DEF IsMatched
<1> QED BY <1>7, <1>8, <1>9

\* What Matching returns: as many rows as fit, and just those.
LEMMA MatchingRows ==
  ASSUME NEW T, NEW rows \in Seq(T), NEW filters
  PROVE  LET out == Matching(rows, filters)
             K == Fitting(rows, filters)
         IN /\ out \in Seq(T) /\ IsFiniteSet(K) /\ Cardinality(K) \in Nat
            /\ Len(out) = Cardinality(K)
            /\ \A j \in 1..Len(out) : \E k \in K : out[j] = rows[k]
            /\ \A k \in K : \E j \in 1..Len(out) : out[j] = rows[k]
<1>1. PICK f : IsMatched(f, rows, filters, T) /\ Matching(rows, filters) = f[Len(rows)]
  BY MatchingLoop
<1> DEFINE Upto(n) == {k \in 1..n : Fits(rows[k], filters)}
           Good(n) == /\ f[n] \in Seq(T) /\ IsFiniteSet(Upto(n)) /\ Cardinality(Upto(n)) \in Nat
                      /\ Len(f[n]) = Cardinality(Upto(n))
                      /\ \A j \in 1..Len(f[n]) : \E k \in Upto(n) : f[n][j] = rows[k]
                      /\ \A k \in Upto(n) : \E j \in 1..Len(f[n]) : f[n][j] = rows[k]
           W == {n \in Nat : n <= Len(rows) => Good(n)}
<1>2. Len(rows) \in Nat
  OBVIOUS
<1>3. 0 \in W
  <2>1. Upto(0) = {} /\ f[0] = <<>>
    BY <1>1 DEF IsMatched
  <2>2. IsFiniteSet({}) /\ Cardinality({}) = 0
    BY FS_EmptySet
  <2> HIDE DEF Upto
  <2>3. Len(<<>>) = 0 /\ <<>> \in Seq(T) /\ 1..0 = {}
    OBVIOUS
  <2>4. f[0] \in Seq(T) /\ Len(f[0]) = 0 /\ 1..Len(f[0]) = {}
    BY <2>1, <2>3
  <2>5. IsFiniteSet(Upto(0)) /\ Cardinality(Upto(0)) = 0 /\ \A k \in Upto(0) : FALSE
    BY <2>1, <2>2
  <2>6. Good(0)
    BY <2>4, <2>5
  <2> HIDE DEF Good
  <2> QED BY <2>6
<1>4. ASSUME NEW n \in Nat, n \in W PROVE n + 1 \in W
  <2> HIDE DEF Good, Upto
  <2> SUFFICES ASSUME n + 1 <= Len(rows) PROVE Good(n + 1)
    OBVIOUS
  <2> USE DEF Good, Upto
  <2>1. Good(n) /\ n + 1 \in 1..Len(rows) /\ (n + 1) - 1 = n /\ rows[n + 1] \in T
    BY <1>2, <1>4
  <2>2. f[n + 1] = IF Fits(rows[n + 1], filters) THEN Append(f[n], rows[n + 1]) ELSE f[n]
    <3>1. \A m \in 1..Len(rows) :
            f[m] = IF Fits(rows[m], filters) THEN Append(f[m - 1], rows[m]) ELSE f[m - 1]
      BY <1>1 DEF IsMatched
    <3> HIDE DEF Good, Upto, W
    <3>2. f[n + 1] = IF Fits(rows[n + 1], filters) THEN Append(f[(n + 1) - 1], rows[n + 1])
                     ELSE f[(n + 1) - 1]
      BY <2>1, <3>1, Zenon
    <3> QED BY <2>1, <3>2
  <2>3. \A k \in 1..(n + 1) : k \in 1..n \/ k = n + 1
    OBVIOUS
  <2>4. CASE Fits(rows[n + 1], filters)
    <3>1. Upto(n + 1) = Upto(n) \cup {n + 1} /\ n + 1 \notin Upto(n)
      BY <2>3, <2>4
    <3>2. f[n + 1] = Append(f[n], rows[n + 1])
      BY <2>2, <2>4
    <3> HIDE DEF Upto
    <3>3. IsFiniteSet(Upto(n + 1)) /\ Cardinality(Upto(n + 1)) = Cardinality(Upto(n)) + 1
      BY <2>1, <3>1, FS_AddElement
    <3>4. PICK s \in Seq(T) : s = f[n]
      BY <2>1
    <3>5. PICK r \in T : r = rows[n + 1]
      BY <2>1
    <3>6. PICK t : t = Append(s, r)
      OBVIOUS
    <3>7. /\ t \in Seq(T) /\ Len(t) = Len(s) + 1 /\ t[Len(s) + 1] = r /\ Len(s) \in Nat
          /\ \A j \in 1..Len(s) : t[j] = s[j]
      BY <3>6
    <3>8. \A j \in 1..Len(t) : j \in 1..Len(s) \/ j = Len(s) + 1
      BY <3>7
    <3>9. \A j \in 1..Len(t) : \E k \in Upto(n + 1) : t[j] = rows[k]
      <4> SUFFICES ASSUME NEW j \in 1..Len(t) PROVE \E k \in Upto(n + 1) : t[j] = rows[k]
        OBVIOUS
      <4>1. CASE j \in 1..Len(s)
        <5>1. PICK k \in Upto(n) : s[j] = rows[k]
          BY <2>1, <3>4, <4>1
        <5> QED BY <3>1, <3>7, <4>1, <5>1
      <4>2. CASE j = Len(s) + 1
        BY <3>1, <3>5, <3>7, <4>2
      <4> QED BY <3>8, <4>1, <4>2
    <3>10. \A k \in Upto(n + 1) : \E j \in 1..Len(t) : t[j] = rows[k]
      <4> SUFFICES ASSUME NEW k \in Upto(n + 1) PROVE \E j \in 1..Len(t) : t[j] = rows[k]
        OBVIOUS
      <4>1. CASE k = n + 1
        BY <3>5, <3>7, <4>1
      <4>2. CASE k \in Upto(n)
        <5>1. PICK j \in 1..Len(s) : s[j] = rows[k]
          BY <2>1, <3>4, <4>2
        <5> QED BY <3>7, <5>1
      <4> QED BY <3>1, <4>1, <4>2
    <3>11. f[n + 1] = t
      BY <3>2, <3>4, <3>5, <3>6
    <3> QED BY <2>1, <3>3, <3>4, <3>7, <3>9, <3>10, <3>11
  <2>5. CASE ~Fits(rows[n + 1], filters)
    <3>1. Upto(n + 1) = Upto(n)
      BY <2>3, <2>5
    <3>2. f[n + 1] = f[n]
      BY <2>2, <2>5
    <3> HIDE DEF Upto
    <3> QED BY <2>1, <3>1, <3>2
  <2> QED BY <2>4, <2>5
<1>5. Len(rows) \in W
  <2> HIDE DEF W
  <2> QED BY <1>2, <1>3, <1>4, Numbers
<1>6. Upto(Len(rows)) = Fitting(rows, filters)
  BY DEF Fitting
<1>7. Good(Len(rows))
  BY <1>2, <1>5
<1> HIDE DEF Upto
<1> QED BY <1>1, <1>6, <1>7

\* What a list of few enough rows returns: all that fit.
LEMMA ListRows ==
  ASSUME NEW T, NEW t, tables[t] \in Seq(T), NEW filters, NEW limit \in Nat,
         Cardinality(Fitting(tables[t], filters)) <= limit
  PROVE  LET out == List(t, filters, limit)
             K == Fitting(tables[t], filters)
         IN /\ out \in Seq(T) /\ IsFiniteSet(K) /\ Cardinality(K) \in Nat
            /\ Len(out) = Cardinality(K)
            /\ \A j \in 1..Len(out) : \E k \in K : out[j] = tables[t][k]
            /\ \A k \in K : \E j \in 1..Len(out) : out[j] = tables[t][k]
<1> DEFINE rows == tables[t]
           K == Fitting(rows, filters)
           m == Matching(rows, filters)
           all == Reverse(m)
<1>1. /\ m \in Seq(T) /\ IsFiniteSet(K) /\ Cardinality(K) \in Nat
      /\ Len(m) = Cardinality(K)
      /\ \A j \in 1..Len(m) : \E k \in K : m[j] = rows[k]
      /\ \A k \in K : \E j \in 1..Len(m) : m[j] = rows[k]
  BY MatchingRows
<1>2. PICK n : /\ n = (IF Len(all) < limit THEN Len(all) ELSE limit)
              /\ List(t, filters, limit) = SubSeq(all, 1, n)
  BY DEF List
<1> HIDE DEF m, K, rows
<1>3. /\ all \in Seq(T) /\ Len(all) = Len(m)
      /\ \A j \in 1..Len(m) : all[j] = m[Len(m) - j + 1]
  <2>1. ASSUME NEW j \in 1..Len(m) PROVE m[Len(m) - j + 1] \in T
    <3>1. Len(m) - j + 1 \in 1..Len(m)
      BY <1>1
    <3> QED BY <1>1, <3>1
  <2>2. all = [j \in 1..Len(m) |-> m[Len(m) - j + 1]] /\ Len(m) \in Nat
    BY <1>1 DEF Reverse
  <2> HIDE DEF all
  <2> QED BY <2>1, <2>2
<1> HIDE DEF all
<1>4. List(t, filters, limit) = all
  <2>1. Len(all) \in Nat /\ Len(all) <= limit
    BY <1>1, <1>3 DEF K, rows
  <2>2. n = Len(all)
    BY <1>2, <2>1
  <2>3. SubSeq(all, 1, n) = all
    BY <1>3, <2>2, SubSeqFull
  <2>4. List(t, filters, limit) = SubSeq(all, 1, n)
    BY ONLY <1>2
  <2> QED BY ONLY <2>3, <2>4
<1>5. ASSUME NEW j \in 1..Len(all) PROVE \E k \in K : all[j] = rows[k]
  <2>1. Len(m) - j + 1 \in 1..Len(m) /\ all[j] = m[Len(m) - j + 1]
    BY <1>1, <1>3
  <2> QED BY <1>1, <2>1
<1>6. ASSUME NEW k \in K PROVE \E j \in 1..Len(all) : all[j] = rows[k]
  <2>1. PICK j \in 1..Len(m) : m[j] = rows[k]
    BY <1>1
  <2>2. Len(m) - j + 1 \in 1..Len(m) /\ Len(m) - (Len(m) - j + 1) + 1 = j
    BY <1>1
  <2>3. all[Len(m) - j + 1] = m[j]
    BY <1>3, <2>2
  <2> QED BY <1>3, <2>1, <2>2, <2>3
<1> QED BY <1>1, <1>3, <1>4, <1>5, <1>6 DEF K, rows

LEMMA ListNothing ==
  ASSUME NEW T, NEW t, tables[t] \in Seq(T), NEW filters, NEW limit \in Nat,
         \A k \in 1..Len(tables[t]) : ~Fits(tables[t][k], filters)
  PROVE  List(t, filters, limit) = <<>>
<1>1. Fitting(tables[t], filters) = {}
  BY DEF Fitting
<1>2. Cardinality({}) = 0
  BY FS_EmptySet
<1>3. Cardinality(Fitting(tables[t], filters)) = 0
  BY <1>1, <1>2
<1>4. Cardinality(Fitting(tables[t], filters)) <= limit
  BY <1>3
<1>5. List(t, filters, limit) \in Seq(T)
      /\ Len(List(t, filters, limit)) = Cardinality(Fitting(tables[t], filters))
  BY <1>4, ListRows
<1> QED BY <1>3, <1>5

\* A table all of whose rows fit is listed with the same names, each once.
LEMMA ListAll ==
  ASSUME NEW T, NEW t, tables[t] \in Seq(T), NEW filters, NEW limit \in Nat, NEW S,
         Each(tables[t], S), Len(tables[t]) <= limit,
         \A k \in 1..Len(tables[t]) : Fits(tables[t][k], filters)
  PROVE  Each(List(t, filters, limit), S)
<1> DEFINE rows == tables[t]
           out == List(t, filters, limit)
<1>1. Fitting(rows, filters) = 1..Len(rows) /\ Len(rows) \in Nat
  BY DEF Fitting
<1>2. Cardinality(1..Len(rows)) = Len(rows)
  BY <1>1, CountTo
<1>3. /\ Len(out) = Len(rows)
      /\ \A j \in 1..Len(out) : \E k \in 1..Len(rows) : out[j] = rows[k]
      /\ \A k \in 1..Len(rows) : \E j \in 1..Len(out) : out[j] = rows[k]
  <2>1. Cardinality(Fitting(tables[t], filters)) <= limit
    BY <1>1, <1>2
  <2>2. /\ Len(out) = Cardinality(Fitting(rows, filters))
        /\ \A j \in 1..Len(out) : \E k \in Fitting(rows, filters) : out[j] = rows[k]
        /\ \A k \in Fitting(rows, filters) : \E j \in 1..Len(out) : out[j] = rows[k]
    BY <2>1, ListRows
  <2> HIDE DEF out, rows
  <2> QED BY <1>1, <1>2, <2>2
<1> HIDE DEF out, rows
<1>4. NamesIn(out) = NamesIn(rows)
  <2>1. ASSUME NEW x \in NamesIn(out) PROVE x \in NamesIn(rows)
    <3>1. PICK j \in 1..Len(out) : x = out[j].instrument_id
      BY DEF NamesIn
    <3>2. PICK k \in 1..Len(rows) : out[j] = rows[k]
      BY <1>3
    <3> QED BY <3>1, <3>2 DEF NamesIn
  <2>2. ASSUME NEW x \in NamesIn(rows) PROVE x \in NamesIn(out)
    <3>1. PICK k \in 1..Len(rows) : x = rows[k].instrument_id
      BY DEF NamesIn
    <3>2. PICK j \in 1..Len(out) : out[j] = rows[k]
      BY <1>3
    <3> QED BY <3>1, <3>2 DEF NamesIn
  <2> QED BY <2>1, <2>2
<1> QED BY <1>3, <1>4 DEF Each, out, rows

-----------------------------------------------------------------------------
(* Writing the tables.                                                     *)

\* A set in any order is a sequence of its elements, each once.
LEMMA InSomeOrder ==
  ASSUME NEW S, IsFiniteSet(S)
  PROVE  /\ SetToSeq(S) \in Seq(S) /\ Len(SetToSeq(S)) = Cardinality(S) /\ Cardinality(S) \in Nat
         /\ \A x \in S : \E k \in 1..Len(SetToSeq(S)) : SetToSeq(S)[k] = x
<1>1. Cardinality(S) \in Nat /\ ExistsBijection(1..Cardinality(S), S)
  BY FS_CardinalityType
<1>2. PICK b : b \in Bijection(1..Cardinality(S), S)
  BY <1>1 DEF ExistsBijection
<1>3. b \in [1..Cardinality(S) -> S] /\ IsInjective(b)
  BY <1>2 DEF Bijection, Injection, IsInjective
<1>4. SetToSeq(S) \in [1..Cardinality(S) -> S] /\ IsInjective(SetToSeq(S))
  BY <1>3 DEF SetToSeq
<1>5. PICK q : q = SetToSeq(S)
  OBVIOUS
<1>6. q \in Seq(S) /\ Len(q) = Cardinality(S)
  BY <1>1, <1>4, <1>5
<1>7. q \in Injection(1..Cardinality(S), S)
  BY <1>4, <1>5 DEF Injection, IsInjective
<1>8. IsFiniteSet(1..Cardinality(S)) /\ Cardinality(1..Cardinality(S)) = Cardinality(S)
  BY <1>1, CountTo
<1>9. q \in Surjection(1..Cardinality(S), S)
  BY <1>7, <1>8, FS_Injection
<1> QED BY <1>1, <1>5, <1>6, <1>9 DEF Surjection

LEMMA RowsAdded ==
  ASSUME NEW t \in Tables, NEW T, NEW all \in Seq(T)
  PROVE  /\ \E U : Rows(t, all) \in Seq(U)
         /\ Len(Rows(t, all)) = Len(all)
         /\ \A k \in 1..Len(all) :
              Rows(t, all)[k] = With(all[k], "id", <<t, Len(tables[t]) + k>>)
<1>1. PICK r : r = Rows(t, all)
  OBVIOUS
<1>2. r = [k \in 1..Len(all) |-> With(all[k], "id", <<t, Len(tables[t]) + k>>)]
  BY <1>1 DEF Rows
<1>3. Len(all) \in Nat
  OBVIOUS
<1>4. r \in Seq({r[k] : k \in 1..Len(all)}) /\ Len(r) = Len(all)
  <2>1. r \in [1..Len(all) -> {r[k] : k \in 1..Len(all)}]
    BY <1>2
  <2> QED BY <1>3, <2>1
<1> QED BY <1>1, <1>2, <1>4

\* One row more in one table.
LEMMA RowAdded ==
  ASSUME NEW t \in Tables, NEW fields, Add(t, fields), NEW T, tables[t] \in Seq(T)
  PROVE  /\ \E U : tables'[t] \in Seq(U)
         /\ Len(tables'[t]) = Len(tables[t]) + 1 /\ Len(tables[t]) \in Nat
         /\ \A k \in 1..Len(tables[t]) : tables'[t][k] = tables[t][k]
         /\ tables'[t][Len(tables[t]) + 1] = With(fields, "id", <<t, Len(tables[t]) + 1>>)
         /\ \A u \in Tables : u # t => tables'[u] = tables[u]
<1>1. PICK old \in Seq(T) : old = tables[t]
  OBVIOUS
<1>2. PICK one : one = <<fields>>
  OBVIOUS
<1>3. one \in Seq({fields}) /\ Len(one) = 1 /\ one[1] = fields
  BY <1>2
<1>4. PICK new : new = Rows(t, one)
  OBVIOUS
<1>5. PICK U : new \in Seq(U)
  BY <1>3, <1>4, RowsAdded
<1>6. Len(new) = 1 /\ new[1] = With(fields, "id", <<t, Len(old) + 1>>)
  BY <1>1, <1>3, <1>4, RowsAdded
<1>7. tables'[t] = old \o new /\ \A u \in Tables : u # t => tables'[u] = tables[u]
  BY <1>1, <1>2, <1>4 DEF Add, Commits
<1>8. PICK s : s = old \o new
  OBVIOUS
<1>9. /\ s \in Seq(T \cup U) /\ Len(s) = Len(old) + 1 /\ Len(old) \in Nat
      /\ \A k \in 1..Len(old) : s[k] = old[k]
      /\ s[Len(old) + 1] = new[1]
  <2>1. PICK row : row = new[1]
    OBVIOUS
  <2>2. new = <<row>>
    BY <1>5, <1>6, <2>1
  <2> QED BY <1>5, <1>6, <1>8, <2>1, <2>2
<1> QED BY <1>1, <1>6, <1>7, <1>8, <1>9

\* With keeps every column but the one it sets.
LEMMA WithKeeps ==
  ASSUME NEW row, NEW c, NEW v
  PROVE  /\ DOMAIN With(row, c, v) = DOMAIN row \cup {c} /\ With(row, c, v)[c] = v
         /\ \A d \in DOMAIN row : d # c => With(row, c, v)[d] = row[d]
BY DEF With

\* A row of another name more.
LEMMA EachMore ==
  ASSUME NEW T, NEW rows \in Seq(T), NEW U, NEW more \in Seq(U), Len(more) = Len(rows) + 1,
         \A k \in 1..Len(rows) : more[k] = rows[k],
         NEW S, IsFiniteSet(S), Each(rows, S),
         more[Len(rows) + 1].instrument_id \notin S
  PROVE  Each(more, S \cup {more[Len(rows) + 1].instrument_id})
<1> DEFINE x == more[Len(rows) + 1].instrument_id
<1>1. Len(rows) \in Nat /\ Len(rows) = Cardinality(S)
  BY DEF Each
<1>2. Cardinality(S \cup {x}) = Cardinality(S) + 1
  BY FS_AddElement
<1>3. \A k \in 1..Len(more) : k \in 1..Len(rows) \/ k = Len(rows) + 1
  BY <1>1
<1>4. NamesIn(more) = NamesIn(rows) \cup {x}
  <2>1. ASSUME NEW y \in NamesIn(more) PROVE y \in NamesIn(rows) \cup {x}
    BY <1>3 DEF NamesIn
  <2>2. ASSUME NEW y \in NamesIn(rows) PROVE y \in NamesIn(more)
    <3>1. PICK k \in 1..Len(rows) : y = rows[k].instrument_id
      BY DEF NamesIn
    <3>2. k \in 1..Len(more) /\ more[k] = rows[k]
      BY <1>1
    <3> QED BY <3>1, <3>2 DEF NamesIn
  <2>3. x \in NamesIn(more)
    <3>1. Len(rows) + 1 \in 1..Len(more)
      BY <1>1
    <3> QED BY <3>1 DEF NamesIn
  <2> QED BY <2>1, <2>2, <2>3
<1> QED BY <1>1, <1>2, <1>4 DEF Each

-----------------------------------------------------------------------------
(* What a candidate is worth: figures that are there are numbers.          *)

\* total is the loop of Sum.
IsTotal(total, s) ==
  /\ total \in [0..Len(s) -> Int]
  /\ total[0] = 0
  /\ \A n \in 1..Len(s) : total[n] = total[n - 1] + s[n]

LEMMA SumTyped == ASSUME NEW s \in Seq(Int) PROVE Sum(s) \in Int
<1> DEFINE Body(f) == [n \in 0..Len(s) |-> IF n = 0 THEN 0 ELSE f[n - 1] + s[n]]
<1> DEFINE h == [p \in Int \X (1..Len(s)) |-> p[1] + s[p[2]]]
<1>1. Len(s) \in Nat /\ \A n \in 1..Len(s) : s[n] \in Int
  OBVIOUS
<1>2. h \in [Int \X (1..Len(s)) -> Int]
  BY <1>1
<1>3. PICK f \in [0..Len(s) -> Int] : IsLoop(f, Len(s), 0, h)
  <2>1. PICK zero \in Int : zero = 0
    OBVIOUS
  <2> HIDE DEF h
  <2>2. \E f \in [0..Len(s) -> Int] : IsLoop(f, Len(s), zero, h)
    BY <1>1, <1>2, LoopExists
  <2> QED BY <2>1, <2>2
<1>4. f = Body(f)
  <2>1. ASSUME NEW n \in 0..Len(s) PROVE f[n] = Body(f)[n]
    <3>1. CASE n = 0
      BY <1>3, <3>1 DEF IsLoop
    <3>2. CASE n # 0
      <4>1. n \in 1..Len(s) /\ n - 1 \in 0..Len(s)
        BY <1>1, <3>2
      <4>2. f[n] = h[<<f[n - 1], n>>] /\ f[n - 1] \in Int
        BY <1>3, <4>1 DEF IsLoop
      <4>3. h[<<f[n - 1], n>>] = f[n - 1] + s[n]
        BY <4>1, <4>2
      <4> QED BY <3>2, <4>2, <4>3
    <3> QED BY <3>1, <3>2
  <2> QED BY <1>3, <2>1
<1> DEFINE total == CHOOSE g : g = Body(g)
<1>5. total = Body(total)
  BY <1>4
<1>6. Sum(s) = total[Len(s)]
  BY DEF Sum
<1> HIDE DEF total
<1>7. total[0] = f[0]
  BY <1>1, <1>4, <1>5
<1>8. ASSUME NEW n \in 1..Len(s), total[n - 1] = f[n - 1] PROVE total[n] = f[n]
  <2>1. n \in 0..Len(s) /\ n # 0
    BY <1>1
  <2>2. f[n] = f[n - 1] + s[n]
    BY <1>4, <2>1
  <2>3. total[n] = total[n - 1] + s[n]
    BY <1>5, <2>1
  <2> HIDE DEF Body
  <2> QED BY <1>8, <2>2, <2>3
<1>9. \A n \in 0..Len(s) : total[n] = f[n]
  <2>1. Len(s) \in Nat /\ total[0] = f[0]
        /\ \A n \in 1..Len(s) : total[n - 1] = f[n - 1] => total[n] = f[n]
    BY <1>1, <1>7, <1>8
  <2> QED BY <2>1, LoopsAgree, ZenonT(60)
<1> QED BY <1>1, <1>6, <1>9

LEMMA AvgTurnoverTyped ==
  ASSUME NEW bars \in Seq(Bars), AvgTurnover(bars) # NoFigure
  PROVE  AvgTurnover(bars) \in Int
<1> DEFINE last == Recent(bars, LiquidityWindow)
           each == [k \in 1..LiquidityWindow |-> Turnover(last[k])]
<1>1. LiquidityWindow \in Nat /\ LiquidityWindow > 0 /\ Len(bars) \in Nat
  BY DayAssumption
<1>2. Len(bars) >= LiquidityWindow /\ AvgTurnover(bars) = Mean(each)
  BY <1>1 DEF AvgTurnover
<1>3. last \in Seq(Bars) /\ Len(last) = LiquidityWindow
  <2>1. /\ Len(bars) - LiquidityWindow + 1 \in 1..(Len(bars) + 1)
        /\ Len(bars) \in (Len(bars) - LiquidityWindow)..Len(bars)
    BY <1>1, <1>2
  <2>2. /\ SubSeq(bars, Len(bars) - LiquidityWindow + 1, Len(bars)) \in Seq(Bars)
        /\ Len(SubSeq(bars, Len(bars) - LiquidityWindow + 1, Len(bars))) = LiquidityWindow
    BY <1>1, <1>2, <2>1, SubSeqProperties
  <2> QED BY <2>2 DEF Recent
<1> HIDE DEF last
<1>4. ASSUME NEW k \in 1..LiquidityWindow PROVE Turnover(last[k]) \in Int
  <2>1. last[k] \in Bars
    BY <1>3
  <2> QED BY <2>1 DEF Turnover, Bars
<1>5. each \in Seq(Int) /\ Len(each) = LiquidityWindow
  BY <1>1, <1>4
<1> HIDE DEF each
<1>6. Sum(each) \in Int
  BY <1>5, SumTyped
<1>7. Mean(each) = Sum(each) \div LiquidityWindow
  BY <1>5 DEF Mean
<1> QED BY <1>1, <1>2, <1>6, <1>7

\* What sizing returns is a number, and none but 0 where a share costs nothing.
LEMMA SizeTyped ==
  ASSUME NEW entry \in Int, NEW stop \in Int, NEW turnover \in Int
  PROVE  /\ SizePosition(entry, stop, turnover, 0, 0) \in Int
         /\ SizePosition(entry, stop, turnover, 0, 0) > 0 => entry > 0
<1>1. CASE entry <= stop \/ entry <= 0
  BY <1>1 DEF SizePosition
<1>2. CASE entry > stop /\ entry > 0
  <2> DEFINE caps == Caps(entry, stop, turnover, 0, 0)
             least == CHOOSE q \in {caps[c] : c \in DOMAIN caps} :
                        \A c \in DOMAIN caps : q <= caps[c]
  <2>1. SizePosition(entry, stop, turnover, 0, 0) = IF least > 0 THEN least ELSE 0
    <3>1. ~(entry <= stop \/ entry <= 0)
      BY <1>2
    <3> QED BY <3>1, Zenon DEF SizePosition
  <2>2. DOMAIN caps = {"risk", "allocation", "cash", "sector", "liquidity"}
    BY DEF Caps
  <2>3. \A c \in DOMAIN caps : caps[c] \in Int
    <3>1. /\ Sizing.capital \in Int /\ Sizing.risk \in Int /\ Sizing.allocation \in Int
          /\ Sizing.reserve \in Int /\ Sizing.participation \in Int /\ Sizing.sector \in Int
      BY DayAssumption
    <3>2. PICK capital \in Int, risk \in Int, allocation \in Int, reserve \in Int,
               participation \in Int, sector \in Int :
            /\ capital = Sizing.capital /\ risk = Sizing.risk /\ allocation = Sizing.allocation
            /\ reserve = Sizing.reserve /\ participation = Sizing.participation
            /\ sector = Sizing.sector
      BY <3>1
    <3>3. Throttle(0) = 100
      BY DEF Throttle
    <3> DEFINE open == (sector * capital) \div 100 - 0
    <3>4. /\ caps.risk = (capital * risk * 100) \div (100000 * (entry - stop))
          /\ caps.allocation = (capital * allocation) \div (100 * entry)
          /\ caps.cash = (capital * (100 - reserve)) \div (100 * entry)
          /\ caps.sector = (IF open > 0 THEN open ELSE 0) \div entry
          /\ caps.liquidity = (participation * turnover) \div (100 * entry)
      BY <3>2, <3>3 DEF Caps
    <3>5. \A a \in Int, b \in Int : b > 0 => a \div b \in Int
      OBVIOUS
    <3>6. caps.risk \in Int
      <4>1. 100000 * (entry - stop) \in Int /\ 100000 * (entry - stop) > 0
            /\ capital * risk * 100 \in Int
        BY <1>2
      <4> QED BY <3>4, <3>5, <4>1
    <3>7. caps.allocation \in Int /\ caps.cash \in Int /\ caps.liquidity \in Int
      <4>1. /\ 100 * entry \in Int /\ 100 * entry > 0
            /\ capital * allocation \in Int /\ capital * (100 - reserve) \in Int
            /\ participation * turnover \in Int
        BY <1>2
      <4> QED BY <3>4, <3>5, <4>1
    <3>8. caps.sector \in Int
      <4>1. sector * capital \in Int
        OBVIOUS
      <4>2. open \in Int
        BY <4>1
      <4>3. (IF open > 0 THEN open ELSE 0) \in Int
        BY <4>2
      <4> HIDE DEF open
      <4> QED BY <1>2, <3>4, <3>5, <4>3
    <3> HIDE DEF caps
    <3> QED BY <2>2, <3>6, <3>7, <3>8
  <2>4. IsFiniteSet(DOMAIN caps) /\ DOMAIN caps # {}
    <3>1. IsFiniteSet({"risk", "allocation", "cash", "sector", "liquidity"})
      <4>1. IsFiniteSet({"risk"}) BY FS_Singleton
      <4>2. IsFiniteSet({"risk"} \cup {"allocation"}) BY <4>1, FS_AddElement
      <4>3. IsFiniteSet({"risk", "allocation"} \cup {"cash"}) BY <4>2, FS_AddElement
      <4>4. IsFiniteSet({"risk", "allocation", "cash"} \cup {"sector"}) BY <4>3, FS_AddElement
      <4>5. IsFiniteSet({"risk", "allocation", "cash", "sector"} \cup {"liquidity"})
        BY <4>4, FS_AddElement
      <4> QED BY <4>5
    <3> QED BY <2>2, <3>1
  <2> HIDE DEF caps
  <2>5. \E x \in DOMAIN caps : \A y \in DOMAIN caps : caps[x] <= caps[y]
    BY <2>3, <2>4, LeastEdge
  <2>6. \E q \in {caps[c] : c \in DOMAIN caps} : \A c \in DOMAIN caps : q <= caps[c]
    BY <2>5
  <2>7. least \in {caps[c] : c \in DOMAIN caps}
    BY <2>6
  <2>8. least \in Int
    BY <2>3, <2>7
  <2> HIDE DEF least
  <2> QED BY <1>2, <2>1, <2>8
<1> QED BY <1>1, <1>2

-----------------------------------------------------------------------------
(* What a recommendation is built from.                                    *)

LEMMA PaperRange ==
  /\ Min(PaperDays) \in PaperDays /\ Max(PaperDays) \in PaperDays
  /\ Min(PaperDays) \in Nat \ {0} /\ Max(PaperDays) \in Nat
  /\ \A d \in PaperDays : Min(PaperDays) <= d /\ d <= Max(PaperDays)
  /\ LastDay \in Nat \ {0}
<1>1. LastDay \in Nat /\ PaperDays # {} /\ PaperDays \subseteq 1..LastDay
  BY DayAssumption
<1>2. PaperDays \subseteq Nat /\ PaperDays \subseteq 0..LastDay
  BY <1>1
<1>3. \E x \in PaperDays : \A y \in PaperDays : x <= y
  BY <1>1, <1>2, LeastOfNumbers
<1>4. Min(PaperDays) \in PaperDays /\ \A y \in PaperDays : Min(PaperDays) <= y
  BY <1>3 DEF Min
<1>5. Max(PaperDays) \in PaperDays /\ \A y \in PaperDays : y <= Max(PaperDays)
  BY <1>1, <1>2, GreatestOfNumbers
<1>6. \A d \in PaperDays : d \in Nat \ {0}
  BY <1>1
<1>7. LastDay \in Nat \ {0}
  <2>1. PICK d : d \in PaperDays
    BY <1>1
  <2>2. d \in 1..LastDay
    BY <1>1, <2>1
  <2> QED BY <1>1, <2>2
<1> QED BY <1>4, <1>5, <1>6, <1>7

LEMMA AsOfTyped ==
  ASSUME market \in Markets, NEW i \in Names, NEW d
  PROVE  AsOf(i, d) \in Seq(Bars) /\ Len(AsOf(i, d)) \in Nat
<1>1. PICK s \in Seq(Bars) : s = market[i]
  BY DayAssumption
<1> DEFINE K == {k \in 1..Len(s) : s[k].day <= d}
<1>2. Len(s) \in Nat /\ IsFiniteSet(1..Len(s)) /\ Cardinality(1..Len(s)) = Len(s)
      /\ \A k \in 1..Len(s) : s[k] \in Bars
  <2>1. Len(s) \in Nat /\ \A k \in 1..Len(s) : s[k] \in Bars
    OBVIOUS
  <2> QED BY <2>1, CountTo
<1>3. IsFiniteSet(K) /\ Cardinality(K) <= Len(s) /\ Cardinality(K) \in Nat
  <2>1. K \subseteq 1..Len(s)
    OBVIOUS
  <2> HIDE DEF K
  <2> QED BY <2>1, <1>2, FS_Subset, FS_CardinalityType
<1>4. AsOf(i, d) = SubSeq(s, 1, Cardinality(K))
  BY <1>1 DEF AsOf
<1> HIDE DEF K
<1>5. \A k \in 1..Cardinality(K) : s[k] \in Bars
  BY <1>2, <1>3
<1>6. SubSeq(s, 1, Cardinality(K)) \in Seq(Bars)
  BY <1>3, <1>5, SubSeqProperties
<1> QED BY <1>4, <1>6

\* A recommendation whose every field is there and about the day and its evidence.
Complete(i) ==
  /\ recs[i].asOf = asOf /\ recs[i].action = "BUY" /\ Missing(recs[i]) = {}
  /\ NoFigure \notin {recs[i].target, recs[i].invalidation, recs[i].prob}
  /\ AsOf(i, asOf) # <<>> /\ recs[i].entry = Last(AsOf(i, asOf)).close
  /\ recs[i].evidence = evidence[i] /\ evidence[i] # {}

LEMMA BuiltComplete ==
  ASSUME market \in Markets, forecast \in [Names -> Int], NEW i \in Names,
         NEW f, AsOf(i, asOf) # <<>>, f = Features(AsOf(i, asOf)), Passes(f), ~Dropped(f)
  PROVE  LET r == Build(i, f)
         IN /\ r.asOf = asOf /\ r.action = "BUY" /\ Missing(r) = {}
            /\ NoFigure \notin {r.target, r.invalidation, r.prob}
            /\ r.entry = Last(AsOf(i, asOf)).close
            /\ r.evidence = Filing(i) /\ Filing(i) # {}
<1> DEFINE bars == AsOf(i, asOf)
           r == Build(i, f)
<1>1. bars \in Seq(Bars) /\ Len(bars) \in Nat /\ bars # <<>>
  BY AsOfTyped
<1>2. f.close = Last(bars).close /\ f.turnover = AvgTurnover(bars)
  BY DEF Features
<1> HIDE DEF bars
<1>3. f.close \in Int
  <2>1. Len(bars) \in 1..Len(bars)
    BY <1>1
  <2>2. bars[Len(bars)] \in Bars
    BY <1>1, <2>1
  <2> QED BY <1>2, <2>2 DEF Last, Bars
<1>4. f.turnover \in Int
  BY <1>1, <1>2, AvgTurnoverTyped DEF Passes
<1>5. StopPct \in Int /\ TargetPct \in Int /\ HoldingSessions \in Nat /\ forecast[i] \in Int
      /\ NoFigure \notin Int /\ NoFigure \notin {"PASS", "REVIEW", "VETO", "logistic-0.1"}
  BY TerminalAssumption, DayAssumption
<1>6. /\ (f.close * (100 - StopPct)) \div 100 \in Int
      /\ (f.close * (100 + TargetPct)) \div 100 \in Int
  <2>1. f.close * (100 - StopPct) \in Int /\ f.close * (100 + TargetPct) \in Int
    BY <1>3, <1>5
  <2> HIDE DEF r
  <2> QED BY <2>1
<1>7. Quantity(f) \in Int /\ Quantity(f) > 0 /\ f.close > 0
  <2>1. Quantity(f) = SizePosition(f.close, (f.close * (100 - StopPct)) \div 100, f.turnover, 0, 0)
    BY DEF Quantity
  <2>2. Quantity(f) > 0
    BY SizedOrNothing
  <2>3. PICK stop \in Int : stop = (f.close * (100 - StopPct)) \div 100
    BY <1>6
  <2>4. /\ SizePosition(f.close, stop, f.turnover, 0, 0) \in Int
        /\ SizePosition(f.close, stop, f.turnover, 0, 0) > 0 => f.close > 0
    BY <1>3, <1>4, <2>3, SizeTyped
  <2> QED BY <2>1, <2>2, <2>3, <2>4
<1>8. Quantity(f) * f.close > 0
  <2>1. PICK q \in Nat, c \in Nat : q = Quantity(f) /\ c = f.close /\ q > 0 /\ c > 0
    BY <1>3, <1>7
  <2>2. q * c > 0
    BY <2>1
  <2> QED BY <2>1, <2>2
<1>9. AssessRisk(RiskOf(f)) \in {"PASS", "REVIEW", "VETO"}
  BY DEF AssessRisk
<1>10. /\ r.asOf = asOf /\ r.action = "BUY" /\ r.entry = f.close
       /\ r.target = (f.close * (100 + TargetPct)) \div 100
       /\ r.invalidation = (f.close * (100 - StopPct)) \div 100
       /\ r.horizon = HoldingSessions /\ r.quantity = Quantity(f)
       /\ r.allocation = Quantity(f) * f.close /\ r.prob = forecast[i]
       /\ r.verdict = AssessRisk(RiskOf(f)) /\ r.evidence = Filing(i) /\ r.model = "logistic-0.1"
  BY DEF Build, Recommendation
<1> HIDE DEF r
<1>11. /\ r.entry # NoFigure /\ r.target # NoFigure /\ r.invalidation # NoFigure
       /\ r.horizon # NoFigure /\ r.prob # NoFigure /\ r.verdict # NoFigure /\ r.model # NoFigure
  BY <1>3, <1>5, <1>6, <1>9, <1>10
<1>12. Filing(i) # {}
  BY DEF Filing
<1>13. Missing(r) = {}
  <2>1. {x \in {"entry", "target", "invalidation", "horizon", "prob", "verdict", "model"} :
           r[x] = NoFigure} = {}
    BY <1>11
  <2>2. {x \in {"quantity", "allocation"} : r[x] <= 0} = {}
    <3>1. r["quantity"] \in Int /\ r["quantity"] > 0 
      BY <1>7, <1>10
    <3>2. r["allocation"] \in Int /\ r["allocation"] > 0 
      BY <1>3, <1>7, <1>8, <1>10
    <3> QED BY <3>1, <3>2
  <2>3. ~(r.action \notin {"BUY", "ROTATE"}) /\ r.evidence # {}
    BY <1>10, <1>12
  <2> QED BY <2>1, <2>2, <2>3 DEF Missing
<1> QED BY <1>2, <1>10, <1>11, <1>12, <1>13 DEF r, bars

-----------------------------------------------------------------------------
(* What a build has come to.                                               *)

Untracked == stage \in {"down", "up", "train"}
FillsTyped == (\E T : fills \in Seq(T)) /\ \A k \in 1..Len(fills) : "session_date" \in DOMAIN fills[k]
Tracked ==
  /\ market \in Markets /\ FillsTyped
  /\ Untracked => fills = <<>>
  /\ stage = "track" =>
       paperDay \in Min(PaperDays)..Max(PaperDays) /\ Len(fills) <= 2 * (paperDay - Min(PaperDays))
  /\ Len(fills) <= 2 * (Max(PaperDays) - Min(PaperDays) + 1)
  /\ ~Untracked => asOf \in Nat \ {0}

Picked ==
  ~Early =>
    /\ DOMAIN evidence = DOMAIN recs \cup DOMAIN vetoed /\ DOMAIN evidence \subseteq Names
    /\ DOMAIN recs \cap DOMAIN vetoed = {}
    /\ \A i \in DOMAIN recs : Complete(i)

Delivered == {engine.delivered[k].name : k \in 1..Len(engine.delivered)}
ToAlert == IF stage = "alerts" THEN left ELSE {}
Alerting == stage \in {"alerts", "setup"} \/ Logging
Alerted ==
  /\ Early \/ stage \in {"portfolio", "rotation"} => engine = NewEngine
  /\ Alerting =>
       /\ planning = "done"
       /\ ToAlert \subseteq DOMAIN evidence
       /\ Delivered = DOMAIN evidence \ ToAlert
       /\ Len(engine.delivered) = Cardinality(DOMAIN evidence \ ToAlert)
       /\ \A key \in engine.keys : key[2] \notin ToAlert

CountersTold ==
  stage = "setup" \/ Logging =>
    /\ counters.candidates = Cardinality(DOMAIN recs) + Cardinality(DOMAIN vetoed)
    /\ counters.recommendations = Cardinality(DOMAIN recs)

BuildInv == Tracked /\ Picked /\ Alerted /\ CountersTold

toldBuild == <<market, fills, asOf, recs, vetoed, evidence, planning, engine, counters>>

LEMMA CompleteKept ==
  ASSUME UNCHANGED <<recs, asOf, market, evidence>>
  PROVE  \A i : Complete(i) => Complete(i)'
BY DEF Complete, AsOf

LEMMA TrackedKept ==
  ASSUME Tracked, UNCHANGED <<market, fills, asOf>>,
         Untracked' => Untracked, Untracked => Untracked', stage' # "track"
  PROVE  Tracked'
BY DEF Tracked, FillsTyped

LEMMA PickedKept ==
  ASSUME Picked, UNCHANGED <<recs, vetoed, evidence, asOf, market>>, Early => Early'
  PROVE  Picked'
<1> SUFFICES ASSUME ~Early' PROVE Picked'
  BY DEF Picked
<1>1. ~Early
  OBVIOUS
<1>2. \A i : Complete(i) => Complete(i)'
  BY CompleteKept
<1>3. DOMAIN recs' = DOMAIN recs /\ DOMAIN vetoed' = DOMAIN vetoed /\ DOMAIN evidence' = DOMAIN evidence
  OBVIOUS
<1> HIDE DEF Complete, Early
<1>4. /\ DOMAIN evidence = DOMAIN recs \cup DOMAIN vetoed /\ DOMAIN evidence \subseteq Names
      /\ DOMAIN recs \cap DOMAIN vetoed = {}
      /\ \A i \in DOMAIN recs : Complete(i)
  BY <1>1 DEF Picked
<1> QED BY <1>2, <1>3, <1>4 DEF Picked

LEMMA StartBuilds == ASSUME Init PROVE BuildInv
<1>1. /\ market \in Markets /\ fills = <<>> /\ stage = "down" /\ engine = NewEngine
  BY DEF Init, NoTerminal
<1>2. <<>> \in Seq({}) /\ Len(<<>>) = 0
  OBVIOUS
<1>3. 0 <= 2 * (Max(PaperDays) - Min(PaperDays) + 1)
  BY PaperRange
<1>4. Tracked
  BY <1>1, <1>2, <1>3 DEF Tracked, FillsTyped, Untracked
<1> QED BY <1>1, <1>4 DEF BuildInv, Picked, Early, Alerted, CountersTold, Alerting, Logging

LEMMA NothingBuilt ==
  ASSUME stage' \in {"down", "up"}, Discarded, market' \in Markets
  PROVE  BuildInv'
<1>1. fills' = <<>> /\ engine' = NewEngine
  BY DEF Discarded
<1>2. <<>> \in Seq({}) /\ Len(<<>>) = 0
  OBVIOUS
<1>3. 0 <= 2 * (Max(PaperDays) - Min(PaperDays) + 1)
  BY PaperRange
<1>4. Tracked'
  BY <1>1, <1>2, <1>3 DEF Tracked, FillsTyped, Untracked
<1> QED BY <1>1, <1>4 DEF BuildInv, Picked, Early, Alerted, CountersTold, Alerting, Logging

\* Before the paper days.
LEMMA BuildStarts ==
  ASSUME BuildInv, (\E s \in Environments : Starts(s)) \/ Requested
  PROVE  BuildInv'
<1>1. UNCHANGED toldBuild /\ stage \in {"down", "up"} /\ stage' \in {"up", "train"}
  BY DEF Starts, Requested, toldBuild, world, tracking, picks, rotation, alerting
<1>2. Tracked'
  BY <1>1, TrackedKept DEF BuildInv, toldBuild, Untracked
<1> QED BY <1>1, <1>2 DEF BuildInv, toldBuild, Picked, Early, Alerted, CountersTold, Alerting, Logging

LEMMA TrainTracks ==
  ASSUME BuildInv, Train
  PROVE  BuildInv'
<1>1. /\ stage = "train" /\ stage' = "track" /\ paperDay' = Min(PaperDays) /\ asOf' = LastDay
      /\ UNCHANGED <<market, fills, engine>>
  BY DEF Train, world, alerting
<1>2. fills' = <<>> /\ Len(<<>>) = 0
  BY <1>1 DEF BuildInv, Tracked, Untracked
<1>3. Tracked'
  <2>1. Min(PaperDays) \in Min(PaperDays)..Max(PaperDays) /\ asOf' \in Nat \ {0}
    BY <1>1, PaperRange
  <2>2. 0 <= 2 * (Min(PaperDays) - Min(PaperDays))
    BY PaperRange
  <2> QED BY <1>1, <1>2, <2>1, <2>2 DEF BuildInv, Tracked, FillsTyped, Untracked
<1> QED BY <1>1, <1>3 DEF BuildInv, Picked, Early, Alerted, CountersTold, Alerting, Logging

\* A day of paper trading adds at most one trade, with its entry and its exit.
LEMMA DayTracks ==
  ASSUME BuildInv, PaperTrack
  PROVE  BuildInv'
<1> DEFINE a == Min(PaperDays)
           b == Max(PaperDays)
<1>1. /\ stage = "track" /\ stage' = (IF paperDay = b THEN "recs" ELSE "track")
      /\ paperDay' = paperDay + 1
      /\ UNCHANGED <<market, engine>>
      /\ asOf' = asOf \/ asOf' = paperDay
  BY DEF PaperTrack, world, alerting
<1>2. a \in Nat \ {0} /\ b \in Nat
  BY PaperRange
<1> HIDE DEF a, b
<1>3. PICK T, s : s \in Seq(T) /\ s = fills
  BY DEF BuildInv, Tracked, FillsTyped
<1>4. /\ paperDay \in a..b /\ Len(s) \in Nat /\ Len(s) <= 2 * (paperDay - a)
      /\ asOf \in Nat \ {0}
      /\ \A k \in 1..Len(s) : "session_date" \in DOMAIN s[k]
  BY <1>1, <1>3 DEF BuildInv, Tracked, FillsTyped, Untracked, a, b
<1>5. fills' = s \/ \E i, q, d, x : fills' = s \o <<Fill(i, "BUY", q, d, "ENTRY"), Fill(i, "SELL", q, x, "EXIT")>>
  BY <1>3 DEF PaperTrack, Trades
<1>6. FillsTyped' /\ Len(fills') <= Len(s) + 2
  <2>1. CASE fills' = s
    BY <1>3, <1>4, <2>1 DEF FillsTyped
  <2>2. CASE \E i, q, d, x : fills' = s \o <<Fill(i, "BUY", q, d, "ENTRY"), Fill(i, "SELL", q, x, "EXIT")>>
    <3>1. PICK e, x : /\ fills' = s \o <<e, x>>
                      /\ "session_date" \in DOMAIN e /\ "session_date" \in DOMAIN x
      <4>1. PICK i, q, d, y :
              fills' = s \o <<Fill(i, "BUY", q, d, "ENTRY"), Fill(i, "SELL", q, y, "EXIT")>>
        BY <2>2
      <4>2. \A side, z, kind : "session_date" \in DOMAIN Fill(i, side, q, z, kind)
        BY DEF Fill
      <4> QED BY <4>1, <4>2
    <3>2. PICK two : two = <<e, x>>
      OBVIOUS
    <3>3. two \in Seq({e, x}) /\ Len(two) = 2 /\ two[1] = e /\ two[2] = x
      BY <3>2
    <3>6. PICK t : t = s \o two
      OBVIOUS
    <3>7. /\ t \in Seq(T \cup {e, x}) /\ Len(t) = Len(s) + 2
          /\ \A k \in 1..Len(s) : t[k] = s[k]
          /\ t[Len(s) + 1] = e /\ t[Len(s) + 2] = x
      <4>1. s \in Seq(T \cup {e, x}) /\ two \in Seq(T \cup {e, x})
        BY <1>3, <3>3
      <4>2. /\ t \in Seq(T \cup {e, x}) /\ Len(t) = Len(s) + Len(two)
            /\ \A k \in 1..Len(s) + Len(two) : t[k] = IF k <= Len(s) THEN s[k] ELSE two[k - Len(s)]
        BY <3>6, <4>1, ConcatProperties
      <4>3. /\ \A k \in 1..Len(s) : k \in 1..Len(s) + 2 /\ k <= Len(s)
            /\ Len(s) + 1 \in 1..Len(s) + 2 /\ Len(s) + 2 \in 1..Len(s) + 2
            /\ ~(Len(s) + 1 <= Len(s)) /\ ~(Len(s) + 2 <= Len(s))
            /\ (Len(s) + 1) - Len(s) = 1 /\ (Len(s) + 2) - Len(s) = 2
        BY <1>4
      <4> QED BY <3>3, <4>2, <4>3
    <3>4. \A k \in 1..Len(t) : k \in 1..Len(s) \/ k = Len(s) + 1 \/ k = Len(s) + 2
      BY <1>4, <3>7
    <3>5. \A k \in 1..Len(t) : "session_date" \in DOMAIN t[k]
      BY <1>4, <3>1, <3>4, <3>7
    <3>8. fills' = t
      BY <3>1, <3>2, <3>6
    <3> QED BY <1>4, <3>5, <3>7, <3>8 DEF FillsTyped
  <2> QED BY <1>5, <2>1, <2>2
<1>7. Len(fills') \in Nat
  BY <1>6 DEF FillsTyped
<1>8. /\ Len(fills') <= 2 * ((paperDay + 1) - a)
      /\ Len(fills') <= 2 * (b - a + 1)
      /\ paperDay # b => paperDay + 1 \in a..b
      /\ paperDay \in Nat \ {0}
  BY <1>2, <1>4, <1>6, <1>7
<1>9. Tracked'
  BY <1>1, <1>4, <1>6, <1>8 DEF BuildInv, Tracked, Untracked, a, b
<1>10. engine = NewEngine
  BY <1>1 DEF BuildInv, Alerted, Early
<1> QED BY <1>1, <1>9, <1>10 DEF BuildInv, Picked, Early, Alerted, CountersTold, Alerting, Logging

LEMMA PicksBuild ==
  ASSUME BuildInv, RecsTyped, CurrentRecs
  PROVE  BuildInv'
<1> DEFINE F == FeaturesOn(asOf)
           C == Scan(F, Order, TopK)
<1>1. /\ stage = "recs" /\ stage' = "portfolio" /\ UNCHANGED <<market, fills, asOf, engine>>
      /\ recs' = [i \in {c \in C : ~Dropped(F[c])} |-> Build(i, F[i])]
      /\ vetoed' = [i \in {c \in C : Dropped(F[c])} |-> Refusal(F[i])]
      /\ evidence' = [i \in C |-> Filing(i)]
  BY DEF CurrentRecs, Picks, world, tracking, alerting
<1>2. \A i \in C : /\ i \in Names /\ AsOf(i, asOf) # <<>> /\ Passes(F[i])
                   /\ F[i] = Features(AsOf(i, asOf))
  BY DEF Scan, Passing, FeaturesOn
<1> HIDE DEF C, F
<1>3. /\ DOMAIN recs' = {c \in C : ~Dropped(F[c])} /\ DOMAIN vetoed' = {c \in C : Dropped(F[c])}
      /\ DOMAIN evidence' = C
  BY <1>1
<1>4. market \in Markets /\ forecast \in [Names -> Int]
  BY DEF BuildInv, Tracked, RecsTyped
<1>5. ASSUME NEW i \in DOMAIN recs' PROVE Complete(i)'
  <2>1. i \in C /\ ~Dropped(F[i]) /\ recs'[i] = Build(i, F[i]) /\ evidence'[i] = Filing(i)
    BY <1>1, <1>3
  <2>2. /\ i \in Names /\ AsOf(i, asOf) # <<>> /\ Passes(F[i]) /\ F[i] = Features(AsOf(i, asOf))
    BY <1>2, <2>1
  <2>3. /\ recs'[i].asOf = asOf /\ recs'[i].action = "BUY" /\ Missing(recs'[i]) = {}
        /\ NoFigure \notin {recs'[i].target, recs'[i].invalidation, recs'[i].prob}
        /\ recs'[i].entry = Last(AsOf(i, asOf)).close
        /\ recs'[i].evidence = Filing(i) /\ Filing(i) # {}
    BY <1>4, <2>1, <2>2, BuiltComplete
  <2>4. AsOf(i, asOf)' = AsOf(i, asOf)
    BY <1>1 DEF AsOf
  <2> QED BY <1>1, <2>1, <2>2, <2>3, <2>4 DEF Complete
<1>6. Picked'
  <2>1. C \subseteq Names
    BY <1>2
  <2> HIDE DEF Complete
  <2>2. /\ DOMAIN evidence' = DOMAIN recs' \cup DOMAIN vetoed' /\ DOMAIN evidence' \subseteq Names
        /\ DOMAIN recs' \cap DOMAIN vetoed' = {}
    BY <1>3, <2>1
  <2> QED BY <1>5, <2>2 DEF Picked
<1>7. Tracked'
  BY <1>1, TrackedKept DEF BuildInv, Untracked
<1>8. engine = NewEngine
  BY <1>1 DEF BuildInv, Alerted, Early
<1> QED BY <1>1, <1>6, <1>7, <1>8 DEF BuildInv, Alerted, CountersTold, Alerting, Logging

LEMMA PortfolioBuilds ==
  ASSUME BuildInv, Portfolio
  PROVE  BuildInv'
<1>1. /\ stage = "portfolio" /\ stage' = "rotation"
      /\ UNCHANGED <<market, fills, asOf, recs, vetoed, evidence, engine>>
  BY DEF Portfolio, world, tracking, picks, alerting
<1>2. Tracked' /\ Picked'
  BY <1>1, TrackedKept, PickedKept DEF BuildInv, Untracked, Early
<1>3. engine = NewEngine
  BY <1>1 DEF BuildInv, Alerted
<1> QED BY <1>1, <1>2, <1>3 DEF BuildInv, Alerted, CountersTold, Alerting, Logging

LEMMA PlansBuild ==
  ASSUME BuildInv, Plans
  PROVE  BuildInv'
<1>1. /\ stage = "rotation"
      /\ \/ stage' = "alerts" /\ left' = DOMAIN evidence /\ planning' = "done"
         \/ stage' = "rotation"
      /\ UNCHANGED <<market, fills, asOf, recs, vetoed, evidence, engine>>
  BY DEF Plans, world, tracking, picks, alerting
<1>2. Tracked' /\ Picked'
  BY <1>1, TrackedKept, PickedKept DEF BuildInv, Untracked, Early
<1>3. engine = NewEngine
  BY <1>1 DEF BuildInv, Alerted
<1>4. engine'.delivered = <<>> /\ engine'.keys = {} /\ Len(<<>>) = 0
  BY <1>1, <1>3 DEF NewEngine
<1>5. Delivered' = {} /\ Cardinality({}) = 0
  BY <1>4, FS_EmptySet DEF Delivered
<1>6. Alerted'
  <2>1. CASE stage' = "rotation"
    BY <1>1, <1>3, <2>1 DEF Alerted, Alerting, Logging
  <2>2. CASE stage' = "alerts" /\ left' = DOMAIN evidence /\ planning' = "done"
    <3>1. ToAlert' = DOMAIN evidence' /\ DOMAIN evidence' \ ToAlert' = {}
      BY <1>1, <2>2 DEF ToAlert
    <3> QED BY <1>4, <1>5, <2>2, <3>1 DEF Alerted, Alerting, Early
  <2> QED BY <1>1, <2>1, <2>2
<1> QED BY <1>1, <1>2, <1>6 DEF BuildInv, CountersTold, Logging

LEMMA AlertBuilds ==
  ASSUME BuildInv, AlertsTyped, RaiseAlert
  PROVE  BuildInv'
<1> DEFINE i == First(IF left \cap DOMAIN recs # {} THEN left \cap DOMAIN recs ELSE left)
           a == IF i \in DOMAIN recs THEN NewOpportunity(i, asOf) ELSE RiskVetoed(i, vetoed[i].flags)
<1>1. /\ stage = "alerts" /\ stage' = "alerts" /\ left # {} /\ left' = left \ {i}
      /\ engine' = Emitted(engine, a, Quiet, hour)
      /\ UNCHANGED <<market, fills, asOf, recs, vetoed, evidence, planning>>
  BY DEF RaiseAlert, world, tracking, picks, rotation
<1>2. Tracked' /\ Picked'
  BY <1>1, TrackedKept, PickedKept DEF BuildInv, Untracked, Early
<1>3. /\ left \subseteq DOMAIN evidence /\ planning = "done"
      /\ Delivered = DOMAIN evidence \ left
      /\ Len(engine.delivered) = Cardinality(DOMAIN evidence \ left)
      /\ \A key \in engine.keys : key[2] \notin left
      /\ DOMAIN evidence \subseteq Names
  BY <1>1 DEF BuildInv, Alerted, Alerting, ToAlert, Picked, Early
<1>4. i \in left
  <2>1. left \subseteq Names /\ left \cap DOMAIN recs \subseteq Names
    BY <1>3
  <2>2. CASE left \cap DOMAIN recs # {}
    <3>1. First(left \cap DOMAIN recs) \in left
      BY <2>1, <2>2, FirstIsOne
    <3> QED BY <2>2, <3>1
  <2>3. CASE left \cap DOMAIN recs = {}
    <3>1. First(left) \in left
      BY <1>1, <2>1, FirstIsOne
    <3> QED BY <2>3, <3>1
  <2> QED BY <2>2, <2>3
<1> HIDE DEF i
<1>5. a.name = i /\ a.key[2] = i
  <2>1. \A type, about, severity : /\ Alert(type, i, severity, about).name = i
                                   /\ Alert(type, i, severity, about).key = <<type, i, about>>
    BY DEF Alert
  <2>2. \A type, about, severity : /\ Alert(type, i, severity, about).name = i
                                   /\ Alert(type, i, severity, about).key[2] = i
    BY <2>1
  <2> QED BY <2>2 DEF NewOpportunity, RiskVetoed
<1> HIDE DEF a
<1>6. a.key \notin engine.keys
  BY <1>3, <1>4, <1>5
<1>7. engine'.keys = engine.keys \cup {a.key} /\ engine'.delivered = Append(engine.delivered, a)
  <2>1. ~IsQuiet(Quiet, hour)
    BY DayAssumption DEF IsQuiet
  <2>2. ActionOn(engine, a, Quiet, hour) = "delivered"
    BY <1>6, <2>1 DEF ActionOn
  <2> QED BY <1>1, <2>2 DEF Emitted
<1>8. PICK T, d : d \in Seq(T) /\ d = engine.delivered
  BY DEF AlertsTyped
<1>9. PICK e : e = Append(d, a)
  OBVIOUS
<1>10. /\ Len(d) \in Nat /\ Len(e) = Len(d) + 1 /\ e[Len(d) + 1] = a
       /\ \A k \in 1..Len(d) : e[k] = d[k]
  BY <1>8, <1>9
<1>11. \A k \in 1..Len(e) : k \in 1..Len(d) \/ k = Len(d) + 1
  BY <1>10
<1>12. Delivered' = Delivered \cup {i}
  <2>1. Delivered' = {e[k].name : k \in 1..Len(e)} /\ Delivered = {d[k].name : k \in 1..Len(d)}
    BY <1>7, <1>8, <1>9 DEF Delivered
  <2>2. \A k \in 1..Len(d) : k \in 1..Len(e)
    BY <1>10
  <2>3. Len(d) + 1 \in 1..Len(e)
    BY <1>10
  <2> QED BY <1>5, <1>10, <1>11, <2>1, <2>2, <2>3
<1>13. /\ DOMAIN evidence \ left' = (DOMAIN evidence \ left) \cup {i}
       /\ i \notin DOMAIN evidence \ left
  BY <1>1, <1>3, <1>4
<1>14. Cardinality(DOMAIN evidence \ left') = Cardinality(DOMAIN evidence \ left) + 1
  <2>1. DOMAIN evidence \ left \subseteq Names
    BY <1>3
  <2>2. IsFiniteSet(DOMAIN evidence \ left)
    BY <2>1, NamesAreFinite
  <2> QED BY <1>13, <2>2, FS_AddElement
<1>15. Alerted'
  <2>1. ToAlert' = left' /\ left' \subseteq left
    BY <1>1 DEF ToAlert
  <2>2. \A key \in engine'.keys : key[2] \notin left'
    BY <1>1, <1>3, <1>5, <1>7
  <2>3. Len(engine'.delivered) = Cardinality(DOMAIN evidence' \ left')
    BY <1>1, <1>3, <1>7, <1>8, <1>9, <1>10, <1>14
  <2>4. Delivered' = DOMAIN evidence' \ left'
    BY <1>1, <1>3, <1>12, <1>13
  <2> QED BY <1>1, <1>3, <2>1, <2>2, <2>3, <2>4 DEF Alerted, Early
<1> QED BY <1>1, <1>2, <1>15 DEF BuildInv, CountersTold, Logging

LEMMA CountersBuild ==
  ASSUME BuildInv, Observability
  PROVE  BuildInv'
<1>1. /\ stage = "alerts" /\ stage' = "setup" /\ left = {}
      /\ UNCHANGED <<market, fills, asOf, recs, vetoed, evidence, planning, engine>>
      /\ counters'.candidates = Cardinality(DOMAIN recs) + Cardinality(DOMAIN vetoed)
      /\ counters'.recommendations = Cardinality(DOMAIN recs)
  BY DEF Observability, world, tracking, picks, rotation, alerting
<1>2. Tracked' /\ Picked'
  BY <1>1, TrackedKept, PickedKept DEF BuildInv, Untracked, Early
<1>3. ToAlert = {} /\ ToAlert' = {}
  BY <1>1 DEF ToAlert
<1>4. Alerted'
  <2>1. Delivered' = Delivered
    BY <1>1 DEF Delivered
  <2> QED BY <1>1, <1>3, <2>1 DEF BuildInv, Alerted, Alerting, Early
<1> QED BY <1>1, <1>2, <1>4 DEF BuildInv, CountersTold

\* From the first step of the logbook on nothing that was built changes.
LEMMA BuildKept ==
  ASSUME BuildInv, UNCHANGED toldBuild, stage = "setup" \/ Logging, Logging'
  PROVE  BuildInv'
<1>1. UNCHANGED <<market, fills, asOf, recs, vetoed, evidence, planning, engine, counters>>
  BY DEF toldBuild
<1>2. ~Early /\ ~Early' /\ ~Untracked /\ ~Untracked' /\ stage' # "track"
      /\ stage # "alerts" /\ stage' # "alerts" /\ stage' \notin {"portfolio", "rotation"}
  BY DEF Logging, Early, Untracked
<1>3. Tracked' /\ Picked'
  BY <1>1, <1>2, TrackedKept, PickedKept DEF BuildInv
<1>4. ToAlert = {} /\ ToAlert' = {}
  BY <1>2 DEF ToAlert
<1>5. Alerted'
  <2>1. Delivered' = Delivered
    BY <1>1 DEF Delivered
  <2>2. Alerting
    BY DEF Alerting
  <2> HIDE DEF Early
  <2> QED BY <1>1, <1>2, <1>4, <2>1, <2>2 DEF BuildInv, Alerted
<1>6. CountersTold'
  BY <1>1 DEF BuildInv, CountersTold
<1> QED BY <1>3, <1>5, <1>6 DEF BuildInv

LEMMA BuildUntouched ==
  ASSUME BuildInv, UNCHANGED <<toldBuild, stage, left, paperDay>>
  PROVE  BuildInv'
<1>1. UNCHANGED <<market, fills, asOf, recs, vetoed, evidence, planning, engine, counters>>
  BY DEF toldBuild
<1>2. Early' = Early /\ Untracked' = Untracked /\ Logging' = Logging /\ Alerting' = Alerting
      /\ ToAlert' = ToAlert /\ Delivered' = Delivered
  BY <1>1 DEF Early, Untracked, Logging, Alerting, ToAlert, Delivered
<1>3. Picked'
  BY <1>1, <1>2, PickedKept DEF BuildInv
<1>4. Tracked'
  BY <1>1, <1>2 DEF BuildInv, Tracked, FillsTyped
<1>5. Alerted' /\ CountersTold'
  BY <1>1, <1>2 DEF BuildInv, Alerted, CountersTold
<1> QED BY <1>3, <1>4, <1>5 DEF BuildInv

-----------------------------------------------------------------------------
(* What the logbook has told so far: the names the loops have passed.      *)

RecsLogged ==
  CASE stage = "snapshot" -> {}
    [] stage = "recommendations" -> DOMAIN recs \ left
    [] stage = "decision" -> (DOMAIN recs \ left) \cup {First(left)}
    [] OTHER -> DOMAIN recs
DecisionsLogged ==
  CASE stage = "snapshot" -> {}
    [] stage \in {"recommendations", "decision"} -> DOMAIN recs \ left
    [] OTHER -> DOMAIN recs
VetoesLogged ==
  CASE stage \in {"snapshot", "recommendations", "decision"} -> {}
    [] stage = "vetoes" -> DOMAIN vetoed \ left
    [] OTHER -> DOMAIN vetoed

Visiting ==
  /\ stage \in {"recommendations", "decision"} => left \subseteq DOMAIN recs
  /\ stage = "decision" => left # {}
  /\ stage = "vetoes" => left \subseteq DOMAIN vetoed

IsTable(t) == \E T : tables[t] \in Seq(T)
Dated(t) ==
  \A k \in 1..Len(tables[t]) : /\ {"as_of", "instrument_id"} \subseteq DOMAIN tables[t][k]
                               /\ tables[t][k].as_of = asOf
IsTold(r, id) ==
  /\ r.id = id /\ r.instrument_id \in DOMAIN recIds /\ recIds[r.instrument_id] = id
  /\ r.quantity = recs[r.instrument_id].quantity
  /\ {"target", "model_version"} \subseteq DOMAIN r

RecommendationsTold ==
  /\ IsTable("recommendation") /\ Each(tables["recommendation"], RecsLogged)
  /\ Dated("recommendation")
  /\ \A k \in 1..Len(tables["recommendation"]) :
       IsTold(tables["recommendation"][k], <<"recommendation", k>>)
DecisionsTold ==
  IsTable("decision_log") /\ Each(tables["decision_log"], DecisionsLogged) /\ Dated("decision_log")
VetoesTold == IsTable("risk_veto") /\ Each(tables["risk_veto"], VetoesLogged) /\ Dated("risk_veto")

Closing == stage \in {"fills", "serving"}
Told(c) == <<c.action, c.instrument_id, c.from_instrument>>
Planning == {<<m.action, m.name, m.from>> : m \in moves}
PlanTold ==
  LET plans == tables["daily_portfolio_plan"]
      changes == tables["recommended_change"]
  IN /\ IsTable("daily_portfolio_plan") /\ IsTable("recommended_change")
     /\ ~Closing => plans = <<>> /\ changes = <<>>
     /\ Closing =>
          /\ Len(plans) = 1 /\ plans[1].plan_date = asOf /\ "changes" \notin DOMAIN plans[1]
          /\ Len(changes) <= DayLimit
          /\ \A k \in 1..Len(changes) : changes[k].plan_id = plans[1].id
          /\ {Told(changes[k]) : k \in 1..Len(changes)} = Planning

HoldingsTold ==
  LET held == tables["holding_snapshot"]
  IN /\ stage = "snapshot" => held = <<>>
     /\ stage # "snapshot" =>
          /\ Each(held, Held)
          /\ \A k \in 1..Len(held) : held[k].quantity = Quantities[held[k].instrument_id]

FillsTold ==
  LET rows == tables["paper_fill"]
  IN /\ IsTable("paper_fill") /\ Len(rows) <= Len(fills)
     /\ \A k \in 1..Len(rows) : rows[k].session_date = fills[k].session_date
     /\ stage = "serving" => Len(rows) = Len(fills)

AlertsTold ==
  LET rows == tables["alert_delivery"]
  IN /\ IsTable("alert_delivery") /\ Len(rows) <= Len(engine.delivered)
     /\ \A k \in 1..Len(rows) : rows[k].instrument_id = engine.delivered[k].name
     /\ stage = "serving" => Len(rows) = Len(engine.delivered)

BookInv ==
  Logging =>
    /\ Visiting /\ RecommendationsTold /\ DecisionsTold /\ VetoesTold
    /\ PlanTold /\ HoldingsTold /\ FillsTold /\ AlertsTold

Kept(t) == tables'[t] = tables[t]

LEMMA RecommendationsKept ==
  ASSUME RecommendationsTold, Kept("recommendation"), UNCHANGED <<recs, recIds, asOf>>,
         RecsLogged' = RecsLogged
  PROVE  RecommendationsTold'
BY DEF RecommendationsTold, Kept, IsTable, Dated, IsTold, Each, NamesIn

LEMMA DecisionsKept ==
  ASSUME DecisionsTold, Kept("decision_log"), UNCHANGED asOf, DecisionsLogged' = DecisionsLogged
  PROVE  DecisionsTold'
BY DEF DecisionsTold, Kept, IsTable, Dated, Each, NamesIn

LEMMA VetoesKept ==
  ASSUME VetoesTold, Kept("risk_veto"), UNCHANGED asOf, VetoesLogged' = VetoesLogged
  PROVE  VetoesTold'
BY DEF VetoesTold, Kept, IsTable, Dated, Each, NamesIn

LEMMA PlanKept ==
  ASSUME PlanTold, Kept("daily_portfolio_plan"), Kept("recommended_change"),
         UNCHANGED <<asOf, moves>>, Closing' = Closing
  PROVE  PlanTold'
<1>1. Planning' = Planning
  BY DEF Planning
<1> QED BY <1>1 DEF PlanTold, Kept, IsTable

LEMMA HoldingsKept ==
  ASSUME HoldingsTold, Kept("holding_snapshot"), UNCHANGED holdings,
         stage # "snapshot", stage' # "snapshot"
  PROVE  HoldingsTold'
BY DEF HoldingsTold, Kept, Each, NamesIn, Held

LEMMA FillsKept ==
  ASSUME FillsTold, Kept("paper_fill"), UNCHANGED fills,
         stage' = "serving" => stage = "serving" \/ Len(tables["paper_fill"]) = Len(fills)
  PROVE  FillsTold'
BY DEF FillsTold, Kept, IsTable

LEMMA AlertsKept ==
  ASSUME AlertsTold, Kept("alert_delivery"), UNCHANGED engine,
         stage' = "serving" => stage = "serving" \/ Len(tables["alert_delivery"]) = Len(engine.delivered)
  PROVE  AlertsTold'
BY DEF AlertsTold, Kept, IsTable

\* A row that is added is added to its table alone.
LEMMA AddsThere ==
  ASSUME NEW t, NEW fields, Add(t, fields)
  PROVE  \A u \in Tables : u # t => Kept(u)
BY DEF Add, Commits, Kept

LEMMA TablesThere ==
  /\ "recommendation" \in Tables /\ "decision_log" \in Tables /\ "risk_veto" \in Tables
  /\ "daily_portfolio_plan" \in Tables /\ "recommended_change" \in Tables
  /\ "holding_snapshot" \in Tables /\ "paper_fill" \in Tables /\ "alert_delivery" \in Tables
BY DEF Tables, Required

\* The new logbook.
LEMMA SetupTells ==
  ASSUME BuildInv, AlertsTyped, LogbookSetup
  PROVE  BookInv'
<1>1. stage' = "snapshot" /\ \A t \in Tables : tables'[t] = <<>>
  BY DEF LogbookSetup, Created
<1>2. NamesIn(<<>>) = {} /\ <<>> \in Seq({}) /\ Len(<<>>) = 0 /\ 1..0 = {}
  BY DEF NamesIn
<1>3. Each(<<>>, {})
  BY <1>2, FS_EmptySet DEF Each
<1>4. RecsLogged' = {} /\ DecisionsLogged' = {} /\ VetoesLogged' = {} /\ ~Closing' /\ Visiting'
  BY <1>1 DEF RecsLogged, DecisionsLogged, VetoesLogged, Closing, Visiting
<1>5. RecommendationsTold'
  <2>1. tables'["recommendation"] = <<>>
    BY <1>1, TablesThere
  <2> QED BY <1>2, <1>3, <1>4, <2>1 DEF RecommendationsTold, IsTable, Dated, Each, NamesIn
<1>6. DecisionsTold'
  <2>1. tables'["decision_log"] = <<>>
    BY <1>1, TablesThere
  <2> QED BY <1>2, <1>3, <1>4, <2>1 DEF DecisionsTold, IsTable, Dated, Each, NamesIn
<1>7. VetoesTold'
  <2>1. tables'["risk_veto"] = <<>>
    BY <1>1, TablesThere
  <2> QED BY <1>2, <1>3, <1>4, <2>1 DEF VetoesTold, IsTable, Dated, Each, NamesIn
<1>8. PlanTold'
  BY <1>1, <1>2, <1>4, TablesThere DEF PlanTold, IsTable
<1>9. HoldingsTold'
  BY <1>1, TablesThere DEF HoldingsTold
<1>10. FillsTold'
  <2>1. tables'["paper_fill"] = <<>> /\ fills' = fills
    BY <1>1, TablesThere DEF LogbookSetup, unlogged, tracking
  <2>2. Len(fills) \in Nat
    BY DEF BuildInv, Tracked, FillsTyped
  <2> QED BY <1>1, <1>2, <2>1, <2>2 DEF FillsTold, IsTable
<1>11. AlertsTold'
  <2>1. tables'["alert_delivery"] = <<>> /\ engine' = engine
    BY <1>1, TablesThere DEF LogbookSetup, unlogged, alerting
  <2>2. Len(engine.delivered) \in Nat
    BY DEF AlertsTyped
  <2> QED BY <1>1, <1>2, <2>1, <2>2 DEF AlertsTold, IsTable
<1> QED BY <1>4, <1>5, <1>6, <1>7, <1>8, <1>9, <1>10, <1>11 DEF BookInv

-----------------------------------------------------------------------------
(* Each session of the logbook tells its rows.                             *)

\* Nothing of the build changes while the logbook is written.
LEMMA UnloggedKept ==
  ASSUME UNCHANGED unlogged
  PROVE  /\ UNCHANGED toldBuild
         /\ UNCHANGED <<market, fills, asOf, recs, vetoed, evidence, planning, engine, counters>>
         /\ UNCHANGED <<moves, holdings, paperDay>>
BY DEF unlogged, world, tracking, picks, rotation, alerting, toldBuild

\* A row about another name more, dated.
LEMMA RowTold ==
  ASSUME NEW t \in Tables, IsTable(t), Dated(t), UNCHANGED asOf,
         NEW rows, rows = tables[t], NEW more, more = tables'[t],
         NEW S, S \subseteq Names, Each(rows, S),
         NEW i, i \notin S, NEW fields, Add(t, fields),
         {"as_of", "instrument_id"} \subseteq DOMAIN fields,
         fields.instrument_id = i, fields.as_of = asOf
  PROVE  IsTable(t)' /\ Dated(t)' /\ Each(more, S \cup {i})
<1>1. PICK T : rows = tables[t] /\ rows \in Seq(T)
  BY DEF IsTable
<1>2. more = tables'[t]
  OBVIOUS
<1>3. PICK U : /\ more \in Seq(U) /\ Len(more) = Len(rows) + 1 /\ Len(rows) \in Nat
               /\ \A k \in 1..Len(rows) : more[k] = rows[k]
               /\ more[Len(rows) + 1] = With(fields, "id", <<t, Len(rows) + 1>>)
  BY <1>1, <1>2, RowAdded
<1>4. PICK row : row = more[Len(rows) + 1]
  OBVIOUS
<1>5. row.instrument_id = i /\ row.as_of = asOf /\ {"as_of", "instrument_id"} \subseteq DOMAIN row
  <2>1. PICK v : row = With(fields, "id", v)
    BY <1>3, <1>4
  <2>2. /\ DOMAIN row = DOMAIN fields \cup {"id"}
        /\ \A d \in DOMAIN fields : d # "id" => row[d] = fields[d]
    BY <2>1 DEF With
  <2> QED BY <2>2
<1>6. IsFiniteSet(S)
  BY NamesAreFinite
<1>7. Each(more, S \cup {i})
  <2>1. Each(rows, S) /\ more[Len(rows) + 1].instrument_id = i
    BY <1>1, <1>4, <1>5
  <2> QED BY <1>1, <1>3, <1>6, <2>1, EachMore
<1>8. \A k \in 1..Len(more) : k \in 1..Len(rows) \/ k = Len(rows) + 1
  BY <1>3
<1>9. \A k \in 1..Len(more) : /\ {"as_of", "instrument_id"} \subseteq DOMAIN more[k]
                              /\ more[k].as_of = asOf
  BY <1>1, <1>3, <1>4, <1>5, <1>8 DEF Dated
<1>10. Dated(t)'
  BY <1>2, <1>9 DEF Dated
<1>11. IsTable(t)'
  BY <1>2, <1>3 DEF IsTable
<1> QED BY <1>1, <1>2, <1>3, <1>7, <1>10, <1>11

LEMMA RecommendationTells ==
  ASSUME BuildInv, BookInv, LogRecommendation
  PROVE  BookInv'
<1>0. PICK i, id, r, rows, more :
        /\ i = First(left) /\ id = NextId("recommendation") /\ r = recs[i]
        /\ rows = tables["recommendation"] /\ more = tables'["recommendation"]
  OBVIOUS
<1>1. /\ stage = "recommendations" /\ stage' = "decision" /\ left # {} /\ UNCHANGED left
      /\ recIds' = With(recIds, i, id)
      /\ UNCHANGED unlogged
  BY <1>0 DEF LogRecommendation
<1>2. PICK fields : /\ Add("recommendation", fields)
                    /\ {"as_of", "instrument_id", "quantity", "target", "model_version"}
                         \subseteq DOMAIN fields
                    /\ "id" \notin DOMAIN fields
                    /\ fields.instrument_id = i /\ fields.as_of = r.asOf
                    /\ fields.quantity = r.quantity
  BY <1>0 DEF LogRecommendation
<1>3. /\ Visiting /\ RecommendationsTold /\ DecisionsTold /\ VetoesTold
      /\ PlanTold /\ HoldingsTold /\ FillsTold /\ AlertsTold
  BY <1>1 DEF BookInv, Logging
<1>4. UNCHANGED <<fills, asOf, recs, vetoed, engine, moves, holdings>>
  BY <1>1, UnloggedKept
<1>5. left \subseteq DOMAIN recs /\ DOMAIN recs \subseteq Names /\ \A j \in DOMAIN recs : Complete(j)
  BY <1>1, <1>3 DEF Visiting, BuildInv, Picked, Early
<1>6. i \in left /\ r.asOf = asOf
  <2>1. i \in left
    BY <1>0, <1>1, <1>5, FirstIsOne
  <2> QED BY <1>0, <1>5, <2>1 DEF Complete
<1>7. RecsLogged = DOMAIN recs \ left /\ RecsLogged' = (DOMAIN recs \ left) \cup {i}
  BY <1>0, <1>1, <1>4 DEF RecsLogged
<1>8. /\ IsTable("recommendation")' /\ Dated("recommendation")'
      /\ Each(more, RecsLogged')
      /\ Len(more) = Len(rows) + 1 /\ Len(rows) \in Nat
      /\ \A k \in 1..Len(rows) : more[k] = rows[k]
      /\ more[Len(rows) + 1] = With(fields, "id", <<"recommendation", Len(rows) + 1>>)
  <2>1. PICK S : S = DOMAIN recs \ left
    OBVIOUS
  <2>2. S \subseteq Names /\ i \notin S /\ Each(rows, S)
    BY <1>0, <1>3, <1>5, <1>6, <1>7, <2>1 DEF RecommendationsTold
  <2>3. IsTable("recommendation") /\ Dated("recommendation")
    BY <1>3 DEF RecommendationsTold
  <2>4. fields.as_of = asOf /\ {"as_of", "instrument_id"} \subseteq DOMAIN fields
    BY <1>2, <1>6
  <2>5. /\ IsTable("recommendation")' /\ Dated("recommendation")' /\ Each(more, S \cup {i})
        /\ Len(more) = Len(rows) + 1 /\ Len(rows) \in Nat
        /\ \A k \in 1..Len(rows) : more[k] = rows[k]
        /\ more[Len(rows) + 1] = With(fields, "id", <<"recommendation", Len(rows) + 1>>)
    <3>1. /\ "recommendation" \in Tables /\ asOf' = asOf
          /\ rows = tables["recommendation"] /\ more = tables'["recommendation"]
          /\ Add("recommendation", fields) /\ fields.instrument_id = i
      BY <1>0, <1>2, <1>4, TablesThere
    <3>2. IsTable("recommendation")' /\ Dated("recommendation")' /\ Each(more, S \cup {i})
      BY <3>1, <2>2, <2>3, <2>4, RowTold
    <3>3. PICK T : rows \in Seq(T)
      BY <3>1, <2>3 DEF IsTable
    <3> QED BY <3>1, <3>2, <3>3, RowAdded
  <2> QED BY <1>7, <2>1, <2>5
<1>9. id = <<"recommendation", Len(rows) + 1>>
  BY <1>0 DEF NextId
<1>10. /\ DOMAIN recIds' = DOMAIN recIds \cup {i} /\ recIds'[i] = id
       /\ \A j \in DOMAIN recIds : j # i => recIds'[j] = recIds[j]
  BY <1>1 DEF With
<1>11. ASSUME NEW k \in 1..Len(more) PROVE IsTold(more[k], <<"recommendation", k>>)'
  <2>1. CASE k \in 1..Len(rows)
    <3>1. IsTold(rows[k], <<"recommendation", k>>) /\ more[k] = rows[k]
      BY <1>0, <1>3, <1>8, <2>1 DEF RecommendationsTold
    <3>2. rows[k].instrument_id # i
      <4>1. rows[k].instrument_id \in DOMAIN recs \ left
        BY <1>0, <1>3, <1>7, <2>1 DEF RecommendationsTold, Each, NamesIn
      <4> QED BY <1>6, <4>1
    <3> QED BY <1>4, <1>10, <3>1, <3>2 DEF IsTold
  <2>2. CASE k = Len(rows) + 1
    <3>1. more[k] = With(fields, "id", id)
      BY <1>8, <1>9, <2>2
    <3>2. /\ more[k].id = id /\ more[k].instrument_id = i /\ more[k].quantity = r.quantity
          /\ {"target", "model_version"} \subseteq DOMAIN more[k]
      <4>1. /\ DOMAIN more[k] = DOMAIN fields \cup {"id"} /\ more[k]["id"] = id
            /\ \A d \in DOMAIN fields : d # "id" => more[k][d] = fields[d]
        BY <3>1 DEF With
      <4> QED BY <1>2, <4>1
    <3> QED BY <1>0, <1>4, <1>9, <1>10, <2>2, <3>2 DEF IsTold
  <2> QED BY <1>8, <2>1, <2>2
<1>12. RecommendationsTold'
  BY <1>0, <1>8, <1>11 DEF RecommendationsTold
<1>13. \A u \in Tables : u # "recommendation" => Kept(u)
  BY <1>2, AddsThere
<1>14. DecisionsLogged' = DecisionsLogged /\ VetoesLogged' = VetoesLogged /\ Closing' = Closing
  BY <1>1, <1>4 DEF DecisionsLogged, VetoesLogged, Closing
<1>15. DecisionsTold' /\ VetoesTold'
  BY <1>3, <1>4, <1>13, <1>14, TablesThere, DecisionsKept, VetoesKept
<1>16. PlanTold' /\ HoldingsTold'
  BY <1>1, <1>3, <1>4, <1>13, <1>14, TablesThere, PlanKept, HoldingsKept
<1>17. FillsTold' /\ AlertsTold'
  BY <1>1, <1>3, <1>4, <1>13, TablesThere, FillsKept, AlertsKept
<1>18. Visiting'
  BY <1>1, <1>3, <1>4 DEF Visiting
<1> QED BY <1>12, <1>15, <1>16, <1>17, <1>18 DEF BookInv

\* The parts of the logbook's invariant, while it is written.
BookTold ==
  /\ Visiting /\ RecommendationsTold /\ DecisionsTold /\ VetoesTold
  /\ PlanTold /\ HoldingsTold /\ FillsTold /\ AlertsTold

LEMMA DecisionTells ==
  ASSUME BuildInv, BookInv, LogDecision
  PROVE  BookInv'
<1>0. PICK i, rows, more :
        i = First(left) /\ rows = tables["decision_log"] /\ more = tables'["decision_log"]
  OBVIOUS
<1>1. /\ stage = "decision" /\ stage' = "recommendations" /\ left' = left \ {i}
      /\ UNCHANGED <<unlogged, recIds>>
  BY <1>0 DEF LogDecision
<1>2. PICK fields : /\ Add("decision_log", fields)
                    /\ {"as_of", "instrument_id"} \subseteq DOMAIN fields
                    /\ fields.instrument_id = i /\ fields.as_of = asOf
  BY <1>0 DEF LogDecision
<1>3. BookTold
  BY <1>1 DEF BookInv, BookTold, Logging
<1>4. UNCHANGED <<fills, asOf, recs, vetoed, engine, moves, holdings>>
  BY <1>1, UnloggedKept
<1>5. left \subseteq DOMAIN recs /\ left # {} /\ DOMAIN recs \subseteq Names
  BY <1>1, <1>3 DEF BookTold, Visiting, BuildInv, Picked, Early
<1>6. i \in left
  <2>1. left \subseteq Names
    BY <1>5
  <2> QED BY <1>0, <1>5, <2>1, FirstIsOne
<1>7. /\ DecisionsLogged = DOMAIN recs \ left /\ DecisionsLogged' = (DOMAIN recs \ left) \cup {i}
      /\ RecsLogged = (DOMAIN recs \ left) \cup {i} /\ RecsLogged' = (DOMAIN recs \ left) \cup {i}
  <2>1. DOMAIN recs \ (left \ {i}) = (DOMAIN recs \ left) \cup {i}
    BY <1>5, <1>6
  <2> QED BY <1>0, <1>1, <1>4, <2>1 DEF DecisionsLogged, RecsLogged
<1>8. DecisionsTold'
  <2>1. PICK S : S = DOMAIN recs \ left
    OBVIOUS
  <2>2. S \subseteq Names /\ i \notin S /\ Each(rows, S) /\ IsTable("decision_log") /\ Dated("decision_log")
    BY <1>0, <1>3, <1>5, <1>6, <1>7, <2>1 DEF BookTold, DecisionsTold
  <2>3. "decision_log" \in Tables /\ asOf' = asOf /\ rows = tables["decision_log"] /\ more = tables'["decision_log"]
    BY <1>0, <1>4, TablesThere
  <2>4. IsTable("decision_log")' /\ Dated("decision_log")' /\ Each(more, S \cup {i})
    BY <1>2, <2>2, <2>3, RowTold
  <2> QED BY <1>7, <2>1, <2>3, <2>4 DEF DecisionsTold
<1>9. \A u \in Tables : u # "decision_log" => Kept(u)
  BY <1>2, AddsThere
<1>10. VetoesLogged' = VetoesLogged /\ Closing' = Closing /\ recIds' = recIds
  BY <1>1, <1>4 DEF VetoesLogged, Closing
<1>11. RecommendationsTold' /\ VetoesTold'
  BY <1>3, <1>4, <1>7, <1>9, <1>10, TablesThere, RecommendationsKept, VetoesKept DEF BookTold
<1>12. PlanTold' /\ HoldingsTold'
  BY <1>1, <1>3, <1>4, <1>9, <1>10, TablesThere, PlanKept, HoldingsKept DEF BookTold
<1>13. FillsTold' /\ AlertsTold'
  BY <1>1, <1>3, <1>4, <1>9, TablesThere, FillsKept, AlertsKept DEF BookTold
<1>14. Visiting'
  BY <1>1, <1>4, <1>5 DEF Visiting
<1> QED BY <1>8, <1>11, <1>12, <1>13, <1>14 DEF BookInv

LEMMA VetoTells ==
  ASSUME BuildInv, BookInv, LogVeto
  PROVE  BookInv'
<1>0. PICK i, rows, more :
        i = First(left) /\ rows = tables["risk_veto"] /\ more = tables'["risk_veto"]
  OBVIOUS
<1>1. /\ stage = "vetoes" /\ stage' = "vetoes" /\ left # {} /\ left' = left \ {i}
      /\ UNCHANGED <<unlogged, recIds>>
  BY <1>0 DEF LogVeto
<1>2. PICK fields : /\ Add("risk_veto", fields)
                    /\ {"as_of", "instrument_id"} \subseteq DOMAIN fields
                    /\ fields.instrument_id = i /\ fields.as_of = asOf
  BY <1>0 DEF LogVeto
<1>3. BookTold
  BY <1>1 DEF BookInv, BookTold, Logging
<1>4. UNCHANGED <<fills, asOf, recs, vetoed, engine, moves, holdings>>
  BY <1>1, UnloggedKept
<1>5. left \subseteq DOMAIN vetoed /\ DOMAIN vetoed \subseteq Names
  BY <1>1, <1>3 DEF BookTold, Visiting, BuildInv, Picked, Early
<1>6. i \in left
  <2>1. left \subseteq Names
    BY <1>5
  <2> QED BY <1>0, <1>1, <2>1, FirstIsOne
<1>7. VetoesLogged = DOMAIN vetoed \ left /\ VetoesLogged' = (DOMAIN vetoed \ left) \cup {i}
  <2>1. DOMAIN vetoed \ (left \ {i}) = (DOMAIN vetoed \ left) \cup {i}
    BY <1>5, <1>6
  <2> QED BY <1>1, <1>4, <2>1 DEF VetoesLogged
<1>8. VetoesTold'
  <2>1. PICK S : S = DOMAIN vetoed \ left
    OBVIOUS
  <2>2. S \subseteq Names /\ i \notin S /\ Each(rows, S) /\ IsTable("risk_veto") /\ Dated("risk_veto")
    BY <1>0, <1>3, <1>5, <1>6, <1>7, <2>1 DEF BookTold, VetoesTold
  <2>3. "risk_veto" \in Tables /\ asOf' = asOf /\ rows = tables["risk_veto"] /\ more = tables'["risk_veto"]
    BY <1>0, <1>4, TablesThere
  <2>4. IsTable("risk_veto")' /\ Dated("risk_veto")' /\ Each(more, S \cup {i})
    BY <1>2, <2>2, <2>3, RowTold
  <2> QED BY <1>7, <2>1, <2>3, <2>4 DEF VetoesTold
<1>9. \A u \in Tables : u # "risk_veto" => Kept(u)
  BY <1>2, AddsThere
<1>10. /\ RecsLogged' = RecsLogged /\ DecisionsLogged' = DecisionsLogged
       /\ Closing' = Closing /\ recIds' = recIds
  BY <1>1, <1>4 DEF RecsLogged, DecisionsLogged, Closing
<1>11. RecommendationsTold' /\ DecisionsTold'
  BY <1>3, <1>4, <1>9, <1>10, TablesThere, RecommendationsKept, DecisionsKept DEF BookTold
<1>12. PlanTold' /\ HoldingsTold'
  BY <1>1, <1>3, <1>4, <1>9, <1>10, TablesThere, PlanKept, HoldingsKept DEF BookTold
<1>13. FillsTold' /\ AlertsTold'
  BY <1>1, <1>3, <1>4, <1>9, TablesThere, FillsKept, AlertsKept DEF BookTold
<1>14. Visiting'
  BY <1>1, <1>4, <1>5 DEF Visiting
<1> QED BY <1>8, <1>11, <1>12, <1>13, <1>14 DEF BookInv

\* The step from one loop to the next, and to the terminal that serves.
LEMMA BookTurns ==
  ASSUME BuildInv, BookInv, RecommendationsLogged \/ Serves
  PROVE  BookInv'
<1>1. UNCHANGED <<unlogged, recIds, tables>>
  BY DEF RecommendationsLogged, Serves, book
<1>2. \/ stage = "recommendations" /\ left = {} /\ stage' = "vetoes" /\ left' = DOMAIN vetoed
      \/ /\ stage = "fills" /\ stage' = "serving" /\ left' = left
         /\ Len(tables["paper_fill"]) >= Len(fills)
         /\ Len(tables["alert_delivery"]) >= Len(engine.delivered)
  BY DEF RecommendationsLogged, Serves
<1>3. BookTold
  BY <1>2 DEF BookInv, BookTold, Logging
<1>4. UNCHANGED <<fills, asOf, recs, vetoed, engine, moves, holdings>>
  BY <1>1, UnloggedKept
<1>5. \A u : Kept(u)
  BY <1>1 DEF Kept
<1>6. /\ RecsLogged' = RecsLogged /\ DecisionsLogged' = DecisionsLogged
      /\ VetoesLogged' = VetoesLogged /\ Closing' = Closing
  <2>1. CASE stage = "recommendations" /\ left = {} /\ stage' = "vetoes" /\ left' = DOMAIN vetoed
    <3>1. /\ RecsLogged = DOMAIN recs \ left /\ RecsLogged' = DOMAIN recs'
          /\ DecisionsLogged = DOMAIN recs \ left /\ DecisionsLogged' = DOMAIN recs'
          /\ VetoesLogged = {} /\ VetoesLogged' = DOMAIN vetoed' \ left' /\ Closing' = Closing
      BY <2>1 DEF RecsLogged, DecisionsLogged, VetoesLogged, Closing
    <3>2. DOMAIN recs \ left = DOMAIN recs /\ DOMAIN vetoed' \ left' = {}
      BY <1>4, <2>1
    <3> QED BY <1>4, <3>1, <3>2
  <2>2. CASE stage = "fills" /\ stage' = "serving"
    BY <1>4, <2>2 DEF RecsLogged, DecisionsLogged, VetoesLogged, Closing
  <2> QED BY <1>2, <2>1, <2>2
<1>7. RecommendationsTold' /\ DecisionsTold' /\ VetoesTold'
  BY <1>1, <1>3, <1>4, <1>5, <1>6, RecommendationsKept, DecisionsKept, VetoesKept DEF BookTold
<1>8. PlanTold' /\ HoldingsTold'
  BY <1>2, <1>3, <1>4, <1>5, <1>6, PlanKept, HoldingsKept DEF BookTold
<1>9. FillsTold'
  <2>1. stage' = "serving" => stage = "serving" \/ Len(tables["paper_fill"]) = Len(fills)
    <3>1. Len(fills) \in Nat
      BY DEF BuildInv, Tracked, FillsTyped
    <3>2. Len(tables["paper_fill"]) \in Nat /\ Len(tables["paper_fill"]) <= Len(fills)
      BY <1>3 DEF BookTold, FillsTold, IsTable
    <3> QED BY <1>2, <3>1, <3>2
  <2> QED BY <1>3, <1>4, <1>5, <2>1, FillsKept DEF BookTold
<1>10. AlertsTold'
  <2>1. stage' = "serving" =>
          stage = "serving" \/ Len(tables["alert_delivery"]) = Len(engine.delivered)
    <3>1. Len(engine.delivered) \in Nat
      <4>1. Alerting /\ DOMAIN evidence \ ToAlert \subseteq Names
        BY <1>2 DEF BuildInv, Picked, Early, Alerting, Logging
      <4>2. IsFiniteSet(DOMAIN evidence \ ToAlert)
        BY <4>1, NamesAreFinite
      <4>3. Cardinality(DOMAIN evidence \ ToAlert) \in Nat
        BY <4>2, FS_CardinalityType
      <4> QED BY <4>1, <4>3 DEF BuildInv, Alerted
    <3>2. /\ Len(tables["alert_delivery"]) \in Nat
          /\ Len(tables["alert_delivery"]) <= Len(engine.delivered)
      BY <1>3 DEF BookTold, AlertsTold, IsTable
    <3> QED BY <1>2, <3>1, <3>2
  <2> QED BY <1>3, <1>4, <1>5, <2>1, AlertsKept DEF BookTold
<1>11. Visiting'
  BY <1>2, <1>4 DEF Visiting
<1> QED BY <1>7, <1>8, <1>9, <1>10, <1>11 DEF BookInv

LEMMA FillTells ==
  ASSUME BuildInv, BookInv, LogFill
  PROVE  BookInv'
<1>0. PICK rows, more : rows = tables["paper_fill"] /\ more = tables'["paper_fill"]
  OBVIOUS
<1>1. /\ stage = "fills" /\ stage' = "fills" /\ left' = left
      /\ UNCHANGED <<unlogged, recIds>>
      /\ Len(rows) < Len(fills) /\ Add("paper_fill", fills[Len(rows) + 1])
  BY <1>0 DEF LogFill
<1>2. BookTold
  BY <1>1 DEF BookInv, BookTold, Logging
<1>3. UNCHANGED <<fills, asOf, recs, vetoed, engine, moves, holdings>>
  BY <1>1, UnloggedKept
<1>4. PICK T : rows \in Seq(T)
  BY <1>0, <1>2 DEF BookTold, FillsTold, IsTable
<1>5. PICK U : /\ more \in Seq(U) /\ Len(more) = Len(rows) + 1 /\ Len(rows) \in Nat
               /\ \A k \in 1..Len(rows) : more[k] = rows[k]
               /\ more[Len(rows) + 1] = With(fills[Len(rows) + 1], "id", <<"paper_fill", Len(rows) + 1>>)
  BY <1>0, <1>1, <1>4, RowAdded, TablesThere
<1>6. Len(fills) \in Nat /\ \A k \in 1..Len(fills) : "session_date" \in DOMAIN fills[k]
  BY DEF BuildInv, Tracked, FillsTyped
<1>7. Len(more) <= Len(fills) /\ Len(rows) + 1 \in 1..Len(fills)
  BY <1>1, <1>5, <1>6
<1>8. more[Len(rows) + 1].session_date = fills[Len(rows) + 1].session_date
  <2>1. PICK f, id : f = fills[Len(rows) + 1] /\ id = <<"paper_fill", Len(rows) + 1>>
    OBVIOUS
  <2>2. "session_date" \in DOMAIN f /\ more[Len(rows) + 1] = With(f, "id", id)
    BY <1>5, <1>6, <1>7, <2>1
  <2>3. With(f, "id", id)["session_date"] = f["session_date"]
    BY <2>2 DEF With
  <2> QED BY <2>1, <2>2, <2>3
<1>9. \A k \in 1..Len(more) : more[k].session_date = fills[k].session_date
  <2>1. \A k \in 1..Len(more) : k \in 1..Len(rows) \/ k = Len(rows) + 1
    BY <1>5
  <2>2. \A k \in 1..Len(rows) : rows[k].session_date = fills[k].session_date
    BY <1>0, <1>2 DEF BookTold, FillsTold
  <2> QED BY <1>5, <1>8, <2>1, <2>2
<1>10. FillsTold'
  BY <1>0, <1>1, <1>3, <1>5, <1>7, <1>9 DEF FillsTold, IsTable
<1>11. \A u \in Tables : u # "paper_fill" => Kept(u)
  BY <1>1, AddsThere
<1>12. /\ RecsLogged' = RecsLogged /\ DecisionsLogged' = DecisionsLogged
       /\ VetoesLogged' = VetoesLogged /\ Closing' = Closing /\ recIds' = recIds
  BY <1>1, <1>3 DEF RecsLogged, DecisionsLogged, VetoesLogged, Closing
<1>13. RecommendationsTold' /\ DecisionsTold' /\ VetoesTold'
  BY <1>2, <1>3, <1>11, <1>12, TablesThere, RecommendationsKept, DecisionsKept, VetoesKept
     DEF BookTold
<1>14. PlanTold' /\ HoldingsTold' /\ AlertsTold'
  BY <1>1, <1>2, <1>3, <1>11, <1>12, TablesThere, PlanKept, HoldingsKept, AlertsKept DEF BookTold
<1>15. Visiting'
  BY <1>1 DEF Visiting
<1> QED BY <1>10, <1>13, <1>14, <1>15 DEF BookInv

LEMMA AlertTells ==
  ASSUME BuildInv, BookInv, AlertsTyped, LogAlert
  PROVE  BookInv'
<1>0. PICK rows, more, d, fields :
        /\ rows = tables["alert_delivery"] /\ more = tables'["alert_delivery"]
        /\ d = engine.delivered
        /\ fields = [alert_type |-> d[Len(rows) + 1].type, instrument_id |-> d[Len(rows) + 1].name,
                     severity |-> d[Len(rows) + 1].severity]
  OBVIOUS
<1>1. /\ stage = "fills" /\ stage' = "fills" /\ left' = left
      /\ UNCHANGED <<unlogged, recIds>>
      /\ Len(rows) < Len(d) /\ Add("alert_delivery", fields)
  BY <1>0 DEF LogAlert
<1>2. BookTold
  BY <1>1 DEF BookInv, BookTold, Logging
<1>3. UNCHANGED <<fills, asOf, recs, vetoed, engine, moves, holdings>>
  BY <1>1, UnloggedKept
<1>4. PICK T : rows \in Seq(T)
  BY <1>0, <1>2 DEF BookTold, AlertsTold, IsTable
<1>5. PICK U : /\ more \in Seq(U) /\ Len(more) = Len(rows) + 1 /\ Len(rows) \in Nat
               /\ \A k \in 1..Len(rows) : more[k] = rows[k]
               /\ more[Len(rows) + 1] = With(fields, "id", <<"alert_delivery", Len(rows) + 1>>)
  BY <1>0, <1>1, <1>4, RowAdded, TablesThere
<1>6. Len(d) \in Nat
  BY <1>0 DEF AlertsTyped
<1>7. Len(more) <= Len(d)
  BY <1>1, <1>5, <1>6
<1>8. more[Len(rows) + 1].instrument_id = d[Len(rows) + 1].name
  <2>1. fields.instrument_id = d[Len(rows) + 1].name /\ "instrument_id" \in DOMAIN fields
    BY <1>0
  <2>2. PICK id : id = <<"alert_delivery", Len(rows) + 1>>
    OBVIOUS
  <2>3. With(fields, "id", id)["instrument_id"] = fields["instrument_id"]
    BY <2>1 DEF With
  <2> QED BY <1>5, <2>1, <2>2, <2>3
<1>9. \A k \in 1..Len(more) : more[k].instrument_id = d[k].name
  <2>1. \A k \in 1..Len(more) : k \in 1..Len(rows) \/ k = Len(rows) + 1
    BY <1>5
  <2>2. \A k \in 1..Len(rows) : rows[k].instrument_id = d[k].name
    BY <1>0, <1>2 DEF BookTold, AlertsTold
  <2> QED BY <1>5, <1>8, <2>1, <2>2
<1>10. AlertsTold'
  BY <1>0, <1>1, <1>3, <1>5, <1>7, <1>9 DEF AlertsTold, IsTable
<1>11. \A u \in Tables : u # "alert_delivery" => Kept(u)
  BY <1>1, AddsThere
<1>12. /\ RecsLogged' = RecsLogged /\ DecisionsLogged' = DecisionsLogged
       /\ VetoesLogged' = VetoesLogged /\ Closing' = Closing /\ recIds' = recIds
  BY <1>1, <1>3 DEF RecsLogged, DecisionsLogged, VetoesLogged, Closing
<1>13. RecommendationsTold' /\ DecisionsTold' /\ VetoesTold'
  BY <1>2, <1>3, <1>11, <1>12, TablesThere, RecommendationsKept, DecisionsKept, VetoesKept
     DEF BookTold
<1>14. PlanTold' /\ HoldingsTold' /\ FillsTold'
  BY <1>1, <1>2, <1>3, <1>11, <1>12, TablesThere, PlanKept, HoldingsKept, FillsKept DEF BookTold
<1>15. Visiting'
  BY <1>1 DEF Visiting
<1> QED BY <1>10, <1>13, <1>14, <1>15 DEF BookInv

\* The rows of a session in a table that has none yet.
LEMMA FirstRows ==
  ASSUME NEW t \in Tables, tables[t] = <<>>, NEW new, Commits(new), t \in DOMAIN new,
         NEW T, NEW all \in Seq(T), all = new[t]
  PROVE  /\ IsTable(t)' /\ Len(tables'[t]) = Len(all) /\ Len(all) \in Nat
         /\ \A k \in 1..Len(all) : tables'[t][k] = With(all[k], "id", <<t, k>>)
<1>1. PICK r : r = Rows(t, all)
  OBVIOUS
<1>2. PICK U : r \in Seq(U)
  BY <1>1, RowsAdded
<1>3. Len(r) = Len(all) /\ \A k \in 1..Len(all) : r[k] = With(all[k], "id", <<t, Len(tables[t]) + k>>)
  BY <1>1, RowsAdded
<1>4. Len(all) \in Nat /\ Len(tables[t]) = 0 /\ \A k \in 1..Len(all) : 0 + k = k
  OBVIOUS
<1>5. tables'[t] = <<>> \o r
  BY <1>1 DEF Commits
<1>6. tables'[t] = r
  BY <1>2, <1>5, ConcatEmptySeq
<1>7. \A k \in 1..Len(all) : r[k] = With(all[k], "id", <<t, k>>)
  BY <1>3, <1>4
<1> QED BY <1>2, <1>3, <1>4, <1>6, <1>7 DEF IsTable

\* A record per name is as many records as names.
LEMMA OnePerName ==
  ASSUME NEW H, IsFiniteSet(H), NEW f, DOMAIN f = H, f = [i \in H |-> f[i]],
         \A i \in H : f[i].instrument_id = i,
         NEW S, S = {f[i] : i \in H}
  PROVE  IsFiniteSet(S) /\ Cardinality(S) = Cardinality(H)
<1>1. f \in [H -> S]
  OBVIOUS
<1>2. \A i, j \in H : f[i] = f[j] => i = j
  <2> SUFFICES ASSUME NEW i \in H, NEW j \in H, f[i] = f[j] PROVE i = j
    OBVIOUS
  <2>1. f[i].instrument_id = i /\ f[j].instrument_id = j
    OBVIOUS
  <2> QED BY <2>1
<1>3. \A x \in S : \E i \in H : f[i] = x
  OBVIOUS
<1>4. f \in Bijection(H, S)
  BY <1>1, <1>2, <1>3 DEF Bijection, Injection, Surjection, IsInjective
<1> QED BY <1>4, FS_Bijection DEF ExistsBijection

LEMMA SnapshotTells ==
  ASSUME BuildInv, BookInv, PlanInv, LogSnapshot
  PROVE  BookInv'
<1> DEFINE position == [i \in Held |->
             [instrument_id |-> i, quantity |-> Quantities[i], avg_cost |-> NoFigure,
              last_price |-> Last(AsOf(i, asOf)).close]]
<1>0. PICK S, all, id, rows :
        /\ S = {position[i] : i \in Held} /\ all = SetToSeq(S)
        /\ id = NextId("portfolio_snapshot") /\ rows = Under("snapshot_id", id, all)
  OBVIOUS
<1>1. /\ stage = "snapshot" /\ stage' = "recommendations" /\ left' = DOMAIN recs
      /\ UNCHANGED <<unlogged, recIds>>
  BY DEF LogSnapshot
<1>2. PICK new : /\ Commits(new) /\ DOMAIN new = {"portfolio_snapshot", "holding_snapshot"}
                 /\ new["holding_snapshot"] = rows
  <2>1. S = {[instrument_id |-> i, quantity |-> Quantities[i], avg_cost |-> NoFigure,
                  last_price |-> Last(AsOf(i, asOf)).close] : i \in Held}
    BY <1>0
  <2> HIDE DEF position
  <2>2. RecordPortfolioSnapshot(
          [as_of |-> asOf, nav |-> Nav, cash |-> cash, invested |-> SumFunction(holdings)], all)
    BY <1>0, <2>1 DEF LogSnapshot
  <2>3. PICK fields : Commits([portfolio_snapshot |-> <<fields>>, holding_snapshot |-> rows])
    BY <1>0, <2>2 DEF RecordPortfolioSnapshot
  <2>4. PICK new : new = [portfolio_snapshot |-> <<fields>>, holding_snapshot |-> rows]
    OBVIOUS
  <2>5. DOMAIN new = {"portfolio_snapshot", "holding_snapshot"} /\ new["holding_snapshot"] = rows
    BY <2>4
  <2> QED BY <2>3, <2>4, <2>5
<1>3. BookTold
  BY <1>1 DEF BookInv, BookTold, Logging
<1>4. UNCHANGED <<fills, asOf, recs, vetoed, engine, moves, holdings>>
  BY <1>1, UnloggedKept
<1>5. IsFiniteSet(S) /\ Cardinality(S) = Cardinality(Held)
  <2>1. IsFiniteSet(Held)
    BY DEF PlanInv, PlanTyped
  <2>2. DOMAIN position = Held /\ \A i \in Held : position[i].instrument_id = i
    OBVIOUS
  <2>3. PICK f : f = position
    OBVIOUS
  <2>4. f = [i \in Held |-> f[i]] /\ S = {f[i] : i \in Held}
    BY <1>0, <2>3
  <2> HIDE DEF position
  <2> QED BY <2>1, <2>2, <2>3, <2>4, OnePerName
<1>6. /\ all \in Seq(S) /\ Len(all) = Cardinality(Held) /\ Len(all) \in Nat
      /\ \A x \in S : \E k \in 1..Len(all) : all[k] = x
  BY <1>0, <1>5, InSomeOrder
<1>7. \A k \in 1..Len(all) : \E i \in Held :
        all[k].instrument_id = i /\ all[k].quantity = Quantities[i]
        /\ {"instrument_id", "quantity"} \subseteq DOMAIN all[k]
  <2> SUFFICES ASSUME NEW k \in 1..Len(all)
               PROVE  \E i \in Held : all[k].instrument_id = i /\ all[k].quantity = Quantities[i]
                                      /\ {"instrument_id", "quantity"} \subseteq DOMAIN all[k]
    OBVIOUS
  <2>1. PICK i \in Held : all[k] = position[i]
    <3>1. all[k] \in S
      BY <1>6
    <3> QED BY <1>0, <3>1
  <2> QED BY <2>1
<1>8. \A i \in Held : \E k \in 1..Len(all) : all[k].instrument_id = i
  <2> SUFFICES ASSUME NEW i \in Held PROVE \E k \in 1..Len(all) : all[k].instrument_id = i
    OBVIOUS
  <2>1. position[i] \in S /\ position[i].instrument_id = i
    BY <1>0
  <2> HIDE DEF position
  <2> QED BY <1>6, <2>1
<1> HIDE DEF position
<1>9. /\ rows \in Seq({rows[k] : k \in 1..Len(all)}) /\ Len(rows) = Len(all)
      /\ \A k \in 1..Len(all) : rows[k] = With(all[k], "snapshot_id", id)
  <2>1. rows = [k \in 1..Len(all) |-> With(all[k], "snapshot_id", id)]
    BY <1>0 DEF Under
  <2> QED BY <1>6, <2>1
<1>10. PICK held : held = tables'["holding_snapshot"]
  OBVIOUS
<1>11. /\ Len(held) = Len(all)
       /\ \A k \in 1..Len(all) : held[k] = With(rows[k], "id", <<"holding_snapshot", k>>)
  <2>1. tables["holding_snapshot"] = <<>> /\ "holding_snapshot" \in DOMAIN new
    BY <1>1, <1>2, <1>3 DEF BookTold, HoldingsTold
  <2> QED BY <1>2, <1>9, <1>10, <2>1, FirstRows, TablesThere
<1>12. \A k \in 1..Len(all) : held[k].instrument_id = all[k].instrument_id
                              /\ held[k].quantity = all[k].quantity
  <2> SUFFICES ASSUME NEW k \in 1..Len(all)
               PROVE  held[k].instrument_id = all[k].instrument_id
                      /\ held[k].quantity = all[k].quantity
    OBVIOUS
  <2>1. PICK a, b, v : /\ a = all[k] /\ b = rows[k] /\ b = With(a, "snapshot_id", id)
                       /\ held[k] = With(b, "id", v) /\ {"instrument_id", "quantity"} \subseteq DOMAIN a
    <3>1. {"instrument_id", "quantity"} \subseteq DOMAIN all[k]
      BY <1>7
    <3> QED BY <1>9, <1>11, <3>1
  <2>2. {"instrument_id", "quantity"} \subseteq DOMAIN b
        /\ b["instrument_id"] = a["instrument_id"] /\ b["quantity"] = a["quantity"]
    BY <2>1 DEF With
  <2>3. held[k]["instrument_id"] = b["instrument_id"] /\ held[k]["quantity"] = b["quantity"]
    BY <2>1, <2>2 DEF With
  <2> QED BY <2>1, <2>2, <2>3
<1>13. HoldingsTold'
  <2>1. NamesIn(held) = Held
    <3>1. \A k \in 1..Len(held) : held[k].instrument_id \in Held
      BY <1>7, <1>11, <1>12
    <3>2. \A i \in Held : \E k \in 1..Len(held) : held[k].instrument_id = i
      BY <1>8, <1>11, <1>12
    <3> QED BY <3>1, <3>2 DEF NamesIn
  <2>2. Each(held, Held)
    BY <1>6, <1>11, <2>1 DEF Each
  <2>3. \A k \in 1..Len(held) : held[k].quantity = Quantities[held[k].instrument_id]
    BY <1>7, <1>11, <1>12
  <2>4. Held' = Held
    BY <1>4 DEF Held
  <2> QED BY <1>1, <1>10, <2>2, <2>3, <2>4 DEF HoldingsTold
<1>14. \A u \in Tables : u \notin DOMAIN new => Kept(u)
  BY <1>2 DEF Commits, Kept
<1>15. /\ Kept("recommendation") /\ Kept("decision_log") /\ Kept("risk_veto")
       /\ Kept("daily_portfolio_plan") /\ Kept("recommended_change")
       /\ Kept("paper_fill") /\ Kept("alert_delivery")
  BY <1>2, <1>14, TablesThere
<1>16. /\ RecsLogged' = RecsLogged /\ DecisionsLogged' = DecisionsLogged
       /\ VetoesLogged' = VetoesLogged /\ Closing' = Closing /\ recIds' = recIds
  <2>1. DOMAIN recs' \ left' = {}
    BY <1>1, <1>4
  <2> QED BY <1>1, <1>4, <2>1 DEF RecsLogged, DecisionsLogged, VetoesLogged, Closing
<1>17. RecommendationsTold' /\ DecisionsTold' /\ VetoesTold'
  BY <1>3, <1>4, <1>15, <1>16, RecommendationsKept, DecisionsKept, VetoesKept DEF BookTold
<1>18. PlanTold' /\ FillsTold' /\ AlertsTold'
  BY <1>1, <1>3, <1>4, <1>15, <1>16, PlanKept, FillsKept, AlertsKept DEF BookTold
<1>19. Visiting'
  BY <1>1, <1>4 DEF Visiting
<1> QED BY <1>13, <1>17, <1>18, <1>19 DEF BookInv

Change(m) ==
  [instrument_id |-> m.name, action |-> m.action, from_instrument |-> m.from, rupees |-> m.rupees]

\* No plan has more moves than there are instruments, or the one that says there are none.
LEMMA FewChanges ==
  ASSUME DayFits, PlanInv, planning = "done", NEW S, S = {Change(m) : m \in moves}
  PROVE  IsFiniteSet(S) /\ Cardinality(S) <= DayLimit
<1>1. (\A m \in moves : About(m)) /\ Apart /\ Held \subseteq Names /\ DOMAIN offers \subseteq Names
  BY DEF PlanInv, PlanTyped, Going, Parted
<1>2. CASE \E m : moves = {m}
  <2>1. PICK m : moves = {m}
    BY <1>2
  <2>2. S = {Change(m)}
    BY <2>1
  <2>3. IsFiniteSet({Change(m)}) /\ Cardinality({Change(m)}) = 1
    BY FS_Singleton
  <2>4. 1 <= DayLimit
    BY LogbookAssumption
  <2> QED BY <2>2, <2>3, <2>4
<1>3. CASE ~ \E m : moves = {m}
  <2>1. \A m \in moves : m.name \in Names
    BY <1>1, <1>3 DEF About
  <2> DEFINE f == [c \in S |-> c.instrument_id]
  <2>2. \A m : Change(m).instrument_id = m.name
    BY DEF Change
  <2>3. \A c \in S : \E m \in moves : c = Change(m)
    OBVIOUS
  <2>4. \A c \in S : f[c] \in Names
    BY <2>1, <2>2, <2>3
  <2>5. ASSUME NEW c \in S, NEW d \in S, f[c] = f[d] PROVE c = d
    <3>1. PICK m \in moves, k \in moves : c = Change(m) /\ d = Change(k)
      BY <2>3
    <3>2. m.name = k.name
      BY <2>2, <2>5, <3>1
    <3>3. m = k
      BY <1>1, <3>2 DEF Apart
    <3> QED BY <3>1, <3>3
  <2>6. f \in Injection(S, Names)
    BY <2>4, <2>5 DEF Injection, IsInjective
  <2> HIDE DEF f
  <2>7. IsFiniteSet(Names) /\ Cardinality(Names) \in Nat
    BY RotationAssumption, FS_CardinalityType
  <2>8. IsFiniteSet(S) /\ Cardinality(S) <= Cardinality(Names)
    BY <2>6, <2>7, FS_Injection
  <2>9. Cardinality(S) \in Nat
    BY <2>8, FS_CardinalityType
  <2> QED BY <2>7, <2>8, <2>9, LogbookAssumption DEF DayFits
<1> QED BY <1>2, <1>3

LEMMA PlanTells ==
  ASSUME DayFits, BuildInv, BookInv, PlanInv, LogPlan
  PROVE  BookInv'
<1>0. PICK S, all, id, rows, plan :
        /\ S = {Change(m) : m \in moves} /\ all = SetToSeq(S)
        /\ id = NextId("daily_portfolio_plan") /\ rows = Under("plan_id", id, all)
        /\ plan = [plan_date |-> asOf]
  OBVIOUS
<1>1. /\ stage = "vetoes" /\ stage' = "fills" /\ left' = left /\ left = {}
      /\ UNCHANGED <<unlogged, recIds>>
  BY DEF LogPlan
<1>2. PICK new : /\ Commits(new) /\ DOMAIN new = {"daily_portfolio_plan", "recommended_change"}
                 /\ new["recommended_change"] = rows /\ new["daily_portfolio_plan"] = <<plan>>
  <2>1. S = {[instrument_id |-> m.name, action |-> m.action, from_instrument |-> m.from,
                  rupees |-> m.rupees] : m \in moves}
    BY <1>0 DEF Change
  <2>2. RecordDailyPlan(asOf, all)
    BY <1>0, <2>1 DEF LogPlan
  <2>3. Commits([daily_portfolio_plan |-> <<plan>>, recommended_change |-> rows])
    BY <1>0, <2>2 DEF RecordDailyPlan
  <2>4. PICK new : new = [daily_portfolio_plan |-> <<plan>>, recommended_change |-> rows]
    OBVIOUS
  <2>5. DOMAIN new = {"daily_portfolio_plan", "recommended_change"}
        /\ new["recommended_change"] = rows /\ new["daily_portfolio_plan"] = <<plan>>
    BY <2>4
  <2> QED BY <2>3, <2>4, <2>5
<1>3. BookTold /\ planning = "done"
  BY <1>1 DEF BookInv, BookTold, Logging, BuildInv, Alerted, Alerting
<1>4. UNCHANGED <<fills, asOf, recs, vetoed, engine, moves, holdings>>
  BY <1>1, UnloggedKept
<1>5. IsFiniteSet(S) /\ Cardinality(S) <= DayLimit
  BY <1>0, <1>3, FewChanges
<1>6. /\ all \in Seq(S) /\ Len(all) = Cardinality(S) /\ Len(all) \in Nat
      /\ \A x \in S : \E k \in 1..Len(all) : all[k] = x
  BY <1>0, <1>5, InSomeOrder
<1>7. \A k \in 1..Len(all) : \E m \in moves : all[k] = Change(m)
  <2>1. \A k \in 1..Len(all) : all[k] \in S
    BY <1>6
  <2> QED BY <1>0, <2>1
<1>8. \A m \in moves : \E k \in 1..Len(all) : all[k] = Change(m)
  BY <1>0, <1>6
<1>9. /\ rows \in Seq({rows[k] : k \in 1..Len(all)}) /\ Len(rows) = Len(all)
      /\ \A k \in 1..Len(all) : rows[k] = With(all[k], "plan_id", id)
  <2>1. rows = [k \in 1..Len(all) |-> With(all[k], "plan_id", id)]
    BY <1>0 DEF Under
  <2> QED BY <1>6, <2>1
<1>10. PICK plans, changes : /\ plans = tables'["daily_portfolio_plan"]
                             /\ changes = tables'["recommended_change"]
  OBVIOUS
<1>11. tables["daily_portfolio_plan"] = <<>> /\ tables["recommended_change"] = <<>>
  BY <1>1, <1>3 DEF BookTold, PlanTold, Closing
<1>12. /\ Len(changes) = Len(all) /\ IsTable("recommended_change")'
       /\ \A k \in 1..Len(all) : changes[k] = With(rows[k], "id", <<"recommended_change", k>>)
  <2>1. "recommended_change" \in DOMAIN new
    BY <1>2
  <2> QED BY <1>2, <1>9, <1>10, <1>11, <2>1, FirstRows, TablesThere
<1>13. /\ Len(plans) = 1 /\ IsTable("daily_portfolio_plan")'
       /\ plans[1] = With(plan, "id", <<"daily_portfolio_plan", 1>>)
  <2>1. PICK one : one = <<plan>>
    OBVIOUS
  <2>2. one \in Seq({plan}) /\ Len(one) = 1 /\ one[1] = plan /\ 1 \in 1..1
    BY <2>1
  <2>3. "daily_portfolio_plan" \in DOMAIN new /\ one = new["daily_portfolio_plan"]
    BY <1>2, <2>1
  <2>4. /\ Len(tables'["daily_portfolio_plan"]) = Len(one) /\ IsTable("daily_portfolio_plan")'
        /\ \A k \in 1..Len(one) :
             tables'["daily_portfolio_plan"][k] = With(one[k], "id", <<"daily_portfolio_plan", k>>)
    <3>1. PICK T : one \in Seq(T)
      BY <2>2
    <3>2. Commits(new) /\ tables["daily_portfolio_plan"] = <<>>
      BY <1>2, <1>11
    <3>3. "daily_portfolio_plan" \in Tables
      BY TablesThere
    <3> QED BY <2>3, <3>1, <3>2, <3>3, FirstRows
  <2> QED BY <1>10, <2>2, <2>4
<1>14. /\ plans[1].plan_date = asOf /\ "changes" \notin DOMAIN plans[1] /\ plans[1].id = id
  <2>1. PICK v : v = <<"daily_portfolio_plan", 1>>
    OBVIOUS
  <2>2. Len(<<>>) = 0 /\ 0 + 1 = 1
    OBVIOUS
  <2>3. id = v
    BY <1>0, <1>11, <2>1, <2>2 DEF NextId
  <2>4. plan.plan_date = asOf /\ DOMAIN plan = {"plan_date"}
    BY <1>0
  <2>5. /\ With(plan, "id", v)["plan_date"] = plan["plan_date"]
        /\ "changes" \notin DOMAIN With(plan, "id", v) /\ With(plan, "id", v)["id"] = v
    BY <2>4 DEF With
  <2> QED BY <1>13, <2>1, <2>3, <2>4, <2>5
<1>15. \A k \in 1..Len(all) : /\ changes[k].plan_id = id
                              /\ changes[k].action = all[k].action
                              /\ changes[k].instrument_id = all[k].instrument_id
                              /\ changes[k].from_instrument = all[k].from_instrument
  <2> SUFFICES ASSUME NEW k \in 1..Len(all)
               PROVE  /\ changes[k].plan_id = id
                      /\ changes[k].action = all[k].action
                      /\ changes[k].instrument_id = all[k].instrument_id
                      /\ changes[k].from_instrument = all[k].from_instrument
    OBVIOUS
  <2>1. PICK a, b, v : /\ a = all[k] /\ b = rows[k] /\ b = With(a, "plan_id", id)
                       /\ changes[k] = With(b, "id", v)
                       /\ {"instrument_id", "action", "from_instrument"} \subseteq DOMAIN a
    <3>1. {"instrument_id", "action", "from_instrument"} \subseteq DOMAIN all[k]
      <4>1. PICK m : all[k] = Change(m)
        BY <1>7
      <4>2. DOMAIN Change(m) = {"instrument_id", "action", "from_instrument", "rupees"}
        BY DEF Change
      <4> QED BY <4>1, <4>2
    <3> QED BY <1>9, <1>12, <3>1
  <2>2. /\ {"instrument_id", "action", "from_instrument", "plan_id"} \subseteq DOMAIN b
        /\ b["instrument_id"] = a["instrument_id"] /\ b["action"] = a["action"]
        /\ b["from_instrument"] = a["from_instrument"] /\ b["plan_id"] = id
    BY <2>1 DEF With
  <2>3. /\ changes[k]["instrument_id"] = b["instrument_id"] /\ changes[k]["action"] = b["action"]
        /\ changes[k]["from_instrument"] = b["from_instrument"] /\ changes[k]["plan_id"] = b["plan_id"]
    BY <2>1, <2>2 DEF With
  <2> QED BY <2>1, <2>2, <2>3
<1>16. {Told(changes[k]) : k \in 1..Len(changes)} = Planning
  <2>1. \A m : /\ Change(m).action = m.action /\ Change(m).instrument_id = m.name
               /\ Change(m).from_instrument = m.from
    BY DEF Change
  <2>2. \A k \in 1..Len(all) : Told(changes[k]) = Told(all[k])
    BY <1>15 DEF Told
  <2>3. \A m : Told(Change(m)) = <<m.action, m.name, m.from>>
    BY <2>1 DEF Told
  <2>4. ASSUME NEW k \in 1..Len(changes) PROVE Told(changes[k]) \in Planning
    <3>1. PICK m \in moves : all[k] = Change(m)
      BY <1>7, <1>12
    <3> QED BY <1>12, <2>2, <2>3, <3>1 DEF Planning
  <2>5. ASSUME NEW m \in moves PROVE \E k \in 1..Len(changes) : Told(changes[k]) = <<m.action, m.name, m.from>>
    <3>1. PICK k \in 1..Len(all) : all[k] = Change(m)
      BY <1>8
    <3> QED BY <1>12, <2>2, <2>3, <3>1
  <2> QED BY <2>4, <2>5 DEF Planning
<1>17. PlanTold'
  <2>1. Len(changes) <= DayLimit
    BY <1>5, <1>6, <1>12
  <2>2. Closing' /\ Planning' = Planning /\ asOf' = asOf
    BY <1>1, <1>4 DEF Closing, Planning
  <2>3. \A k \in 1..Len(changes) : changes[k].plan_id = plans[1].id
    BY <1>12, <1>14, <1>15
  <2> QED BY <1>10, <1>12, <1>13, <1>14, <1>16, <2>1, <2>2, <2>3 DEF PlanTold
<1>18. \A u \in Tables : u \notin DOMAIN new => Kept(u)
  BY <1>2 DEF Commits, Kept
<1>19. /\ Kept("recommendation") /\ Kept("decision_log") /\ Kept("risk_veto")
       /\ Kept("holding_snapshot") /\ Kept("paper_fill") /\ Kept("alert_delivery")
  BY <1>2, <1>18, TablesThere
<1>20. /\ RecsLogged' = RecsLogged /\ DecisionsLogged' = DecisionsLogged
       /\ VetoesLogged' = VetoesLogged /\ recIds' = recIds
  <2>1. DOMAIN vetoed \ left = DOMAIN vetoed
    BY <1>1
  <2> QED BY <1>1, <1>4, <2>1 DEF RecsLogged, DecisionsLogged, VetoesLogged
<1>21. RecommendationsTold' /\ DecisionsTold' /\ VetoesTold'
  BY <1>3, <1>4, <1>19, <1>20, RecommendationsKept, DecisionsKept, VetoesKept DEF BookTold
<1>22. HoldingsTold' /\ FillsTold' /\ AlertsTold'
  BY <1>1, <1>3, <1>4, <1>19, HoldingsKept, FillsKept, AlertsKept DEF BookTold
<1>23. Visiting'
  BY <1>1 DEF Visiting
<1> QED BY <1>17, <1>21, <1>22, <1>23 DEF BookInv

-----------------------------------------------------------------------------
(* The steps that write no row of the day, and all of them together.       *)

\* Nothing is written but what users log.
DayKept == \A t \in Tables : t # "user_execution_log" => Kept(t)

LEMMA BookUnwritten ==
  ASSUME BookInv, UNCHANGED <<stage, left, recs, vetoed, fills, asOf, engine, moves, holdings, recIds>>,
         DayKept
  PROVE  BookInv'
<1>1. Logging' = Logging
  BY DEF Logging
<1>2. CASE ~Logging
  BY <1>1, <1>2 DEF BookInv
<1>3. CASE Logging
  <2>1. BookTold
    BY <1>3 DEF BookInv, BookTold
  <2>2. /\ Kept("recommendation") /\ Kept("decision_log") /\ Kept("risk_veto")
        /\ Kept("daily_portfolio_plan") /\ Kept("recommended_change")
        /\ Kept("holding_snapshot") /\ Kept("paper_fill") /\ Kept("alert_delivery")
    BY TablesThere DEF DayKept
  <2>3. /\ RecsLogged' = RecsLogged /\ DecisionsLogged' = DecisionsLogged
        /\ VetoesLogged' = VetoesLogged /\ Closing' = Closing
    BY DEF RecsLogged, DecisionsLogged, VetoesLogged, Closing, First
  <2>4. RecommendationsTold' /\ DecisionsTold' /\ VetoesTold'
    BY <2>1, <2>2, <2>3, RecommendationsKept, DecisionsKept, VetoesKept DEF BookTold
  <2>5. PlanTold' /\ FillsTold' /\ AlertsTold'
    BY <2>1, <2>2, <2>3, PlanKept, FillsKept, AlertsKept DEF BookTold
  <2>6. HoldingsTold'
    BY <2>1, <2>2 DEF BookTold, HoldingsTold, Kept, Each, NamesIn, Held
  <2>7. Visiting'
    BY <2>1 DEF BookTold, Visiting
  <2> QED BY <2>4, <2>5, <2>6, <2>7 DEF BookInv
<1> QED BY <1>2, <1>3

LEMMA RequestsTell ==
  ASSUME BuildInv, BookInv, Request \/ TimePasses
  PROVE  BuildInv' /\ BookInv'
<1>1. UNCHANGED built
  BY DEF Request, TimePasses, Chat, ChatEnds, RecordUserExecution, RecordFeedback
<1>2. UNCHANGED <<toldBuild, stage, left, paperDay, recs, vetoed, fills, asOf, engine, moves, holdings, recIds>>
  BY <1>1 DEF built, world, tracking, picks, rotation, alerting, toldBuild
<1>3. DayKept
  <2>1. CASE UNCHANGED tables
    BY <2>1 DEF Kept, DayKept
  <2>2. CASE \E i \in Noted : RecordUserExecution(i)
    <3>1. PICK row : Add("user_execution_log", row)
      BY <2>2 DEF RecordUserExecution
    <3> QED BY <3>1, AddsThere, TablesThere DEF DayKept, Tables, Required
  <2> QED BY <2>1, <2>2 DEF Request, TimePasses, Chat, ChatEnds, RecordFeedback
<1>4. BuildInv'
  <2>1. UNCHANGED <<toldBuild, stage, left, paperDay>>
    BY <1>2
  <2> QED BY <2>1, BuildUntouched
<1>5. UNCHANGED <<stage, left, recs, vetoed, fills, asOf, engine, moves, holdings, recIds>>
  BY <1>2
<1>6. BookInv'
  BY <1>3, <1>5, BookUnwritten
<1> QED BY <1>4, <1>6

LEMMA BuildTells ==
  ASSUME DayFits, RecsTyped, PlanInv, AlertsTyped, BuildInv, BookInv, BuildStep
  PROVE  BuildInv' /\ BookInv'
<1>1. CASE \/ Train \/ PaperTrack \/ CurrentRecs \/ Portfolio \/ Plans \/ RaiseAlert
           \/ Observability
  <2>1. stage' \in {"track", "recs", "portfolio", "rotation", "alerts", "setup"}
    BY <1>1 DEF Train, PaperTrack, CurrentRecs, Portfolio, Plans, RaiseAlert, Observability
  <2>2. BookInv'
    BY <2>1 DEF BookInv, Logging
  <2> QED BY <1>1, <2>2, TrainTracks, DayTracks, PicksBuild, PortfolioBuilds, PlansBuild,
             AlertBuilds, CountersBuild
<1>2. CASE \/ LogbookSetup \/ LogSnapshot \/ LogRecommendation \/ LogDecision
           \/ RecommendationsLogged \/ LogVeto \/ LogPlan \/ LogFill \/ LogAlert \/ Serves
  <2>1. /\ UNCHANGED unlogged
        /\ stage = "setup" \/ Logging
        /\ Logging'
    BY <1>2 DEF LogbookSetup, LogSnapshot, LogRecommendation, LogDecision, RecommendationsLogged,
                LogVeto, LogPlan, LogFill, LogAlert, Serves, Logging
  <2>2. BuildInv'
    BY <2>1, UnloggedKept, BuildKept
  <2>3. BookInv'
    BY <1>2, SetupTells, SnapshotTells, RecommendationTells, DecisionTells, BookTurns, VetoTells,
       PlanTells, FillTells, AlertTells
  <2> QED BY <2>2, <2>3
<1> QED BY <1>1, <1>2 DEF BuildStep

LEMMA TellsOn ==
  ASSUME DayFits, RecsTyped, PlanInv, AlertsTyped, BuildInv, BookInv, [Next]_terminalVars
  PROVE  BuildInv' /\ BookInv'
<1>1. CASE (\E s \in Environments : Starts(s)) \/ Requested
  <2>1. stage' \in {"up", "train"}
    BY <1>1 DEF Starts, Requested
  <2> QED BY <1>1, <2>1, BuildStarts DEF BookInv, Logging
<1>2. CASE BuildStep
  BY <1>2, BuildTells
<1>3. CASE Raises \/ Dies
  <2>1. stage' \in {"down", "up"} /\ Discarded /\ UNCHANGED market
    BY <1>3 DEF Raises, Dies, world
  <2>2. market' \in Markets
    BY <2>1 DEF BuildInv, Tracked
  <2> QED BY <2>1, <2>2, NothingBuilt DEF BookInv, Logging
<1>4. CASE Request \/ TimePasses
  BY <1>4, RequestsTell
<1>5. CASE UNCHANGED terminalVars
  <2>1. UNCHANGED <<toldBuild, stage, left, paperDay, recs, vetoed, fills, asOf, engine, moves,
                    holdings, recIds, tables>>
    BY <1>5 DEF terminalVars, world, tracking, picks, rotation, alerting, book, toldBuild
  <2>2. DayKept
    BY <2>1 DEF Kept, DayKept
  <2>3. UNCHANGED <<toldBuild, stage, left, paperDay>>
    BY <2>1
  <2>4. BuildInv'
    BY <2>3, BuildUntouched
  <2>5. UNCHANGED <<stage, left, recs, vetoed, fills, asOf, engine, moves, holdings, recIds>>
    BY <2>1
  <2>6. BookInv'
    BY <2>2, <2>5, BookUnwritten
  <2> QED BY <2>4, <2>6
<1> QED BY <1>1, <1>2, <1>3, <1>4, <1>5 DEF Next

-----------------------------------------------------------------------------
(* What the views read from a book that tells the day.                     *)

LEMMA NamesFit ==
  ASSUME DayFits, NEW S, S \subseteq Names
  PROVE  IsFiniteSet(S) /\ Cardinality(S) \in Nat /\ Cardinality(S) <= DayLimit
<1>1. IsFiniteSet(Names)
  BY RotationAssumption
<1>2. IsFiniteSet(S) /\ Cardinality(S) <= Cardinality(Names)
  BY <1>1, FS_Subset
<1>3. Cardinality(S) \in Nat /\ Cardinality(Names) \in Nat /\ DayLimit \in Nat
  BY <1>1, <1>2, FS_CardinalityType, LogbookAssumption
<1> QED BY <1>2, <1>3 DEF DayFits

\* A list of the day is its table, when every row is of the day.
LEMMA DayListed ==
  ASSUME DayFits, NEW t, IsTable(t), Dated(t), NEW S, S \subseteq Names, Each(tables[t], S)
  PROVE  Each(List(t, [as_of |-> asOf], DayLimit), S)
<1>1. PICK T : tables[t] \in Seq(T)
  BY DEF IsTable
<1>2. PICK filters : filters = [as_of |-> asOf]
  OBVIOUS
<1>3. Len(tables[t]) <= DayLimit /\ DayLimit \in Nat
  BY NamesFit, LogbookAssumption DEF Each
<1>4. \A k \in 1..Len(tables[t]) : Fits(tables[t][k], filters)
  BY <1>2 DEF Dated, Fits
<1> QED BY <1>1, <1>2, <1>3, <1>4, ListAll

LEMMA ServedParts ==
  ASSUME BuildInv, BookInv, stage = "serving"
  PROVE  /\ BookTold /\ Closing
         /\ RecsLogged = DOMAIN recs /\ DecisionsLogged = DOMAIN recs /\ VetoesLogged = DOMAIN vetoed
         /\ DOMAIN evidence = DOMAIN recs \cup DOMAIN vetoed /\ DOMAIN evidence \subseteq Names
         /\ DOMAIN recs \cap DOMAIN vetoed = {} /\ \A i \in DOMAIN recs : Complete(i)
         /\ asOf \in Nat \ {0}
<1>1. Logging /\ ~Early /\ ~Untracked
  BY DEF Logging, Early, Untracked
<1> QED BY <1>1 DEF BookInv, BookTold, Closing, RecsLogged, DecisionsLogged, VetoesLogged, BuildInv,
                    Picked, Tracked

LEMMA ListsTold ==
  ASSUME DayFits, BuildInv, BookInv, stage = "serving"
  PROVE  /\ Each(List("recommendation", [as_of |-> asOf], DayLimit), DOMAIN recs)
         /\ Each(List("decision_log", [as_of |-> asOf], DayLimit), DOMAIN recs)
         /\ Each(List("risk_veto", [as_of |-> asOf], DayLimit), DOMAIN vetoed)
<1>1. DOMAIN recs \subseteq Names /\ DOMAIN vetoed \subseteq Names
  BY ServedParts
<1>2. RecommendationsTold /\ DecisionsTold /\ VetoesTold
  BY ServedParts DEF BookTold
<1>3. RecsLogged = DOMAIN recs /\ DecisionsLogged = DOMAIN recs /\ VetoesLogged = DOMAIN vetoed
  BY ServedParts
<1>4. /\ IsTable("recommendation") /\ Dated("recommendation")
      /\ Each(tables["recommendation"], DOMAIN recs)
      /\ IsTable("decision_log") /\ Dated("decision_log") /\ Each(tables["decision_log"], DOMAIN recs)
      /\ IsTable("risk_veto") /\ Dated("risk_veto") /\ Each(tables["risk_veto"], DOMAIN vetoed)
  BY <1>2, <1>3 DEF RecommendationsTold, DecisionsTold, VetoesTold
<1> QED BY <1>1, <1>4, DayListed

\* The one plan of the day and its changes.
LEMMA PlanListed ==
  ASSUME PlanTold, Closing
  PROVE  LET plans == Day(asOf).plans
         IN /\ Len(plans) = 1
            /\ {Told(c) : c \in Range(plans[1].changes)} = Planning
<1>0. PICK rows, changes, filters, out :
        /\ rows = tables["daily_portfolio_plan"] /\ changes = tables["recommended_change"]
        /\ filters = [plan_date |-> asOf]
        /\ out = List("daily_portfolio_plan", filters, ListLimit)
  OBVIOUS
<1>1. /\ IsTable("daily_portfolio_plan") /\ IsTable("recommended_change")
      /\ Len(rows) = 1 /\ rows[1].plan_date = asOf
      /\ Len(changes) <= DayLimit
      /\ \A k \in 1..Len(changes) : changes[k].plan_id = rows[1].id
      /\ {Told(changes[k]) : k \in 1..Len(changes)} = Planning
  BY <1>0 DEF PlanTold
<1>2. Fitting(rows, filters) = {1}
  BY <1>0, <1>1 DEF Fitting, Fits
<1>3. Cardinality({1}) = 1 /\ ListLimit \in Nat /\ DayLimit \in Nat /\ 1 <= ListLimit
  BY FS_Singleton, LogbookAssumption
<1>4. Len(out) = 1 /\ out[1] = rows[1]
  <2>1. PICK T : rows \in Seq(T)
    BY <1>0, <1>1 DEF IsTable
  <2>2. /\ Len(out) = Cardinality(Fitting(rows, filters))
        /\ \A j \in 1..Len(out) : \E k \in Fitting(rows, filters) : out[j] = rows[k]
    <3>1. tables["daily_portfolio_plan"] \in Seq(T)
          /\ Cardinality(Fitting(tables["daily_portfolio_plan"], filters)) <= ListLimit
          /\ ListLimit \in Nat
      BY <1>0, <1>2, <1>3, <2>1
    <3> QED BY <1>0, <3>1, ListRows
  <2>3. Len(out) = 1
    BY <1>2, <1>3, <2>2
  <2>4. 1 \in 1..Len(out)
    BY <2>3
  <2>5. PICK k \in {1} : out[1] = rows[k]
    BY <1>2, <2>2, <2>4
  <2> QED BY <2>3, <2>5
<1>5. PICK all, which : /\ which = [plan_id |-> out[1].id]
                        /\ all = List("recommended_change", which, DayLimit)
  OBVIOUS
<1>6. /\ Len(all) \in Nat /\ DOMAIN all = 1..Len(all)
      /\ \A j \in 1..Len(all) : \E k \in 1..Len(changes) : all[j] = changes[k]
      /\ \A k \in 1..Len(changes) : \E j \in 1..Len(all) : all[j] = changes[k]
  <2>1. PICK T : changes \in Seq(T)
    BY <1>0, <1>1 DEF IsTable
  <2>2. \A k \in 1..Len(changes) : Fits(changes[k], which)
    BY <1>1, <1>4, <1>5 DEF Fits
  <2>3. Fitting(changes, which) = 1..Len(changes)
    BY <2>2 DEF Fitting
  <2>4. Len(changes) \in Nat
    BY <2>1
  <2>5. Cardinality(Fitting(changes, which)) <= DayLimit
    <3>1. Cardinality(1..Len(changes)) = Len(changes)
      BY <2>4, CountTo
    <3> QED BY <1>1, <2>3, <3>1
  <2>6. /\ all \in Seq(T)
        /\ \A j \in 1..Len(all) : \E k \in Fitting(changes, which) : all[j] = changes[k]
        /\ \A k \in Fitting(changes, which) : \E j \in 1..Len(all) : all[j] = changes[k]
    <3>1. tables["recommended_change"] \in Seq(T)
          /\ Cardinality(Fitting(tables["recommended_change"], which)) <= DayLimit
          /\ DayLimit \in Nat
      BY <1>0, <1>3, <2>1, <2>5
    <3>2. /\ List("recommended_change", which, DayLimit) \in Seq(T)
          /\ \A j \in 1..Len(List("recommended_change", which, DayLimit)) :
               \E k \in Fitting(tables["recommended_change"], which) :
                 List("recommended_change", which, DayLimit)[j] = tables["recommended_change"][k]
          /\ \A k \in Fitting(tables["recommended_change"], which) :
               \E j \in 1..Len(List("recommended_change", which, DayLimit)) :
                 List("recommended_change", which, DayLimit)[j] = tables["recommended_change"][k]
      BY <3>1, ListRows
    <3> QED BY <1>0, <1>5, <3>2
  <2>7. Len(all) \in Nat /\ DOMAIN all = 1..Len(all)
    BY <2>6
  <2> QED BY <2>3, <2>6, <2>7
<1>7. {Told(c) : c \in Range(all)} = Planning
  <2>1. Range(all) = {all[j] : j \in 1..Len(all)}
    BY <1>6 DEF Range
  <2>2. Range(all) = {changes[k] : k \in 1..Len(changes)}
    BY <1>6, <2>1
  <2> QED BY <1>1, <2>2
<1>8. PICK one : one = With(out[1], "changes", all)
  OBVIOUS
<1>9. one.changes = all
  BY <1>8 DEF With
<1>10. PICK plans : plans = Day(asOf).plans
  OBVIOUS
<1>11. plans = [k \in 1..1 |-> one]
  <2>1. plans = [k \in 1..Len(out) |->
          With(out[k], "changes", List("recommended_change", [plan_id |-> out[k].id], DayLimit))]
    BY <1>0, <1>10 DEF Day
  <2>2. plans = [k \in 1..1 |->
          With(out[k], "changes", List("recommended_change", [plan_id |-> out[k].id], DayLimit))]
    BY <1>4, <2>1
  <2>3. \A k \in 1..1 : k = 1
    OBVIOUS
  <2> QED BY <1>5, <1>8, <2>2, <2>3
<1>12. Len(plans) = 1 /\ plans[1] = one
  BY <1>11
<1> QED BY <1>7, <1>9, <1>10, <1>12

LEMMA FillsListed ==
  ASSUME DayFits, Tracked, FillsTold, stage = "serving"
  PROVE  Len(List("paper_fill", [session_date |-> asOf], DayLimit))
           = Cardinality({k \in 1..Len(fills) : fills[k].session_date = asOf})
<1>1. PICK rows, filters : rows = tables["paper_fill"] /\ filters = [session_date |-> asOf]
  OBVIOUS
<1>2. PICK T : rows \in Seq(T)
  BY <1>1 DEF FillsTold, IsTable
<1>3. /\ Len(rows) = Len(fills) /\ Len(rows) \in Nat
      /\ \A k \in 1..Len(rows) : rows[k].session_date = fills[k].session_date
  BY <1>1, <1>2 DEF FillsTold
<1>4. Fitting(rows, filters) = {k \in 1..Len(fills) : fills[k].session_date = asOf}
  BY <1>1, <1>3 DEF Fitting, Fits
<1>5. Len(rows) <= DayLimit /\ DayLimit \in Nat
  <2>1. Len(fills) <= 2 * (Max(PaperDays) - Min(PaperDays) + 1)
    BY DEF Tracked
  <2> QED BY <1>3, <2>1, PaperRange, LogbookAssumption DEF DayFits
<1>6. Cardinality(Fitting(rows, filters)) <= DayLimit
  <2>1. Fitting(rows, filters) \subseteq 1..Len(rows)
    BY DEF Fitting
  <2>2. IsFiniteSet(1..Len(rows)) /\ Cardinality(1..Len(rows)) = Len(rows)
    BY <1>3, CountTo
  <2>3. Cardinality(Fitting(rows, filters)) <= Len(rows)
        /\ Cardinality(Fitting(rows, filters)) \in Nat
    BY <2>1, <2>2, FS_Subset, FS_CardinalityType
  <2> QED BY <1>3, <1>5, <2>3
<1>7. Len(List("paper_fill", filters, DayLimit)) = Cardinality(Fitting(rows, filters))
  BY <1>1, <1>2, <1>5, <1>6, ListRows
<1> QED BY <1>1, <1>4, <1>7

\* A recommendation's id finds its row again, and no veto of its instrument.
LEMMA Reconstructed ==
  ASSUME BuildInv, BookInv, stage = "serving", NEW i \in DOMAIN recs
  PROVE  LET told == Reconstruct(recIds[i])
         IN /\ told.reconstructable /\ told.recommendation.instrument_id = i
            /\ told.risk_vetoes = <<>> /\ told.recommendation.quantity = recs[i].quantity
<1>0. PICK rows, vetoes, id, filters, found :
        /\ rows = tables["recommendation"] /\ vetoes = tables["risk_veto"] /\ id = recIds[i]
        /\ filters = [id |-> id] /\ found = Matching(rows, filters)
  OBVIOUS
<1>1. /\ RecommendationsTold /\ VetoesTold /\ i \notin DOMAIN vetoed
      /\ RecsLogged = DOMAIN recs /\ VetoesLogged = DOMAIN vetoed
  BY ServedParts DEF BookTold
<1>2. PICK T : rows \in Seq(T)
  BY <1>0, <1>1 DEF RecommendationsTold, IsTable
<1>3. /\ Len(rows) \in Nat /\ NamesIn(rows) = DOMAIN recs
      /\ \A k \in 1..Len(rows) : /\ IsTold(rows[k], <<"recommendation", k>>)
                                 /\ "as_of" \in DOMAIN rows[k]
  BY <1>0, <1>1, <1>2 DEF RecommendationsTold, Each, Dated
<1>4. PICK n \in 1..Len(rows) : rows[n].instrument_id = i
  BY <1>3 DEF NamesIn
<1>5. Fitting(rows, filters) = {n}
  <2>1. rows[n].id = id /\ id = <<"recommendation", n>>
    BY <1>0, <1>3, <1>4 DEF IsTold
  <2>2. \A k \in 1..Len(rows) : rows[k].id = id => k = n
    <3> SUFFICES ASSUME NEW k \in 1..Len(rows), rows[k].id = id PROVE k = n
      OBVIOUS
    <3>1. <<"recommendation", k>> = <<"recommendation", n>>
      BY <1>3, <2>1 DEF IsTold
    <3> QED BY <3>1
  <2> HIDE DEF Fits
  <2>3. \A k \in 1..Len(rows) : Fits(rows[k], filters) <=> rows[k].id = id
    BY <1>0 DEF Fits
  <2> QED BY <2>1, <2>2, <2>3 DEF Fitting
<1>6. Len(found) = 1 /\ found[1] = rows[n]
  <2>1. /\ found \in Seq(T) /\ Len(found) = Cardinality(Fitting(rows, filters))
        /\ \A j \in 1..Len(found) : \E k \in Fitting(rows, filters) : found[j] = rows[k]
    BY <1>0, <1>2, MatchingRows
  <2>2. Len(found) = 1
    BY <1>5, <2>1, FS_Singleton
  <2>3. 1 \in 1..Len(found)
    BY <2>2
  <2>4. PICK k \in {n} : found[1] = rows[k]
    BY <1>5, <2>1, <2>3
  <2> QED BY <2>2, <2>4
<1>7. found # <<>>
  BY <1>6
<1>8. PICK which : which = [instrument_id |-> rows[n].instrument_id, as_of |-> rows[n].as_of]
  OBVIOUS
<1>9. List("risk_veto", which, ListLimit) = <<>>
  <2>1. PICK U : vetoes \in Seq(U)
    BY <1>0, <1>1 DEF VetoesTold, IsTable
  <2>2. \A k \in 1..Len(vetoes) : vetoes[k].instrument_id # i
    BY <1>0, <1>1 DEF VetoesTold, Each, NamesIn
  <2>3. "instrument_id" \in DOMAIN which /\ which["instrument_id"] = i
    BY <1>4, <1>8
  <2>4. \A k \in 1..Len(vetoes) : ~Fits(vetoes[k], which)
    BY <2>2, <2>3 DEF Fits
  <2> QED BY <1>0, <2>1, <2>4, ListNothing, LogbookAssumption
<1>10. Reconstruct(id) =
         [recommendation |-> rows[n], risk_vetoes |-> List("risk_veto", which, ListLimit),
          evaluation_outcomes |-> List("evaluation_outcome", [recommendation_id |-> id], ListLimit),
          llm_runs |-> RunsOf(id),
          reconstructable |-> {"target", "model_version"} \subseteq DOMAIN rows[n]]
  BY <1>0, <1>6, <1>7, <1>8 DEF Reconstruct
<1>11. /\ Reconstruct(id).recommendation = rows[n]
       /\ Reconstruct(id).risk_vetoes = List("risk_veto", which, ListLimit)
       /\ Reconstruct(id).reconstructable = ({"target", "model_version"} \subseteq DOMAIN rows[n])
  BY <1>10
<1>12. {"target", "model_version"} \subseteq DOMAIN rows[n] /\ rows[n].quantity = recs[i].quantity
  BY <1>3, <1>4 DEF IsTold
<1> QED BY <1>0, <1>4, <1>9, <1>11, <1>12

\* What is shown of a recommendation is whole.
LEMMA ShownWhole ==
  ASSUME BuildInv, BookInv, stage = "serving", NEW i \in DOMAIN recs
  PROVE  /\ Missing(recs[i]) = {}
         /\ recs[i].entry = Last(BarsShown(i, 2)).close /\ recs[i].evidence = EvidenceShown(i)
         /\ Audit(i).reconstructable /\ Audit(i).recommendation = recs[i]
<1>1. Complete(i) /\ i \in Names /\ i \in DOMAIN evidence /\ asOf # 0 /\ market \in Markets
  BY ServedParts DEF BuildInv, Tracked
<1>2. PICK bars \in Seq(Bars) : bars = AsOf(i, asOf)
  BY <1>1, AsOfTyped
<1>3. bars # <<>> /\ Len(bars) \in Nat /\ Len(bars) > 0
  BY <1>1, <1>2 DEF Complete
<1>4. PICK from \in Int : from = IF Len(bars) > 2 THEN Len(bars) - 2 + 1 ELSE 1
  BY <1>3
<1>5. from >= 1 /\ from <= Len(bars)
  BY <1>3, <1>4
<1>6. PICK some : some = SubSeq(bars, from, Len(bars))
  OBVIOUS
<1>7. /\ Len(some) = Len(bars) - from + 1
      /\ \A k \in 1..Len(bars) - from + 1 : some[k] = bars[from + k - 1]
  <2>1. \A k \in from..Len(bars) : bars[k] \in Bars
    BY <1>3, <1>5
  <2> QED BY <1>3, <1>5, <1>6, <2>1, SubSeqProperties
<1>8. some[Len(some)] = bars[Len(bars)]
  <2>1. Len(some) \in 1..Len(bars) - from + 1 /\ from + Len(some) - 1 = Len(bars)
    BY <1>3, <1>5, <1>7
  <2> QED BY <1>7, <2>1
<1>9. BarsShown(i, 2) = some
  BY <1>2, <1>4, <1>6 DEF BarsShown
<1>10. Last(BarsShown(i, 2)) = Last(AsOf(i, asOf))
  BY <1>2, <1>8, <1>9 DEF Last
<1>11. /\ recs[i].asOf = asOf /\ Missing(recs[i]) = {}
       /\ NoFigure \notin {recs[i].target, recs[i].invalidation, recs[i].prob}
       /\ recs[i].entry = Last(AsOf(i, asOf)).close
       /\ recs[i].evidence = evidence[i] /\ evidence[i] # {}
  BY <1>1 DEF Complete
<1>12. recs[i].entry = Last(BarsShown(i, 2)).close
  BY <1>10, <1>11
<1>13. recs[i].evidence = EvidenceShown(i)
  BY <1>1, <1>11 DEF EvidenceShown
<1>14. Audit(i).recommendation = recs[i] /\ Audit(i).reconstructable
  BY <1>1, <1>11 DEF Audit
<1> QED BY <1>11, <1>12, <1>13, <1>14

LEMMA AlertsListed ==
  ASSUME BuildInv, BookInv, stage = "serving"
  PROVE  /\ Each(tables["alert_delivery"], {AlertsShown[k].name : k \in 1..Len(AlertsShown)})
         /\ Each(tables["alert_delivery"], DOMAIN recs \cup DOMAIN vetoed)
<1>1. PICK rows, sent : rows = tables["alert_delivery"] /\ sent = engine.delivered
  OBVIOUS
<1>2. AlertsTold /\ DOMAIN evidence = DOMAIN recs \cup DOMAIN vetoed
  BY ServedParts DEF BookTold
<1>3. /\ Len(rows) = Len(sent)
      /\ \A k \in 1..Len(rows) : rows[k].instrument_id = sent[k].name
  BY <1>1, <1>2 DEF AlertsTold
<1>4. /\ {sent[k].name : k \in 1..Len(sent)} = DOMAIN evidence
      /\ Len(sent) = Cardinality(DOMAIN evidence)
  <2>1. ToAlert = {} /\ Alerting
    BY DEF ToAlert, Alerting, Logging
  <2>2. Delivered = DOMAIN evidence \ {} /\ Len(sent) = Cardinality(DOMAIN evidence \ {})
    BY <1>1, <2>1 DEF BuildInv, Alerted
  <2>3. DOMAIN evidence \ {} = DOMAIN evidence
    OBVIOUS
  <2> QED BY <1>1, <2>2, <2>3 DEF Delivered
<1>5. NamesIn(rows) = {sent[k].name : k \in 1..Len(sent)}
  BY <1>3 DEF NamesIn
<1>6. Each(rows, DOMAIN evidence)
  BY <1>3, <1>4, <1>5 DEF Each
<1>7. {AlertsShown[k].name : k \in 1..Len(AlertsShown)} = DOMAIN evidence
  BY <1>1, <1>4 DEF AlertsShown
<1> QED BY <1>1, <1>2, <1>6, <1>7

LEMMA ServedTogether ==
  ASSUME DayFits, BuildInv, BookInv
  PROVE  ViewsTellTheSameDay
<1> SUFFICES ASSUME stage = "serving" PROVE ViewsTellTheSameDay
  BY DEF ViewsTellTheSameDay
<1>1. PICK day, held : day = LogbookDay(0) /\ held = tables["holding_snapshot"]
  OBVIOUS
<1>2. day = Day(asOf)
  BY <1>1 DEF LogbookDay
<1>3. /\ day.recommendations = List("recommendation", [as_of |-> asOf], DayLimit)
      /\ day.risk_vetoes = List("risk_veto", [as_of |-> asOf], DayLimit)
      /\ day.decisions = List("decision_log", [as_of |-> asOf], DayLimit)
      /\ day.paper_fills = List("paper_fill", [session_date |-> asOf], DayLimit)
  BY <1>2 DEF Day
<1>4. BookTold /\ Closing /\ DOMAIN recs \cap DOMAIN vetoed = {}
      /\ DOMAIN recs \subseteq Names /\ DOMAIN vetoed \subseteq Names
  BY ServedParts
<1>5. /\ Each(day.recommendations, DOMAIN recs) /\ Each(day.decisions, DOMAIN recs)
      /\ Each(day.risk_vetoes, DOMAIN vetoed)
  BY <1>3, ListsTold
<1>6. /\ Len(day.plans) = 1
      /\ {<<c.action, c.instrument_id, c.from_instrument>> : c \in Range(day.plans[1].changes)}
           = {<<m.action, m.name, m.from>> : m \in moves}
  BY <1>2, <1>4, PlanListed DEF BookTold, Told, Planning
<1>7. Len(day.paper_fills) = Cardinality({k \in 1..Len(fills) : fills[k].session_date = asOf})
  BY <1>3, <1>4, FillsListed DEF BookTold, BuildInv
<1>8. /\ Each(tables["alert_delivery"], {AlertsShown[k].name : k \in 1..Len(AlertsShown)})
      /\ Each(tables["alert_delivery"], DOMAIN recs \cup DOMAIN vetoed)
  BY AlertsListed
<1>9. /\ Each(held, DOMAIN PortfolioShown.holdings)
      /\ \A k \in 1..Len(held) :
           held[k].quantity = PortfolioShown.holdings[held[k].instrument_id].quantity
  <2>1. Each(held, Held) /\ \A k \in 1..Len(held) : held[k].quantity = Quantities[held[k].instrument_id]
    BY <1>1, <1>4 DEF BookTold, HoldingsTold
  <2>2. PICK told : told = [i \in Held |-> [quantity |-> Quantities[i],
                                             last_price |-> Last(AsOf(i, asOf)).close]]
    OBVIOUS
  <2>3. PortfolioShown.holdings = told
    BY <2>2 DEF PortfolioShown
  <2>4. DOMAIN told = Held /\ \A i \in Held : told[i].quantity = Quantities[i]
    BY <2>2
  <2>5. \A k \in 1..Len(held) : held[k].instrument_id \in Held
    BY <2>1 DEF Each, NamesIn
  <2> QED BY <2>1, <2>3, <2>4, <2>5
<1>10. \A i \in DOMAIN recs :
         LET told == LogbookReconstruct(recIds[i])
         IN /\ Missing(recs[i]) = {}
            /\ recs[i].entry = Last(BarsShown(i, 2)).close /\ recs[i].evidence = EvidenceShown(i)
            /\ told.reconstructable /\ Audit(i).reconstructable
            /\ told.recommendation.instrument_id = i /\ told.risk_vetoes = <<>>
            /\ told.recommendation.quantity = Audit(i).recommendation.quantity
  BY Reconstructed, ShownWhole DEF LogbookReconstruct
<1>11. /\ Metrics.counters.candidates = Len(tables["alert_delivery"])
       /\ Metrics.counters.recommendations = Cardinality(DOMAIN Recommendations.recommendations)
  <2>1. Metrics.counters = counters /\ Recommendations.recommendations = recs
    BY DEF Metrics, Recommendations
  <2>2. /\ counters.candidates = Cardinality(DOMAIN recs) + Cardinality(DOMAIN vetoed)
        /\ counters.recommendations = Cardinality(DOMAIN recs)
    BY DEF BuildInv, CountersTold, Logging
  <2>3. IsFiniteSet(DOMAIN recs) /\ IsFiniteSet(DOMAIN vetoed)
        /\ Cardinality(DOMAIN recs) \in Nat /\ Cardinality(DOMAIN vetoed) \in Nat
    BY <1>4, NamesFit
  <2>4. Cardinality(DOMAIN recs \cup DOMAIN vetoed)
          = Cardinality(DOMAIN recs) + Cardinality(DOMAIN vetoed)
    <3>1. Cardinality(DOMAIN recs \cap DOMAIN vetoed) = 0
      BY <1>4, FS_EmptySet
    <3>2. Cardinality(DOMAIN recs \cup DOMAIN vetoed) = Cardinality(DOMAIN recs)
            + Cardinality(DOMAIN vetoed) - Cardinality(DOMAIN recs \cap DOMAIN vetoed)
      BY <2>3, FS_Union
    <3> QED BY <2>3, <3>1, <3>2
  <2>5. Len(tables["alert_delivery"]) = Cardinality(DOMAIN recs \cup DOMAIN vetoed)
    BY <1>8 DEF Each
  <2> QED BY <2>1, <2>2, <2>4, <2>5
<1> QED BY <1>1, <1>5, <1>6, <1>7, <1>8, <1>9, <1>10, <1>11 DEF ViewsTellTheSameDay

\* While the terminal serves, its list, portfolio, plan, alerts, logbook, audit bundle and
\* metrics tell the same day, whatever failed builds came before, when the lists of a day
\* are long enough for the instruments and the paper fills there can be.
THEOREM DayIsTold == DayFits => (Spec => []ViewsTellTheSameDay)
<1> SUFFICES ASSUME DayFits PROVE Spec => []ViewsTellTheSameDay
  OBVIOUS
<1> DEFINE Inv == RecsTyped /\ PlanInv /\ ShownInv /\ BuildInv /\ BookInv
<1>1. Init => Inv
  <2> SUFFICES ASSUME Init PROVE Inv
    OBVIOUS
  <2>1. BookInv
    BY DEF Init, BookInv, Logging
  <2> QED BY <2>1, PlanStart, ShownStart, StartBuilds
<1>2. Inv /\ [Next]_terminalVars => Inv'
  <2> SUFFICES ASSUME Inv, [Next]_terminalVars PROVE Inv'
    OBVIOUS
  <2>1. AlertsTyped
    BY DEF ShownInv
  <2>2. RecsTyped' /\ PlanInv'
    BY PlanGoesOn
  <2>3. ShownInv'
    BY ShownGoesOn
  <2>4. BuildInv' /\ BookInv'
    BY <2>1, TellsOn
  <2> QED BY <2>2, <2>3, <2>4
<1>3. Inv => ViewsTellTheSameDay
  BY ServedTogether
<1> QED BY <1>1, <1>2, <1>3, PTL DEF Spec
=============================================================================
