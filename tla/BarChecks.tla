------------------------------ MODULE BarChecks ------------------------------
(***************************************************************************)
(* What is made of the bars of one instrument before they are used: the    *)
(* back-adjustment for corporate actions (corporate_actions.py), the data  *)
(* quality suite (quality.py) and the trading calendar (calendar.py).      *)
(* They keep nothing: the state is what they are called with, rows that    *)
(* come session by session, some again, and actions announced early or     *)
(* late.                                                                   *)
(*                                                                         *)
(* Abstracted: a row has one price, open, high, low and close are scaled   *)
(* alike.  Prices and factors are fractions, a pair of numerator and       *)
(* denominator.  Issues are a set and carry no wording.                    *)
(***************************************************************************)
EXTENDS Integers, Sequences, FiniteSets, SequencesExt, FiniteSetsExt

CONSTANTS
  Closes, Volumes,   \* the prices and volumes that occur
  KnownActions,      \* the corporate actions that may be announced
  Outlying,          \* outlier_return, in percent
  MaxStale,          \* max_stale_days
  MaxRows, MaxDate   \* bounds: rows, and the days they are of

ASSUME ChecksAssumption ==
  /\ Closes \subseteq Nat /\ Volumes \subseteq Nat /\ Outlying \in Nat
  /\ MaxRows \in Nat /\ MaxDate \in Nat

\* An action is of shares or of an amount that there can be; price_factor divides by
\* the new shares of a split, and by the shares held after a bonus issue.
ASSUME ActionsAssumption ==
  /\ KnownActions \subseteq
       [type : {"SPLIT", "BONUS", "DIVIDEND"}, ex : Int, a : Nat, b : Nat, amount : Nat]
  /\ \A act \in KnownActions :
       (act.type = "SPLIT" => act.b > 0) /\ (act.type = "BONUS" => act.a + act.b > 0)

VARIABLES
  rows,      \* the bars: a sequence of [day, price, volume], in the order of their days
  announced  \* the actions

checked == <<rows, announced>>

NoClose == -1
Whole(n) == <<n, 1>>
Times(p, q) == <<p[1] * q[1], p[2] * q[2]>>
Equal(p, q) == p[1] * q[2] = q[1] * p[2]

\* Python's round, to the even of two.
Rounded(p) ==
  LET q == p[1] \div p[2] twice == 2 * (p[1] % p[2])
  IN IF twice < p[2] \/ (twice = p[2] /\ q % 2 = 0) THEN q ELSE q + 1

-----------------------------------------------------------------------------
(* corporate_actions.py                                                    *)

\* What prices before the ex-date are multiplied by; ref is the close before it.
PriceFactor(act, ref) ==
  CASE act.type = "SPLIT" -> <<act.a, act.b>>
    [] act.type = "BONUS" -> <<act.b, act.a + act.b>>
    [] act.type = "DIVIDEND" ->
         IF ref \in {NoClose, 0} THEN Whole(1)
         ELSE <<IF ref > act.amount THEN ref - act.amount ELSE 0, ref>>

\* Mutant: the reference is the last close there is.
CloseRefLast(s, ex) == IF s = <<>> THEN NoClose ELSE Last(s).price[1]
CloseRef(s, ex) ==
  LET prior == {k \in 1..Len(s) : s[k].day < ex}
  IN IF prior = {} THEN NoClose ELSE s[Max(prior)].price[1]

\* The product of the factors of some actions.
Factors(s, acts) ==
  MapThenFoldSet(Times, Whole(1), LAMBDA a : PriceFactor(a, CloseRef(s, a.ex)),
                 LAMBDA S : CHOOSE a \in S : TRUE, acts)

\* Mutant: the bar of the ex-date is adjusted, too.
CumulativeInclusive(s, acts, day) == Factors(s, {a \in acts : day <= a.ex})

\* What the prices of a day are multiplied by: the factors of all actions after it.
Cumulative(s, acts, day) == Factors(s, {a \in acts : day < a.ex})

AdjustBars(s, acts) ==
  [k \in 1..Len(s) |->
     LET f == Cumulative(s, acts, s[k].day)
     IN [s[k] EXCEPT !.price = Times(@, f),
                     !.volume = IF f[1] = 0 THEN @ ELSE Rounded(<<@ * f[2], f[1]>>)]]

-----------------------------------------------------------------------------
(* calendar.py and quality.py                                              *)

\* TradingCalendar.from_bars, sessions_between.
Sessions(s) == {s[k].day : k \in 1..Len(s)}
SessionsBetween(sessions, from, to) == {d \in sessions : from <= d /\ d <= to}

Issue(code, severity, day) == [code |-> code, severity |-> severity, day |-> day]

\* A move of more than Outlying percent, from a price above zero.
Outlies(p, q) ==
  LET from == p[1] * q[2] to == q[1] * p[2]
  IN p[1] > 0 /\ 100 * (IF to > from THEN to - from ELSE from - to) > Outlying * from

Duplicates(s) ==
  {Issue("DUPLICATE", "ERROR", s[k].day) :
     k \in {n \in 1..Len(s) : \E j \in 1..n - 1 : s[j].day = s[n].day}}
NonPositive(s) ==
  {Issue("NONPOSITIVE_PRICE", "ERROR", s[k].day) : k \in {n \in 1..Len(s) : s[n].price[1] <= 0}}
Outliers(s) ==
  {Issue("OUTLIER", "WARN", s[k].day) :
     k \in {n \in 2..Len(s) : Outlies(s[n - 1].price, s[n].price)}}
Missing(s, sessions) ==
  {Issue("MISSING_SESSION", "WARN", d) :
     d \in IF s = <<>> THEN {} ELSE SessionsBetween(sessions, s[1].day, Last(s).day) \ Sessions(s)}
Stale(s, asOf) ==
  {Issue("STALE", "WARN", s[k].day) :
     k \in {n \in {Len(s)} \ {0} : asOf - s[n].day > MaxStale}}

RunQuality(s, sessions, asOf) ==
  Duplicates(s) \cup NonPositive(s) \cup Outliers(s) \cup Missing(s, sessions) \cup Stale(s, asOf)

Errors(issues) == {i \in issues : i.severity = "ERROR"}
QuarantineKeys(issues) == {i.day : i \in Errors(issues)}

-----------------------------------------------------------------------------
(* What they are called with.                                              *)

ChecksInit == rows = <<>> /\ announced = {}

Today == IF rows = <<>> THEN 0 ELSE Last(rows).day
Comes(day, p, v) ==
  /\ Len(rows) < MaxRows
  /\ rows' = Append(rows, [day |-> day, price |-> Whole(p), volume |-> v])
  /\ UNCHANGED announced

\* A row of a later session, after a gap or none.
SessionComes(day, p, v) == day > Today /\ Comes(day, p, v)
\* A corrected row of the last session.
ComesAgain(p, v) == rows # <<>> /\ Comes(Today, p, v)
Announce(a) == announced' = announced \cup {a} /\ a \notin announced /\ UNCHANGED rows

ChecksNext ==
  \/ \E p \in Closes, v \in Volumes :
       (\E d \in 1..MaxDate : SessionComes(d, p, v)) \/ ComesAgain(p, v)
  \/ \E a \in KnownActions : Announce(a)

ChecksSpec == ChecksInit /\ [][ChecksNext]_checked

-----------------------------------------------------------------------------
(* Properties.                                                             *)

Adjusted == AdjustBars(rows, announced)
Day(k) == rows[k].day
Issues == RunQuality(Adjusted, 1..MaxDate, MaxDate)

\* An outlier of the adjusted bars is a move that the actions of its own day do not
\* explain, and every such move is one, whatever other actions there are.
OutliersAreUnexplained ==
  Outliers(Adjusted) =
    {Issue("OUTLIER", "WARN", Day(k)) :
       k \in {n \in 2..Len(rows) :
         LET own == {a \in announced : Day(n - 1) < a.ex /\ a.ex <= Day(n)}
             before == Cumulative(rows, own, Day(n - 1))
         IN /\ Outlies(Times(rows[n - 1].price, before), rows[n].price)
            /\ Adjusted[n - 1].price[1] > 0}}

\* The value traded on a day stays the same, up to the rounding of one share.
NotionalIsKept ==
  \A k \in 1..Len(rows) :
    LET p == Adjusted[k].price
        was == rows[k].price[1] * rows[k].volume * p[2]
        is == p[1] * Adjusted[k].volume
    IN p[1] > 0 => 2 * (IF is > was THEN is - was ELSE was - is) <= p[1]

\* What is left without the quarantined days has no error.
Without(s, days) ==
  LET left[n \in 0..Len(s)] ==
        IF n = 0 THEN <<>>
        ELSE IF s[n].day \in days THEN left[n - 1]
        ELSE Append(left[n - 1], s[n])
  IN left[Len(s)]
QuarantineSuffices ==
  Errors(RunQuality(Without(Adjusted, QuarantineKeys(Issues)), 1..MaxDate, MaxDate)) = {}

\* quality.py: an outlier is "often an unadjusted corporate action", and no signal may
\* change because of a mutation that was not flagged: adjustment leaves exactly the
\* moves it cannot explain, keeps the value traded, and what quality lets through is
\* clean, also where a dividend as large as the price takes the history to zero.
AdjustmentIsExact == OutliersAreUnexplained /\ NotionalIsKept /\ QuarantineSuffices

\* An action after the day takes its price to zero: a dividend as large as the close
\* it is measured by.
Wiped(s, acts, day) ==
  \E a \in acts : day < a.ex /\ PriceFactor(a, CloseRef(s, a.ex))[1] = 0

\* docs/INDIAN_EQUITY_AI_MASTER_SPEC.md: "Prevent ... future corporate-action leakage".
\* Neither a later bar nor an action outside of it changes the return between two bars
\* that are there, however early or late the action becomes known: a return that there
\* was is there and is the same.  One thing does take it away, a later action that
\* takes prices to zero (price_factor's max(0, ...)): both prices are zero then.
PastReturnsStay ==
  [][\A j, k \in 1..Len(rows) :
       /\ j < k /\ Adjusted[j].price[1] > 0
       /\ \A a \in announced' \ announced : ~(Day(j) < a.ex /\ a.ex <= Day(k))
       => \/ Wiped(rows', announced', Day(k))
          \/ /\ Adjusted'[j].price[1] > 0
             /\ Equal(Times(Adjusted[j].price, Adjusted'[k].price),
                      Times(Adjusted[k].price, Adjusted'[j].price))]_checked
=============================================================================
