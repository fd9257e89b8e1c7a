-------------------------------- MODULE MCDay --------------------------------
(* TLC instance of Terminal: four instruments over five days, A and B held.   *)
(* An instrument rises on volume, swings (which asks for a review), costs too *)
(* much for a single share, or does nothing; in one market D has no bars, and *)
(* in another nobody has, so that there is nothing to train on.               *)
EXTENDS Terminal

CONSTANTS A, B, C, D

Series(closes, volumes) ==
  [k \in 1..Len(closes) |->
     [day |-> k, close |-> closes[k], volume |-> volumes[k], turnover |-> NoFigure]]
Rising == Series(<<10, 11, 12, 14, 16>>, <<10, 20, 30, 50, 80>>)
Strong == Series(<<10, 11, 13, 17, 24>>, <<10, 20, 40, 80, 170>>)
Swinging == Series(<<10, 20, 10, 20, 20>>, <<10, 20, 10, 20, 20>>)
Costly == Series(<<400, 420, 440, 470, 500>>, <<1, 2, 3, 5, 8>>)
Flat == Series(<<10, 10, 10, 10, 10>>, <<10, 10, 10, 10, 10>>)

Four(a, b, c, d) == (A :> a) @@ (B :> b) @@ (C :> c) @@ (D :> d)
MCMarkets ==
  {Four(Rising, Strong, Costly, Swinging), Four(Strong, Flat, Rising, Swinging),
   Four(Flat, Flat, Flat, Flat), Four(Flat, Costly, Flat, Flat), Four(Flat, Rising, Flat, Flat),
   Four(Rising, Strong, Flat, <<>>), Four(<<>>, <<>>, <<>>, <<>>)}
MCForecasts == {Four(a, 60, c, 90) : a \in {10, 90}, c \in {60, 90}}
MCOrder == Four(1, 2, 3, 4)
MCQuantities == (A :> 50) @@ (B :> 20)
MCDefaultEdges == (A :> 2) @@ (B :> -1)
MCRiskLimits == [turnover |-> 100, spread |-> 100, vol |-> 30, manipulation |-> 70,
                 uncertainty |-> 70, band |-> 5]
MCSizing == [capital |-> 1000, risk |-> 10, allocation |-> 10, reserve |-> 10,
             participation |-> 5, sector |-> 30]
NoNames == [k \in Kinds |-> Blank]
MCRegistered == [k \in Kinds |-> {"sample"}]
MCEnvironments ==
  {Settings("demo", FALSE, {}, NoNames), Settings("demo", TRUE, {}, NoNames),
   Settings("real", FALSE, {}, NoNames),
   Settings("real", FALSE, RequiredInReal, [NoNames EXCEPT !["market_data"] = "vendor"])}
MCNoQuiet == <<>>

\* The lists of a day are long enough, as the theorem about the views requires.
ASSUME ListsAreLong == DayFits
===============================================================================
