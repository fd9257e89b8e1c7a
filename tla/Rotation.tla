------------------------------- MODULE Rotation -------------------------------
(***************************************************************************)
(* recommend_rotation (risk_portfolio/portfolio.py): which holdings to     *)
(* leave, which candidates to buy, and which to exchange for a holding.    *)
(* The loop over the candidates is one step per candidate.                 *)
(*                                                                         *)
(* Abstracted: moves are a set (their order is the order they are shown    *)
(* in) and carry no text; candidates, or holdings, of equal edge are taken *)
(* in any order, the code takes them in list order.                        *)
(***************************************************************************)
EXTENDS Integers, FiniteSets, FiniteSetsExt, Functions

CONSTANTS
  Names,        \* instruments
  MinEdge, ExitEdge, Margin, MaxPositions, TargetWeight, \* RotationConfig, in percent
  Nobody        \* None

ASSUME RotationAssumption ==
  /\ MinEdge \in Int /\ ExitEdge \in Int /\ Margin \in Nat /\ MaxPositions \in Nat
  /\ TargetWeight \in Int /\ IsFiniteSet(Names) /\ Nobody \notin Names

VARIABLES
  cash, holdings, \* Portfolio: cash, and the market value of each holding
  edges,      \* the expected net edge of every name, 0 where the dict has none
  offers,     \* the candidates: a function to [edge, pass]
  todo,       \* candidates the loop has not reached
  remaining,  \* holdings not left yet
  slots,      \* open_slots
  moves,      \* what is recommended
  planning    \* "idle", "exits", "candidates" or "done"

rotation == <<cash, holdings, edges, offers, todo, remaining, slots, moves, planning>>

Held == DOMAIN holdings
Move(a, n, from, rupees) == [action |-> a, name |-> n, from |-> from, rupees |-> rupees]

\* Portfolio.invested and nav, and the rupees of a purchase.
Nav == cash + SumFunction(holdings)
Stake == Min({cash, (Nav * TargetWeight) \div 100})

NoRotation ==
  /\ cash = 0 /\ holdings = [n \in {} |-> 0] /\ edges = [n \in Names |-> 0]
  /\ offers = [n \in {} |-> 0] /\ todo = {} /\ remaining = {} /\ slots = 0
  /\ moves = {} /\ planning = "idle"

NothingPlanned ==
  /\ cash' = 0 /\ holdings' = [n \in {} |-> 0] /\ edges' = [n \in Names |-> 0]
  /\ offers' = [n \in {} |-> 0] /\ todo' = {} /\ remaining' = {} /\ slots' = 0
  /\ moves' = {} /\ planning' = "idle"

\* recommend_rotation is called with a portfolio, the edges and the candidates.
Calls(c, h, e, o) ==
  /\ planning' = "exits"
  /\ cash' = c /\ holdings' = h /\ edges' = e /\ offers' = o
  /\ todo' = DOMAIN o /\ remaining' = DOMAIN h /\ slots' = 0 /\ moves' = {}

\* Holdings whose edge has decayed are left; the slots are counted after that.
Exits ==
  /\ planning = "exits"
  /\ LET exited == {n \in Held : edges[n] < ExitEdge}
     IN /\ moves' = {Move("EXIT", n, Nobody, holdings[n]) : n \in exited}
        /\ remaining' = Held \ exited
        /\ slots' = MaxPositions - Cardinality(Held \ exited)
  /\ planning' = "candidates"
  /\ UNCHANGED <<cash, holdings, edges, offers, todo>>

\* Mutant: the candidates are taken as they come.
StrongestOfNone(n) == n \in todo
Strongest(n) == \A k \in todo : offers[k].edge <= offers[n].edge
Weakest(h) == \A k \in remaining : edges[h] <= edges[k]
Eligible(n) == n \notin Held /\ offers[n].pass /\ offers[n].edge >= MinEdge
Beats(n, h) == offers[n].edge > edges[h] + Margin

Skip(n) ==
  /\ ~Eligible(n)
  /\ UNCHANGED <<remaining, slots, moves>>

Buy(n) ==
  /\ Eligible(n) /\ slots > 0
  /\ moves' = moves \cup {Move("BUY", n, Nobody, Stake)}
  /\ slots' = slots - 1
  /\ UNCHANGED remaining

\* Mutant: the holding exchanged stays among the remaining ones.
ExchangeKeeping(n) ==
  /\ Eligible(n) /\ slots <= 0
  /\ \E h \in remaining :
       /\ Weakest(h) /\ Beats(n, h)
       /\ moves' = moves \cup {Move("ROTATE", n, h, holdings[h])}
  /\ UNCHANGED <<remaining, slots>>
Exchange(n) ==
  /\ Eligible(n) /\ slots <= 0
  /\ \E h \in remaining :
       /\ Weakest(h) /\ Beats(n, h)
       /\ moves' = moves \cup {Move("ROTATE", n, h, holdings[h])}
       /\ remaining' = remaining \ {h}
  /\ UNCHANGED slots

Decline(n) ==
  /\ Eligible(n) /\ slots <= 0
  /\ \A h \in remaining : Weakest(h) => ~Beats(n, h)
  /\ UNCHANGED <<remaining, slots, moves>>

Consider(n) ==
  /\ planning = "candidates" /\ n \in todo /\ Strongest(n)
  /\ Skip(n) \/ Buy(n) \/ Exchange(n) \/ Decline(n)
  /\ todo' = todo \ {n}
  /\ UNCHANGED <<cash, holdings, edges, offers, planning>>

Planned ==
  /\ planning = "candidates" /\ todo = {}
  /\ planning' = "done"
  /\ moves' = IF moves = {} THEN {Move("NO_TRADE", Nobody, Nobody, 0)} ELSE moves
  /\ UNCHANGED <<cash, holdings, edges, offers, todo, remaining, slots>>

Rotate == Exits \/ (\E n \in Names : Consider(n)) \/ Planned

-----------------------------------------------------------------------------
(* What the plan promises.                                                 *)

Entered == {m.name : m \in {x \in moves : x.action \in {"BUY", "ROTATE"}}}
Left == {m.name : m \in {x \in moves : x.action = "EXIT"}}
        \cup {m.from : m \in {x \in moves : x.action = "ROTATE"}}
Positions == (Held \ Left) \cup Entered

\* The plan can be carried out: a holding is left by one move only, nothing is
\* entered twice or both left and entered, what remains is what was not left,
\* and the positions it ends with are within the cap (or no more than before).
PlanIsSound ==
  planning \in {"candidates", "done"} =>
    /\ remaining = Held \ Left /\ Left \subseteq Held /\ Entered \cap Held = {}
    /\ \A m, k \in moves :
         \/ m = k
         \/ m.name # k.name /\ (m.from # k.from \/ m.from = Nobody) /\ m.from # k.name
    /\ \/ Cardinality(Positions) <= MaxPositions
       \/ Cardinality(Positions) <= Cardinality(Held)

\* The plan leaves nothing better aside: a candidate it could have entered and did
\* not beats no remaining holding, has no slot, and is no better than any it enters.
PlanIsBest ==
  planning = "done" =>
    \A n \in DOMAIN offers : Eligible(n) /\ n \notin Entered =>
      /\ slots <= 0
      /\ \A h \in remaining : ~Beats(n, h)
      /\ \A k \in Entered : offers[n].edge <= offers[k].edge
===============================================================================
