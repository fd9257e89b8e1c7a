------------------------------- MODULE Terminal -------------------------------
(***************************************************************************)
(* The terminal (apps/api/app/terminal.py) behind its API (main.py).  The  *)
(* first request builds it: train, paper-trade the past days, recommend    *)
(* for the current one, plan the portfolio, alert, count, and write the    *)
(* logbook; from then on it serves.  Any step may raise: the constructor   *)
(* ends, nothing built is kept, and the next request builds anew.          *)
(*                                                                         *)
(* A build step is one action, but the plan (Rotation) and the logbook,    *)
(* which is written in one session per row.  Left out: the performance     *)
(* figures, the research floor (ResearchFloor models it), prices of paper  *)
(* fills (PaperTrading), the web page.  The model's probabilities and the  *)
(* days trades last are chosen, not computed.                              *)
(***************************************************************************)
EXTENDS Rotation, RateLimiter, Decision, Logbook, AlertEngine, Settings

CONSTANTS
  Environments,      \* the settings a process may start with
  Markets,           \* functions of the names to their bars
  Forecasts,         \* functions of the names to a calibrated probability
  Order,             \* the place of a name in the master
  TrainDays, PaperDays, LastDay, \* ranges of _train, _paper_track; _N
  MinBars,           \* the bars _train needs of an instrument, 22
  Quantities,        \* the holdings _portfolio starts with
  StartCash, DefaultEdges, \* its cash; the edges it sets for them
  TopK, Spread, Manipulation, Uncertainty, Expiry, StopPct, TargetPct, HoldingSessions,
  Noted, Given,      \* what users send: the names their notes are about, and feedback labels
  MaxFaults, MaxClock, MaxChats, MaxRuns, MaxNotes \* bounds: faults, time, chats allowed and
                     \* ended, feedback and executions recorded

ASSUME TerminalAssumption ==
  /\ DOMAIN Quantities \subseteq Names /\ StartCash \in Int
  /\ \A i \in DOMAIN DefaultEdges : DefaultEdges[i] \in Int
  /\ \A f \in Forecasts : f \in [Names -> Int]
  /\ Order \in [Names -> Int]
  /\ StopPct \in Int /\ TargetPct \in Int

\* The day a terminal is built for: bars and features are numbers, and the engine it
\* makes has no quiet hours (terminal.py: AlertEngine()).
Bars == [day : Int, close : Int, volume : Int, turnover : Int \cup {NoFigure}]
ASSUME DayAssumption ==
  /\ \A mk \in Markets : /\ mk \in [Names -> Seq(Bars)]
                         /\ \A i \in Names : \A k \in 2..Len(mk[i]) : mk[i][k - 1].day < mk[i][k].day
  /\ NoFigure \notin Int /\ NoFigure \notin {"PASS", "REVIEW", "VETO", "logistic-0.1"}
  /\ \A c \in {"capital", "risk", "allocation", "reserve", "participation", "sector"} :
       Sizing[c] \in Int
  /\ LiquidityWindow \in Nat \ {0} /\ HoldingSessions \in Nat
  /\ LastDay \in Nat /\ PaperDays # {} /\ PaperDays \subseteq 1..LastDay
  /\ Quiet = <<>>

\* The lists of a day return all of its rows: there are no more instruments than they
\* return, nor more fills of the paper days.
DayFits ==
  /\ Cardinality(Names) <= DayLimit
  /\ 2 * (Max(PaperDays) - Min(PaperDays) + 1) <= DayLimit

VARIABLES
  settings, stage, \* of the process; how far its terminal is
  market, forecast, \* what the provider returns; what training on it yields
  paperDay, fills, asOf,  \* _paper_track: the next day, broker.fills, current_as_of
  recs, vetoed, evidence, \* _current_recs: functions of the candidates
  left,              \* the candidates a loop has not reached
  counters, recIds,
  feedback,          \* FeedbackStore
  asking, runs,      \* chats awaited; the states of the chat gateway's runs
  faults             \* bound: how often a step has raised or the process died

world == <<settings, market, forecast>>
tracking == <<paperDay, fills, asOf>>
picks == <<recs, vetoed, evidence>>
serving == <<feedback, asking, runs, limiter>>
book == <<tables, recIds>>
terminalVars == <<world, stage, faults, tracking, picks, rotation, left, alerting, counters, book,
                  serving>>

-----------------------------------------------------------------------------
(* What one instrument is worth on a day.                                  *)

\* as_of: a market has its bars in the order of their days.
AsOf(i, d) ==
  SubSeq(market[i], 1, Cardinality({k \in 1..Len(market[i]) : market[i][k].day <= d}))
FeaturesOn(d) == [i \in {n \in Names : AsOf(n, d) # <<>>} |-> Features(AsOf(i, d))]
Quantity(f) == SizePosition(f.close, (f.close * (100 - StopPct)) \div 100, f.turnover, 0, 0)

RiskOf(f) ==
  [turnover |-> f.turnover, spread |-> Spread, qualityOk |-> TRUE,
   manipulation |-> Manipulation, age |-> 0, expiry |-> Expiry, locked |-> FALSE,
   variance |-> IF f.variance = NoFigure THEN 4 ELSE f.variance,
   uncertainty |-> Uncertainty, gap |-> FALSE, band |-> NoFigure]

\* The filing made up for a candidate.
Filing(i) == {<<"nse", i>>}

Build(i, f) ==
  Recommendation("BUY", i, asOf, f.close, StopPct, TargetPct, HoldingSessions, Quantity(f),
                 forecast[i], AssessRisk(RiskOf(f)), Filing(i), "logistic-0.1")
Refusal(f) == [verdict |-> AssessRisk(RiskOf(f)), flags |-> RiskFlags(RiskOf(f))]
Dropped(f) == AssessRisk(RiskOf(f)) = "VETO" \/ Quantity(f) <= 0

\* The examples _train fits: instruments with their features and a label.
IsExample(d, i) ==
  /\ i \in DOMAIN FeaturesOn(d)
  /\ Len(AsOf(i, d)) >= MinBars
  /\ LET f == FeaturesOn(d)[i] IN NoFigure \notin {f.momentum, f.volumeRatio, f.variance}
  /\ Len(AsOf(i, d)) < Len(market[i])
Examples == {x \in TrainDays \X Names : IsExample(x[1], x[2])}

-----------------------------------------------------------------------------
(* The process, and the build steps in their order.                        *)

NoTerminal ==
  /\ paperDay = 0 /\ fills = <<>> /\ asOf = 0
  /\ recs = <<>> /\ vetoed = <<>> /\ evidence = <<>> /\ left = {}
  /\ NoRotation /\ engine = NewEngine /\ counters = <<>> /\ recIds = <<>>
  /\ feedback = <<>> /\ asking = 0 /\ runs = <<>> /\ LimiterInit

Init ==
  /\ settings = [mode |-> "none"] /\ stage = "down" /\ faults = 0
  /\ market \in Markets /\ forecast \in Forecasts
  /\ NoTerminal /\ tables = Created /\ auditFile = <<>> /\ hour \in Hours

\* main.py at import: settings that are refused start no process.
Starts(s) ==
  /\ stage = "down" /\ ~Refused(s)
  /\ settings' = s /\ stage' = "up"
  /\ UNCHANGED <<market, forecast, faults, tracking, picks, rotation, left, alerting, counters,
                 book, serving>>

\* get_terminal in demo mode; in real mode every request of data gets 503.
Requested ==
  /\ stage = "up" /\ settings.mode # "real"
  /\ stage' = "train"
  /\ UNCHANGED <<world, faults, tracking, picks, rotation, left, alerting, counters, book,
                 serving>>

Train ==
  /\ stage = "train" /\ Examples # {}
  /\ stage' = "track" /\ paperDay' = Min(PaperDays) /\ asOf' = LastDay
  /\ UNCHANGED <<world, faults, fills, picks, rotation, left, alerting, counters, book, serving>>

\* One day of _paper_track; the last one with a candidate is the current day.
Fill(i, side, q, d, kind) ==
  [instrument_id |-> i, side |-> side, quantity |-> q, price |-> NoFigure,
   session_date |-> d, kind |-> kind]
Trades(i, q) ==
  IF q <= 0 \/ Len(market[i]) <= paperDay THEN UNCHANGED fills
  ELSE \E x \in paperDay + 1..Min({paperDay + HoldingSessions, Len(market[i])}) :
         fills' = fills \o <<Fill(i, "BUY", q, paperDay + 1, "ENTRY"), Fill(i, "SELL", q, x, "EXIT")>>

PaperTrack ==
  /\ stage = "track"
  /\ LET F == FeaturesOn(paperDay)
     IN \/ Scan(F, Order, 1) = {} /\ UNCHANGED <<asOf, fills>>
        \/ \E i \in Scan(F, Order, 1) : asOf' = paperDay /\ Trades(i, Quantity(F[i]))
  /\ paperDay' = paperDay + 1
  /\ stage' = IF paperDay = Max(PaperDays) THEN "recs" ELSE "track"
  /\ UNCHANGED <<world, faults, picks, rotation, left, alerting, counters, book, serving>>

\* Mutant: a candidate that is dropped goes on to be recommended.
PicksOfAll(F, candidates) ==
  /\ recs' = [i \in candidates |-> Build(i, F[i])]
  /\ vetoed' = [i \in {c \in candidates : Dropped(F[c])} |-> Refusal(F[i])]
  /\ evidence' = [i \in candidates |-> Filing(i)]
Picks(F, candidates) ==
  /\ recs' = [i \in {c \in candidates : ~Dropped(F[c])} |-> Build(i, F[i])]
  /\ vetoed' = [i \in {c \in candidates : Dropped(F[c])} |-> Refusal(F[i])]
  /\ evidence' = [i \in candidates |-> Filing(i)]

CurrentRecs ==
  /\ stage = "recs" /\ stage' = "portfolio"
  /\ Picks(FeaturesOn(asOf), Scan(FeaturesOn(asOf), Order, TopK))
  /\ UNCHANGED <<world, faults, tracking, rotation, left, alerting, counters, book, serving>>

\* _portfolio asks for a price of every instrument of the master, and calls the planner.
Priced == \A i \in Names : AsOf(i, asOf) # <<>>
EdgeOf(i) ==
  IF i \in DOMAIN recs THEN recs[i].net
  ELSE IF i \in DOMAIN DefaultEdges THEN DefaultEdges[i] ELSE 0

Portfolio ==
  /\ stage = "portfolio" /\ Priced
  /\ stage' = "rotation"
  /\ Calls(StartCash,
           [i \in DOMAIN Quantities |-> Quantities[i] * Last(AsOf(i, asOf)).close],
           [i \in Names |-> EdgeOf(i)],
           [i \in DOMAIN recs |-> [edge |-> recs[i].net, pass |-> TRUE]])
  /\ UNCHANGED <<world, faults, tracking, picks, left, alerting, counters, book, serving>>

Plans ==
  /\ stage = "rotation" /\ Rotate
  /\ IF planning' = "done" THEN stage' = "alerts" /\ left' = DOMAIN evidence
     ELSE UNCHANGED <<stage, left>>
  /\ UNCHANGED <<world, faults, tracking, picks, alerting, counters, book, serving>>

\* The loops below go over lists; here in the order of the master.
First(S) == CHOOSE i \in S : \A j \in S : Order[i] <= Order[j]

\* One alert of _alerts, the recommended before the vetoed.
RaiseAlert ==
  /\ stage = "alerts" /\ left # {}
  /\ LET i == First(IF left \cap DOMAIN recs # {} THEN left \cap DOMAIN recs ELSE left)
         a == IF i \in DOMAIN recs THEN NewOpportunity(i, asOf) ELSE RiskVetoed(i, vetoed[i].flags)
     IN engine' = Emitted(engine, a, Quiet, hour) /\ left' = left \ {i}
  /\ UNCHANGED <<world, stage, faults, tracking, picks, rotation, auditFile, hour, counters, book,
                 serving>>

Observability ==
  /\ stage = "alerts" /\ left = {}
  /\ stage' = "setup"
  /\ counters' = [candidates |-> Cardinality(DOMAIN recs) + Cardinality(DOMAIN vetoed),
                  recommendations |-> Cardinality(DOMAIN recs),
                  risk_vetoes |-> Cardinality(DOMAIN vetoed),
                  alerts_delivered |-> Len(engine.delivered)]
  /\ UNCHANGED <<world, faults, tracking, picks, rotation, left, alerting, book, serving>>

-----------------------------------------------------------------------------
(* _logbook_setup: one session after the other on a new engine.            *)

unlogged == <<world, faults, tracking, picks, rotation, alerting, counters, serving>>

\* Mutant: the engine is the one of the build before.
LogbookSetupOnTheSame ==
  /\ stage = "setup" /\ stage' = "snapshot"
  /\ UNCHANGED <<unlogged, left, tables, recIds>>
LogbookSetup ==
  /\ stage = "setup" /\ stage' = "snapshot"
  /\ tables' = Created
  /\ UNCHANGED <<unlogged, left, recIds>>

LogSnapshot ==
  /\ stage = "snapshot" /\ stage' = "recommendations" /\ left' = DOMAIN recs
  /\ RecordPortfolioSnapshot(
       [as_of |-> asOf, nav |-> Nav, cash |-> cash, invested |-> SumFunction(holdings)],
       SetToSeq({[instrument_id |-> i, quantity |-> Quantities[i], avg_cost |-> NoFigure,
                  last_price |-> Last(AsOf(i, asOf)).close] : i \in Held}))
  /\ UNCHANGED <<unlogged, recIds>>

LogRecommendation ==
  /\ stage = "recommendations" /\ left # {} /\ stage' = "decision"
  /\ LET i == First(left) r == recs[i]
     IN /\ Add("recommendation",
            [as_of |-> r.asOf, instrument_id |-> i, action |-> r.action,
             target |-> r.target, invalidation |-> r.invalidation, quantity |-> r.quantity,
             allocation |-> r.allocation, calibrated_probability |-> r.prob,
             expected_net_return |-> r.net, risk_verdict |-> r.verdict,
             model_version |-> r.model, expires_on |-> r.expires])
        /\ recIds' = With(recIds, i, NextId("recommendation"))
  /\ UNCHANGED <<unlogged, left>>

LogDecision ==
  /\ stage = "decision" /\ stage' = "recommendations"
  /\ LET i == First(left)
     IN /\ Add("decision_log", [as_of |-> asOf, instrument_id |-> i,
                                decision |-> recs[i].action, model_version |-> recs[i].model])
        /\ left' = left \ {i}
  /\ UNCHANGED <<unlogged, recIds>>

RecommendationsLogged ==
  /\ stage = "recommendations" /\ left = {}
  /\ stage' = "vetoes" /\ left' = DOMAIN vetoed
  /\ UNCHANGED <<unlogged, book>>

LogVeto ==
  /\ stage = "vetoes" /\ left # {}
  /\ LET i == First(left)
     IN /\ Add("risk_veto", [instrument_id |-> i, as_of |-> asOf,
                             verdict |-> vetoed[i].verdict, flags |-> vetoed[i].flags])
        /\ left' = left \ {i}
  /\ UNCHANGED <<unlogged, stage, recIds>>

LogPlan ==
  /\ stage = "vetoes" /\ left = {} /\ stage' = "fills"
  /\ RecordDailyPlan(asOf,
       SetToSeq({[instrument_id |-> m.name, action |-> m.action, from_instrument |-> m.from,
                  rupees |-> m.rupees] : m \in moves}))
  /\ UNCHANGED <<unlogged, left, recIds>>

LogFill ==
  /\ stage = "fills" /\ Len(tables["paper_fill"]) < Len(fills)
  /\ Add("paper_fill", fills[Len(tables["paper_fill"]) + 1])
  /\ UNCHANGED <<unlogged, stage, left, recIds>>

LogAlert ==
  /\ stage = "fills" /\ Len(tables["paper_fill"]) >= Len(fills)
  /\ Len(tables["alert_delivery"]) < Len(engine.delivered)
  /\ LET a == engine.delivered[Len(tables["alert_delivery"]) + 1]
     IN Add("alert_delivery",
            [alert_type |-> a.type, instrument_id |-> a.name, severity |-> a.severity])
  /\ UNCHANGED <<unlogged, stage, left, recIds>>

\* _floor_setup, and the constructor returns.
Serves ==
  /\ stage = "fills" /\ Len(tables["paper_fill"]) >= Len(fills)
  /\ Len(tables["alert_delivery"]) >= Len(engine.delivered)
  /\ stage' = "serving"
  /\ UNCHANGED <<unlogged, left, book>>

-----------------------------------------------------------------------------
(* A step of the build raises: the constructor ends and _terminal stays    *)
(* None.  A master with an instrument that has no price, or a market with  *)
(* nothing to train on, always raises.                                     *)

Discarded ==
  /\ paperDay' = 0 /\ fills' = <<>> /\ asOf' = 0
  /\ recs' = <<>> /\ vetoed' = <<>> /\ evidence' = <<>> /\ left' = {}
  /\ NothingPlanned /\ engine' = NewEngine /\ counters' = <<>> /\ recIds' = <<>>
  /\ feedback' = <<>> /\ asking' = 0 /\ runs' = <<>> /\ NewLimiter

Building == stage \notin {"down", "up", "serving"}

Raises ==
  /\ Building
  /\ \/ faults < MaxFaults /\ faults' = faults + 1
     \/ stage = "portfolio" /\ ~Priced /\ UNCHANGED faults
     \/ stage = "train" /\ Examples = {} /\ UNCHANGED faults
  /\ stage' = "up" /\ Discarded /\ UNCHANGED <<world, tables, auditFile, hour>>

Dies ==
  /\ stage # "down" /\ faults < MaxFaults /\ faults' = faults + 1
  /\ stage' = "down" /\ Discarded /\ UNCHANGED <<world, tables, auditFile, hour>>

-----------------------------------------------------------------------------
(* Requests that change a terminal that serves.                            *)

built == <<world, stage, faults, tracking, picks, rotation, left, alerting, counters, recIds>>

\* The evidence a question is put with: an instrument's, or everybody's.
EvidenceFor(i) ==
  IF i = Nobody THEN UNION {evidence[j] : j \in DOMAIN evidence}
  ELSE IF i \in DOMAIN evidence THEN evidence[i] ELSE {}

\* POST /chat: 429 over the limit; without evidence the chat answers by itself.
Chat(i) ==
  /\ stage = "serving" /\ Len(granted["chat"]) < MaxChats
  /\ \/ /\ Allow("chat")
        /\ asking' = IF EvidenceFor(i) = {} THEN asking ELSE asking + 1
     \/ Refuse("chat") /\ UNCHANGED asking
  /\ UNCHANGED <<built, feedback, runs, tables>>

\* The chat's call of the gateway ends: one run.
ChatEnds ==
  /\ stage = "serving" /\ asking > 0 /\ Len(runs) < MaxRuns
  /\ \E s \in {"succeeded", "failed"} : runs' = Append(runs, s)
  /\ asking' = asking - 1
  /\ UNCHANGED <<built, feedback, limiter, tables>>

Notes == Len(tables["user_execution_log"]) + Len(feedback)

\* POST /logbook/execution: the instrument need not be known.
RecordUserExecution(i) ==
  /\ stage = "serving" /\ Notes < MaxNotes
  /\ Add("user_execution_log",
         [instrument_id |-> i, side |-> "BUY", quantity |-> 1, price |-> NoFigure,
          executed_at |-> clock])
  /\ UNCHANGED <<built, serving>>

\* POST /feedback: a label of another name is answered 422 and not recorded.
Labels == {"useful", "not_useful", "executed", "not_executed"}
RecordFeedback(i, label) ==
  /\ stage = "serving" /\ Notes < MaxNotes /\ label \in Labels
  /\ feedback' = Append(feedback, <<i, label>>)
  /\ UNCHANGED <<built, asking, runs, limiter, tables>>

TimePasses ==
  /\ stage = "serving" /\ clock < MaxClock /\ Elapses(clock + 1)
  /\ UNCHANGED <<built, feedback, asking, runs, tables>>

BuildStep ==
  \/ Train \/ PaperTrack \/ CurrentRecs \/ Portfolio \/ Plans \/ RaiseAlert \/ Observability
  \/ LogbookSetup \/ LogSnapshot \/ LogRecommendation \/ LogDecision \/ RecommendationsLogged
  \/ LogVeto \/ LogPlan \/ LogFill \/ LogAlert \/ Serves

Request ==
  \/ \E i \in Names \cup {Nobody} : Chat(i)
  \/ ChatEnds
  \/ \E i \in Noted : RecordUserExecution(i)
  \/ \E i \in Noted, l \in Given : RecordFeedback(i, l)

Next ==
  \/ \E s \in Environments : Starts(s)
  \/ Requested \/ BuildStep \/ Raises \/ Dies \/ Request \/ TimePasses

Spec == Init /\ [][Next]_terminalVars

-----------------------------------------------------------------------------
(* What the read endpoints tell.                                           *)

Instruments == Names

\* The newest bars of the current day, at most limit of them.
BarsShown(i, limit) ==
  LET s == AsOf(i, asOf) IN SubSeq(s, IF Len(s) > limit THEN Len(s) - limit + 1 ELSE 1, Len(s))

EvidenceShown(i) == IF i \in DOMAIN evidence THEN evidence[i] ELSE {}

\* GET /portfolio: the holdings as they were before the plan.
PortfolioShown ==
  [cash |-> cash, nav |-> Nav, invested |-> SumFunction(holdings),
   holdings |-> [i \in Held |-> [quantity |-> Quantities[i],
                                last_price |-> Last(AsOf(i, asOf)).close]],
   moves |-> moves]

AlertsShown == engine.delivered

\* GET /logbook: of the day that is asked for, or the current one.
LogbookDay(d) == Day(IF d = 0 THEN asOf ELSE d)
LogbookReconstruct(id) == Reconstruct(id)

\* GET /config/report and /providers need no terminal.
ConfigReport == [mode |-> DataMode(settings), fields |-> StartupReport(settings)]
Providers == ProviderReport(settings)

Recommendations ==
  [action |-> IF DOMAIN recs = {} THEN "NO_TRADE" ELSE "BUY", recommendations |-> recs,
   vetoed |-> vetoed]

Audit(i) ==
  IF i \notin DOMAIN recs THEN [error |-> "no recommendation"]
  ELSE [recommendation |-> recs[i], evidence |-> evidence[i], llm_runs |-> runs,
        reconstructable |-> recs[i].asOf # 0 /\ evidence[i] # {}
          /\ NoFigure \notin {recs[i].target, recs[i].invalidation, recs[i].prob}]

\* evaluate_health, and the inputs of a terminal.
HealthReport(age, maxAge, qualityOk, llm) ==
  [suppressRecommendations |-> age > maxAge \/ ~qualityOk, suppressLLM |-> ~llm,
   status |-> IF age > maxAge \/ ~qualityOk \/ ~llm THEN "DEGRADED" ELSE "OK"]
Health ==
  IF settings.mode = "real" THEN [status |-> "OK"]
  ELSE HealthReport(0, 3, TRUE, TRUE) @@ [data |-> "sample", last_session |-> LastDay]

Failures == Len(SelectSeq(runs, LAMBDA s : s = "failed"))
Metrics ==
  [counters |-> counters, llm_runs |-> Len(runs), llm_failures |-> Failures]

-----------------------------------------------------------------------------
(* Properties.                                                             *)

NamesIn(rows) == {rows[k].instrument_id : k \in 1..Len(rows)}
Each(rows, S) == NamesIn(rows) = S /\ Len(rows) = Cardinality(S)

Offered == {engine.delivered[k].name :
              k \in {n \in 1..Len(engine.delivered) : engine.delivered[n].type = "new_opportunity"}}
Logging == stage \in {"snapshot", "recommendations", "decision", "vetoes", "fills", "serving"}

\* docs/PHASE_WISE_BUILD_PLAN.md: the UI cannot represent a vetoed candidate as a
\* recommendation.  Nothing the terminal shows as one, in its list, its plan, its
\* alerts or its logbook, was vetoed or sized to nothing.
OnlyApprovedIsShown ==
  /\ \A i \in DOMAIN recs :
       recs[i].quantity > 0 /\ recs[i].verdict # "VETO" /\ i \notin DOMAIN vetoed
  /\ Entered \subseteq DOMAIN recs
  /\ Offered \subseteq DOMAIN recs
  /\ Logging => NamesIn(tables["recommendation"]) \subseteq DOMAIN recs

\* While it serves, whatever was built before it, every view tells the same day:
\* the list of recommendations, the portfolio, the plan and the alerts are what the
\* logbook says of the day, each once, a recommendation lacks no field, is about the
\* newest bar and the evidence that are shown, can be reconstructed from its id in the logbook and
\* from its audit bundle, and the metrics count them.
ViewsTellTheSameDay ==
  stage = "serving" =>
    LET day == LogbookDay(0)
        held == tables["holding_snapshot"]
    IN /\ Each(day.recommendations, DOMAIN recs) /\ Each(day.decisions, DOMAIN recs)
       /\ Each(day.risk_vetoes, DOMAIN vetoed)
       /\ Len(day.plans) = 1
       /\ {<<c.action, c.instrument_id, c.from_instrument>> : c \in Range(day.plans[1].changes)}
            = {<<m.action, m.name, m.from>> : m \in moves}
       /\ Len(day.paper_fills) =
            Cardinality({k \in 1..Len(fills) : fills[k].session_date = asOf})
       /\ Each(tables["alert_delivery"], {AlertsShown[k].name : k \in 1..Len(AlertsShown)})
       /\ Each(tables["alert_delivery"], DOMAIN recs \cup DOMAIN vetoed)
       /\ Each(held, DOMAIN PortfolioShown.holdings)
       /\ \A k \in 1..Len(held) :
            held[k].quantity = PortfolioShown.holdings[held[k].instrument_id].quantity
       /\ \A i \in DOMAIN recs :
            LET told == LogbookReconstruct(recIds[i])
            IN /\ Missing(recs[i]) = {}
               /\ recs[i].entry = Last(BarsShown(i, 2)).close /\ recs[i].evidence = EvidenceShown(i)
               /\ told.reconstructable /\ Audit(i).reconstructable
               /\ told.recommendation.instrument_id = i /\ told.risk_vetoes = <<>>
               /\ told.recommendation.quantity = Audit(i).recommendation.quantity
       /\ Metrics.counters.candidates = Len(tables["alert_delivery"])
       /\ Metrics.counters.recommendations = Cardinality(DOMAIN Recommendations.recommendations)
===============================================================================
