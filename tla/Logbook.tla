------------------------------- MODULE Logbook -------------------------------
(***************************************************************************)
(* The append-only logbook: its tables (persistence/models.py), the        *)
(* repository and the session every write and read goes through            *)
(* (repositories.py, db.py), and LogbookService (logbook.py).  A session   *)
(* commits all of its rows or none, so it is one step here.                *)
(*                                                                         *)
(* Abstracted: a row is a record of the columns its writer sets; its id is *)
(* its table and its number, and rows are created in the order of their    *)
(* numbers (created_at).  Columns of wording, versions of data and money   *)
(* the model does not compute are left out of the rows, not of Columns.    *)
(***************************************************************************)
EXTENDS Integers, Sequences, SequencesExt, TLC

CONSTANTS
  ListLimit, DayLimit  \* the rows a list returns: 100, and 500 for a day

ASSUME LogbookAssumption == ListLimit \in Nat \ {0} /\ DayLimit \in Nat \ {0}

VARIABLE tables  \* table -> its rows

\* The columns a row must have, and those with a default or that may be null.
Required == [
  portfolio_snapshot |-> {"as_of", "nav", "cash", "invested"},
  holding_snapshot |-> {"snapshot_id", "instrument_id", "quantity", "avg_cost", "last_price"},
  daily_portfolio_plan |-> {"plan_date"},
  recommendation |-> {"as_of", "instrument_id", "action"},
  recommended_change |-> {"plan_id", "instrument_id", "action"},
  decision_log |-> {"as_of", "instrument_id", "decision"},
  user_execution_log |-> {"instrument_id", "side", "quantity", "price", "executed_at"},
  paper_signal |-> {"instrument_id", "as_of"},
  paper_fill |-> {"instrument_id", "side", "quantity", "price", "session_date", "kind"},
  evaluation_outcome |->
    {"recommendation_id", "instrument_id", "success", "realized_net", "outcome"},
  risk_veto |-> {"instrument_id", "as_of", "verdict"},
  alert_delivery |-> {"alert_type", "instrument_id", "severity"},
  llm_run |-> {"agent", "task", "state"}]

Optional == [
  portfolio_snapshot |-> {"data"}, holding_snapshot |-> {"sector"},
  daily_portfolio_plan |-> {"summary", "data"},
  recommendation |->
    {"entry_low", "entry_high", "target", "invalidation", "max_holding_sessions", "quantity",
     "allocation", "calibrated_probability", "expected_net_return", "risk_verdict",
     "model_version", "expires_on", "horizon_kind", "data"},
  recommended_change |-> {"from_instrument", "rupees", "reason"},
  decision_log |-> {"rationale", "data_version", "model_version", "data"},
  user_execution_log |-> {"note"}, paper_signal |-> {"horizon_kind", "data"},
  paper_fill |-> {"cost"}, evaluation_outcome |-> {"measured_at"}, risk_veto |-> {"flags"},
  alert_delivery |-> {"channel", "delivered", "message"},
  llm_run |->
    {"policy_version", "selected_route", "latency_ms", "retry_count", "data"}]

Tables == DOMAIN Required

\* init_db on a new engine.
Created == [t \in Tables |-> <<>>]

-----------------------------------------------------------------------------
(* Writing.                                                                *)

\* The model's constructor refuses an unknown column, the flush a missing one.
Accepted(t, fields) ==
  Required[t] \subseteq DOMAIN fields /\ DOMAIN fields \subseteq Required[t] \cup Optional[t]

NextId(t) == <<t, Len(tables[t]) + 1>>
With(row, column, value) ==
  [c \in DOMAIN row \cup {column} |-> IF c = column THEN value ELSE row[c]]
Rows(t, all) == [k \in 1..Len(all) |-> With(all[k], "id", <<t, Len(tables[t]) + k>>)]

\* A session that adds rows to some tables and commits.
Commits(new) ==
  /\ \A t \in DOMAIN new : \A k \in 1..Len(new[t]) : Accepted(t, new[t][k])
  /\ tables' = [t \in Tables |-> IF t \in DOMAIN new THEN tables[t] \o Rows(t, new[t]) ELSE tables[t]]

\* record_recommendation, record_decision, ...: one row.
Add(t, fields) == Commits([x \in {t} |-> <<fields>>])

Under(column, id, all) == [k \in 1..Len(all) |-> With(all[k], column, id)]

RecordDailyPlan(date, changes) ==
  Commits([daily_portfolio_plan |-> <<[plan_date |-> date]>>,
           recommended_change |-> Under("plan_id", NextId("daily_portfolio_plan"), changes)])

RecordPortfolioSnapshot(fields, positions) ==
  Commits([portfolio_snapshot |-> <<fields>>,
           holding_snapshot |-> Under("snapshot_id", NextId("portfolio_snapshot"), positions)])

-----------------------------------------------------------------------------
(* Reading.                                                                *)

\* The rows with these values, oldest first.
Matching(rows, filters) ==
  LET found[n \in 0..Len(rows)] ==
        IF n = 0 THEN <<>>
        ELSE IF \A c \in DOMAIN filters : rows[n][c] = filters[c]
        THEN Append(found[n - 1], rows[n]) ELSE found[n - 1]
  IN found[Len(rows)]

\* The newest of them, newest first.
List(t, filters, limit) ==
  LET all == Reverse(Matching(tables[t], filters))
  IN SubSeq(all, 1, IF Len(all) < limit THEN Len(all) ELSE limit)

Day(date) ==
  LET plans == List("daily_portfolio_plan", [plan_date |-> date], ListLimit)
  IN [recommendations |-> List("recommendation", [as_of |-> date], DayLimit),
      risk_vetoes |-> List("risk_veto", [as_of |-> date], DayLimit),
      decisions |-> List("decision_log", [as_of |-> date], DayLimit),
      paper_fills |-> List("paper_fill", [session_date |-> date], DayLimit),
      plans |-> [k \in 1..Len(plans) |->
        With(plans[k], "changes",
             List("recommended_change", [plan_id |-> plans[k].id], DayLimit))]]

RunsOf(id) == SelectSeq(List("llm_run", <<>>, DayLimit), LAMBDA r : r.data.rec_id = id)

\* A recommendation with the vetoes of its instrument and day, its outcomes and runs.
Reconstruct(id) ==
  LET found == Matching(tables["recommendation"], [id |-> id])
      rec == found[1]
  IN IF found = <<>> THEN [error |-> "not found"]
     ELSE [recommendation |-> rec,
           risk_vetoes |-> List("risk_veto",
             [instrument_id |-> rec.instrument_id, as_of |-> rec.as_of], ListLimit),
           evaluation_outcomes |->
             List("evaluation_outcome", [recommendation_id |-> id], ListLimit),
           llm_runs |-> RunsOf(id),
           reconstructable |-> {"target", "model_version"} \subseteq DOMAIN rec]
===============================================================================
