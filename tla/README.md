# Formal verification of the trading-research system

TLA+ modules, TLC configurations and TLAPS proofs about the Indian-equity
research and decision-support system in this repository. The system ingests
end-of-day bars and documents, computes point-in-time features, trains and
promotes models, asks language models for research through one gateway, and
turns the result into paper-traded recommendations. It never sends an order to a
broker. Paths below are relative to `src/`.

Contents: [the system](#1-the-system), [the modules](#2-the-modules),
[the runs](#3-the-runs), [the proofs](#4-the-proofs),
[disagreements found](#5-where-the-code-and-its-documents-disagree),
[limits](#6-what-is-not-modelled-and-why).

## 1. The system

### 1.1 Components, their state and their operations

| Component | Code | State | Operations | Modelled |
|---|---|---|---|---|
| LLM gateway | `services/research_workers/llm_gateway/{gateway,registry,policies,contracts,freellm}.py` | route registry, circuit breaker (failure counts, open set), result cache, list of run records, audit JSONL file; per call: route snapshot, attempt counter, record | `request`, `register` of a route, restart | yes |
| Bar repository, Parquet store, loader | `services/ingestion/{repository,parquet_store,loader}.py` | correction history per bar key, Parquet file | `upsert`, `as_of`, `save`, `load`, `load_eod` | yes |
| Job runner, dead-letter queue | `services/ingestion/jobs.py` | attempt counter, queue, queue file | `run_job` | as the driver of a load |
| Model registry | `services/quant/model_registry.py` | cards, champion history, JSONL file | `register`, `set_approval`, `set_champion`, `rollback` | yes |
| Document store | `services/ingestion/document_store.py` | two indexes in memory, raw files, index file | `store`, `_load_index` | yes |
| Quality, corporate actions, calendar, universe, adapters | `services/ingestion/*.py` | none (pure passes over data) | `run_quality`, `adjust_bars`, ... | the quality suite, corporate actions, calendar |
| Feature store, scanner | `services/quant/{feature_store,features,scanner}.py` | snapshots per (instrument, date, version), JSONL file | `put`, `load`, `build_features_asof`, `build_dataset`, `scan` | yes |
| Calibration, event study, baselines | `services/quant/{calibration,event_study,ml}.py` | fitted parameters | floating-point statistics | no |
| Research floor and agents | `services/research_workers/floor.py`, `agents/` | none; of eight agents six call the gateway, two compute from bars | `investigate`, `floor_stats` | yes |
| Chat, review queue | `services/research_workers/{chat,review_queue}.py` | review items | `answer`, `enqueue` | yes |
| Discovery, entity resolution | `services/research_workers/{discovery,entity_resolution,extraction_eval}.py` | none (matching over aliases) | `discover`, `resolve` | no |
| Risk, sizing, rotation, recommendation | `services/risk_portfolio/*.py` | none | `assess_risk`, `size_position`, `recommend_rotation`, `build_recommendation` | yes |
| Backtest, labels, splits | `services/evaluation/{backtest,labels,cv,strategy,costs,performance}.py` | none | `simulate`, `label_signal`, `purged_walk_forward`, `chronological_split`, reports | partly: not the reports and the chronological split |
| Paper trading and ledger | `services/evaluation/{paper_trading,paper_ledger}.py` | cash, realised profit, fills, trades and the fills' file; the signals and their file | `execute`, `reconstruct_cash`; `append`, `load` | yes |
| Alerts | `services/alerts/engine.py` | delivered dedupe keys, audit list and file | `emit` | yes |
| Monitoring | `services/monitoring/*.py` | rate-limit windows, counters, audit and feedback lists | `allow`, `record`, health snapshots | rate limiter, counters, feedback, health; not drift |
| Persistence, logbook | `services/persistence/*.py` | SQL tables, one transaction per repository call | `add`, `list`, `day`, `reconstruct_recommendation` | yes |
| Settings, provider choice | `services/config/settings.py`, `services/providers/factory.py` | none | mode checks | yes |
| Terminal and HTTP API | `apps/api/app/{terminal,main}.py` | per-process caches: trained model, paper track, research floors, chat set-up, logbook | request handlers | yes, but for the performance figures |
| Web page, scripts, migrations | `apps/web`, `scripts`, `migrations` | none of its own | rendering, demos, schema | no |

### 1.2 How they interact

- Agents, the chat and the scanner's narrative all reach a model through
  `LLMGateway.request`. Nothing else calls a provider. Calls are coroutines of one
  event loop; they share the gateway's registry, breaker, cache and record list.
- `load_eod` pulls rows out of an adapter and pushes each into the repository at
  once; `run_job` runs such a function again when it raises. The research code
  reads the repository through `as_of`.
- The feature builder reads `as_of`; training reads the features; a trained model
  gets a card in the model registry; a champion decides which model is used.
- The terminal builds everything once per process, in one chain: settings, training,
  paper trades of past days, the scan, risk and sizing of each candidate, the rotation
  plan, alerts, counters, and the logbook row by row. A step that raises ends the
  constructor, and the next request builds again. Its async handlers check a cache,
  await, and store.
- Files are JSON lines (appended, or rewritten for the registry), one Parquet file
  for the bars, and a SQL database for the logbook. Each file has one writer.

### 1.3 What is hard about it

- **Interleaving.** Between two awaits of one gateway call any number of other
  calls run: they open and close breakers, fill the cache, and the operator
  changes routes. A call works through a snapshot of the routes taken before.
- **Failure in the middle.** A load that raises leaves the rows it has upserted. An
  audit append that raises leaves the record in memory. A promotion of an unknown
  model demotes the champion first.
- **Crash and restart.** The registry and the Parquet file are rewritten in place;
  the gateway and the registry lose their memory, and only some stores read their
  file back.
- **Nested retries.** Retries within a route, fallback across routes, a breaker that
  counts both; job retries over partially applied feeds.
- **Check, await, store.** `floor_for` looks into the page cache, awaits six model
  calls and stores; two requests may do so at once, and a task whose sibling raised
  goes on after its request has failed.
- **Stale state.** Cache entries outlive the routes and versions they came from;
  `as_of` answers with corrections that arrived later; a trade or label made before
  its window is over is made from the bars there are.
- **A chain of stores.** One build writes a logbook in a dozen transactions; one put
  into a JSON-lines store changes memory and then a file, or two files. Each view of a
  day is assembled from another of them.
- **Order of facts.** A corporate action may be announced before or after the bars it
  concerns, a corrected bar may follow the adjustment, an alert may come again after
  the quiet hours that held it back.
- **Two clocks.** Windows are counted in sessions, the gap of a purged split in
  calendar days.

### 1.4 What makes each part correct

- *Gateway*: a caller gets data some record vouches for, an explicit failure, or the audit
  write's exception, never anything else; one audit record per returned call, and
  the record accounts for what was attempted; the breaker agrees with its counts;
  routes are used as the policy says; every call ends.
- *Model registry*: at most one champion and it is the one rollback will leave;
  rollback always has a card to go back to; the file follows memory.
- *Bar store*: a gap-free correction chain per key that is never rewritten, equal in
  memory and after a replay; failed and repeated loads leave no trace of their own.
- *Research floor and chat*: a page is one whole investigation, grounded in what is
  stored about its instrument; what is weak or missing reaches a human; every
  request ends.
- *Document store*: content stored once, metadata never without its raw file; a
  readable index after a crash.
- *Features, labels, splits*: nothing after the decision date enters a feature; no
  training label reaches into the test period.
- *Bars before use*: adjustment removes the moves of corporate actions and nothing else,
  and what is announced later changes no return of the past.
- *Risk, sizing, rotation*: what was vetoed or sized to nothing is recommended nowhere; a
  plan can be carried out as it stands and leaves nothing better aside.
- *Terminal*: its views tell the same day, whatever was built and lost before.
- *Paper trading*: ledger, cash and positions can be reconciled.
- *Alerts*: an alert is dropped only because it was delivered, also around quiet hours.
- *Rate limiter*: at most twice the limit in a window's length.
- *Logbook*: what a day recommended can be reconstructed from what was stored.

## 2. The modules

| Module | What it is |
|---|---|
| `GatewayCalls` | abstract: the steps of a `request` as its callers see them, in three variables |
| `GatewayContract` | `GatewayCalls` with the audit log: one record of each returned call |
| `LLMGateway` | the gateway; implements `GatewayContract` (`Contract == INSTANCE ... WITH`) |
| `MCGateway` | TLC instance of `LLMGateway` |
| `LLMGatewayProofs` | its theorems |
| `ModelRegistry`, `ModelRegistryProofs` | the registry of model cards |
| `BarStore`, `MCBars`, `BarStoreProofs` | bar repository, Parquet file, loads and their retries; the theorems are also about `BarChecks` |
| `ResearchFloor`, `MCFloor`, `ResearchFloorProofs` | floor pages, agents, review queue and chat, over `GatewayCalls` |
| `Simulation` | bars as the sessions bring them, and what a trade on a signal comes to |
| `PaperTrading` | the paper broker, over `Simulation` |
| `WalkForward` | the purged folds of a data set labelled by `Simulation` |
| `MCModels` | TLC instances of `WalkForward` and `ModelRegistry` |
| `EvaluationProofs` | theorems of the last three |
| `BarChecks` | corporate actions, the quality suite, the trading calendar; composed in `MCBars` |
| `Decision` | features, scanner, risk engine, sizing, the recommendation record: operators |
| `Rotation` | the planner: exits, purchases and exchanges, candidate by candidate |
| `RateLimiter` | the fixed-window limiter of the chat |
| `Logbook` | the append-only tables, their session and the logbook service |
| `AlertEngine` | dedupe, quiet hours, audit |
| `Settings` | modes, refusals, the choice of providers |
| `Terminal`, `MCDay` | the build of a day and the requests it serves, over the six modules above |
| `JsonLines` | the four stores that append JSON lines |
| `MCJournals` | TLC instance of what appends to files: `JsonLines`, `PaperTrading`, `AlertEngine` |
| `DayProofs` | theorems of `Terminal`: its plan, its limiter, what it shows, what its logbook tells |
| `DeskProofs` | theorems of `JsonLines` and `AlertEngine` |
| `FoldLemmas` | lemmas about loops over numbers and folds over finite sets, for the proof modules |

The floor is composed with the gateway by contract. `LLMGateway` is checked and
proved to implement `GatewayContract`, whose actions are those of `GatewayCalls`
with the audit log added; `ResearchFloor` makes its calls through `GatewayCalls` alone
(`G == INSTANCE GatewayCalls WITH ...`), so what it shows holds of any
gateway that keeps the contract, in any state of its routes and breakers. A call is
`asked` with a key and the ids its answer may cite; the contract calls an answer `Founded`
when it cites only ids of its own call or repeats what a call with the same key was given,
which is all the gateway's cache keeps. The floor's keys hold the instrument, so what one
call of it may be given of another is about the same evidence.

A loop of the code that accumulates is a recursive function on the numbers
(`CashAfter`, `Written`, `Matching`, `Sum`) or a fold over a set (`Factors`, and the
loops over rows in `BarChecks`), never a `RECURSIVE` operator, so that what it computes can be
proved of every input.

Definitions named `...Once`, `...Repeated`, `...Unsaved` and the like, commented
"Mutant", are plausible bugs of the definition that follows them. No
specification uses them; they record which mistake each property would catch
(`PROJECT.json`, `mutants`).

### 2.1 LLMGateway

The code runs on one event loop, so it is only interrupted at
`await provider.complete`. **An action is one stretch of code between two awaits**,
with everything it calls.

| Action | Code (`gateway.py`) |
|---|---|
| `CacheHit`, `NoRoute`, `Route` | `request` up to the first await: cache lookup 105-114, no provider or no candidate 116-122, or the first attempt 124-126 |
| `TimesOut`, `Errors` | the await raised `ProviderTimeout` / `ProviderError`: breaker, `retry_count`, then retry, next route or degraded (166-179, 124-138) |
| `Malformed` | not JSON or not the schema (181-203): breaker only if this was the last try |
| `Validates` | breaker reset, commit, cache entry, result (127-135) |
| `InventsCitation` | a cited id that the call did not supply (185-191, 204-207): never retried on the same route |
| `SetRoute` | `ModelCapabilityRegistry.register`: the operator disables or restores a route |
| `Restart` | a new process: memory rebuilt, audit file kept, calls in flight lost |

State: `registry`, `failures`, `open`, `cache`, `runs`, `audit` are the attributes of
the gateway and its file; `pc`, `run`, `candidates`, `pos`, `attempt` are the locals
of each coroutine; `result` is what the caller got. `Commit` is `_commit` *and what
follows it*: the record is in memory before the file is written, and an exception
of the write leaves neither result nor cache entry.

Abstractions. A prompt is a model value: the text the cache key is made of. The ids that
citations are checked against are an input of the call beside it (`Asks`, the record's `ids`),
because they are the ids of the payload *and* the caller's `source_ids` (95, 101), of which
the key (108) holds only the former, in the prompt's text. So two calls may share a cache
entry and differ in their ids. No caller in the repository passes `source_ids`; `KeysTellIds`
says what that comes to. A validated answer is the route that wrote it and the ids it
cites; `validation_failures` is its length. `freellm.py` turns every transport error into
a `ProviderError` or `ProviderTimeout`, so no other exception leaves the await.
Versions in the cache key are constant while a process lives and are left out. A
torn audit line is not modelled: nothing in the code reads the file back. Task
cancellation is not modelled (no caller cancels a gateway call).

### 2.2 ModelRegistry

One action per method. `Persist` is the tail of all of them: the file is opened for
writing and rewritten card by card; it may complete, raise with any prefix of the
cards on file (memory keeps the change), or the process may die in the middle. A
line that was cut counts as absent. `Restart` starts with nothing in memory,
because `__init__` does not read the file. `SetChampionUnknown` is `set_champion` of
an id without a card: the loop has already demoted the champion when `KeyError`
leaves the method. `synced` is a history variable.

### 2.3 BarStore

One thread. `StartLoad`, `LoadRow`, `LoadFails`, `FinishLoad` are `run_job(load_eod)`
row by row; the repository exports both for such jobs and `jobs.py` describes
that use, though the scripts call `load_eod` directly (`Retries = 0` is that
case: "dead" is then the exception). `Save` writes the history, `KillInSave` dies
while writing and leaves an unreadable file, `Kill` dies between two rows or
anywhere else. `StartReload`, `ReplayRow`, `Reloaded` are `ParquetBarRepository.load`
row by row in the order of `correction_version`, any order of keys within a
version; `StartEmpty` is a process that builds an in-memory repository.
`Tomorrow` lets a day pass; time is counted in days, and adapters deliver no
session that has not been held. A bar's prices and volume are one value; the
identity of a bar (`value_key`) is a record. `before` is a history variable: the
history when the load began.

### 2.4 ResearchFloor

An action is again what runs between two awaits. `asyncio.gather` puts each
coroutine in a task of its own, so the agents' tasks start (`AgentRuns`) and
resume (`AgentReturns`) one by one, and the handler resumes in a step of its own
when all are back (`StartDebate`, `StartJudge`) or the first exception is there
(`FailPage`). The judge is awaited directly, so its return, the page, the cache
entry and the answer to the client are one step (`JudgeReturns` in `FinishPage`,
or in `StartJudge` when the gateway answers without waiting).

| Action | Code |
|---|---|
| `StartPage` | `terminal.py` `floor_for` 316-327: the cached page, no bars, or the analysts' tasks |
| `AgentRuns`, `AgentReturns` | `run` of the five agents that are gathered, with `enqueue` for the analysts |
| `StartDebate`, `StartJudge`, `FinishPage`, `FailPage` | `floor.py` `investigate` 41-61, `judge.py`, `floor_for` 327-332 |
| `StartChat`, `FinishChat` | `main.py` 186-193 (rate limit), `terminal.py` 398-402 (evidence), `chat.py` `answer` |

State: `status`, `asked`, `answer` are the calls of the gateway, one for each
(page, agent) and for each question; `stage` and `outcome` are where a handler is,
`view` what its client got, `cache` is `_floor_cache`, `queue` the items of the review
queue, `broken` the calls whose agent raised in `enqueue`. A restart loses all of it and
begins again from `Init`, so it has no action.

`Enqueues` is what an analyst does with its result before it returns it: `enqueue` once for
each reason, in the code's order, the item in memory before its line is in the file. Under
`QueueMayFail` the file may raise at any of them (`review_queue.py:39-41`): the item is
remembered, the reasons behind it are not, and the agent raises though its call returned,
so that its page fails. `Flags` is what each agent flags: news a low confidence and
contradicting polarities, fundamental a low confidence only, sentiment signs of
manipulation and no confidence; debaters and judge nothing, they are built without the
queue.

Abstractions. An agent's result is the validated data of its call, reduced to the
ids it cites and to whether its confidence is low or it names a conflict; an
agent whose call failed has none. Theses, scores and the summaries given to the
judge are text. The market and historical agents compute from bars without
awaiting and add no state. The limiter of the chat may answer 429 or not. A
`request` raises only when its audit write does; the gateway the terminal builds has
no audit path, so `Raise` and what follows it are for a floor on an audited gateway.
Likewise the terminal builds its floor without a review queue (`Reviewing =
FALSE`); the queue is there when a caller of `ResearchFloor` passes one, as its
constructor offers and `review_queue.py` describes (`discovery_demo.py:64` builds one,
without a file). What the queue's file holds is not modelled: nothing reads it. The key
of an agent's call is the agent and the instrument; the judge's also has the
theses of the others, which are left out, so that the model shares more answers than the code.

### 2.5 Simulation, PaperTrading, WalkForward

`Simulation` has one action, `NextDay`: the session of a day brings each instrument
that trades a bar. `Simulated(i, d)` is `simulate` as a function of the bars there are,
each name of it an expression of the code (`Window` is `after[:horizon_sessions]`,
`Touching` the bars that resolve the trade, `ExitDay` where the loop breaks or the
window ends). It is a definition and no action because `simulate` has no state; the
broker and the labels both use it.

| Action | Code |
|---|---|
| `Execute` | `paper_trading.py` `execute` 74-106 with its two `_record`s; `Records` has its three ends: both fills on file, an append that raises, a process that dies after n lines |
| `Restart` | a new `PaperBroker` on the same path, which does not read it (55-63) |
| `SessionEnds` | a day passes |

`WalkForward` adds no action: `TestRows` and `TrainRows` are the folds
`purged_walk_forward` returns for the rows `build_dataset` collects up to any day.
`Position` is the place of a row in the stable sort by date.

Abstractions. Prices are integers and percentages are rounded down, where the code
has floats; the properties compare an amount only with the same amount, or with the
sum it was added to. Bars are appended and never corrected (corrections are
`BarStore`'s). What sizing returns is any member of `Quantities`, 0 included. A fill's
line is written whole or not at all. The broker of the terminal has no file and
executes on a finished history: it is the case in which `SessionEnds` comes first
and nothing raises. The conditions on a row's features (22 bars and more) only remove
rows at the start of the history.

### 2.6 BarChecks

The functions keep nothing, so the state is what they are called with: rows of one
instrument that come session by session, with gaps, zero prices and corrected rows of
the last session (`SessionComes`, `ComesAgain`), and corporate actions announced at any
time (`Announce`). `AdjustBars` multiplies each row before an ex-date by the action's
factor, a dividend's taken from the close before its ex-date (at least 0, `max(0, ...)`); `RunQuality` is the union
of the suite's five checks. Prices and factors are fractions, so that nothing but the
volume is rounded (`Rounded` is Python's `round`); the code multiplies a float into a
`Decimal`. A row has one price, as the code scales the four alike.

### 2.7 Decision, Rotation, Settings, RateLimiter

`Decision` has no variables: `Features`, `Scan`, `AssessRisk`, `SizePosition`,
`Recommendation` and `Missing` are the functions of `services/quant` and
`services/risk_portfolio`, with percentages for floats and variances for volatilities.

`Rotation` is `recommend_rotation` with its loop as steps: `Exits` leaves what has
decayed, `Consider(n)` takes the strongest candidate left and ends in `Skip`, `Buy`,
`Exchange` or `Decline`, `Planned` ends the call. Of equal edges any comes first,
where the code takes the order of its list, so that the properties hold of every order.
Moves are a set.

`RateLimiter` has `Allow` and `Refuse`; `granted`, the calls allowed with the window each
fell in, is a history variable. `Settings` is the refusal of a configuration at import
and the report of providers.

### 2.8 Terminal and Logbook

| Action | Code |
|---|---|
| `Starts`, `Requested` | `main.py` at import, `get_terminal`; in real mode a request of data is answered 503 and builds nothing |
| `Train`, `PaperTrack`, `CurrentRecs` | `terminal.py` `_train`, `_paper_track` (a day at a time), `_current_recs` with scan, risk, sizing and record |
| `Portfolio`, `Plans` | `_portfolio`: the call of the planner, and the planner's own steps |
| `RaiseAlert`, `Observability` | `_alerts`, an alert at a time; the counters |
| `LogbookSetup` ... `LogAlert`, `Serves` | `_logbook_setup`, one action for each session it opens; `_floor_setup` |
| `Raises`, `Dies` | a step raises: the constructor ends, nothing is kept; the process dies |
| `Chat`, `ChatEnds`, `RecordUserExecution`, `RecordFeedback`, `TimePasses` | the POST handlers |

`Next` also raises where the code must: with nothing to train on, and where an
instrument of the master has no price on the day. The reads (`Recommendations`, `PortfolioShown`,
`LogbookDay`, `Audit`, `Health`, ...) are operators: what a GET would answer in the state.
`Logbook` keeps tables of rows with the columns a row must and may have; a session
commits all of its rows or none, so it is a step. The tables are in memory, as the
terminal opens them, so a new build starts on a new engine.

Abstractions. The market, the model's probabilities and the days paper trades last are
chosen. An example of the training needs `MinBars` bars (22 in the code), a figure for every
feature and a label. `max_positions` is a constant (5 by default in the code, 2 in the run, so that an
exchange occurs). Loops over lists go in the order of the master. Rows created at the same
instant keep the order of their creation. The prices of paper fills are `PaperTrading`'s,
the research floor is `ResearchFloor`'s.

### 2.9 JsonLines and AlertEngine

`JsonLines` is four stores in one module, because they are one pattern: `put` changes
memory and then appends a line, and a load reads all lines. `kind` says which store it
is, and where they differ it is tested: the document store writes a raw file first and
enters nothing before that; the documents and the features are dicts by key, signals
and experiments lists; a loaded feature store has no path. `WriteRaises` and `Dies` happen in
the middle of either write and leave nothing, a part (`Garbage`, or a raw file that is
`"part"`), or a line without its end, into which the next append then goes. A load raises as long as
a line does not parse (`Parses`). The documents and the experiments are cut into lines by
`splitlines` (`document_store.py:54`, `evaluation/registry.py:80`), which also cuts at U+2028
and U+0085 inside a value; `Splitting` is the values with such a character, and a line of
theirs does not parse though nothing failed. `memory` keeps with each item whether the file has it: a history
of the puts, from which the property says what a load must tell.

`AlertEngine` is `emit`: `Emitted` is the engine after it, the append to the audit file comes
last and may raise. Time is an hour of the day. The engine is also part of the terminal's
build, where the default has no quiet hours; `MCJournals` runs it over night.

## 3. The runs

`tlc -config X.cfg M` on each; all finish within about two and a half minutes on two workers.

| Run | Module / cfg | Result | Shows |
|---|---|---|---|
| `gateway` | `MCGateway` | pass, 348 thousand states | type, breaker, answers vouched for, one record per call, accounting, policy order, draining of unusable routes, the contract, and that every call ends |
| `gateway_cache_route` | `MCGateway`, `MCGatewayCacheRoute.cfg` | violated | section 5, item 1 |
| `gateway_cache_sources` | `MCGateway`, `MCGatewayCacheSources.cfg` | violated | section 5, item 5 |
| `models` | `MCModels` | pass, 202 thousand states | training is purged, rows are tested once; one champion, rollback, file against memory |
| `registry_cards` | `MCModels`, `MCRegistryCards.cfg` | violated | section 5, item 2 |
| `bars` | `MCBars` | pass, 97 thousand states | correction chain, faithful replay, retries, growth only; adjustment and quality |
| `bars_as_of` | `MCBars`, `MCBarsAsOf.cfg` | violated | section 5, item 3 |
| `floor` | `MCFloor` | pass, 47 thousand states | whole, grounded pages, debated after their review; settled pages stay; answers about what was asked; every request ends |
| `floor_review` | `MCFloor`, `MCFloorReview.cfg` | violated | section 5, item 6 |
| `folds_holiday` | `MCModels`, `MCFoldsHoliday.cfg` | violated | section 5, item 4 |
| `day` | `MCDay` | pass, 407 thousand states | sound and best plans, approved candidates only, one day in every view, the limiter |
| `journals` | `MCJournals` | pass, 537 thousand states | raw files of indexed documents, faithful reloads; the account reconciles, nothing is sold short, later bars contradict no trade; dedupe |

### 3.1 Bounds, and why they are enough

*gateway*. Two calls, each made at most once: two are enough for one call to fail a
route while the other waits on it, to close a breaker with a late success, to
read what the other cached, and to outlive a restart. Two routes, three
positions: the policy lists `fast` twice, so `seen` matters; with threshold 2 one
call with one retry opens a breaker alone and two calls open it together. One
task is cacheable and PUBLIC with one retry, the other is USER data without
retries, and `fast` is cleared for PUBLIC only, so the data-class filter excludes
a route. Each call asks one of four things: the cacheable task with `p1`, with and without a
source id of its own, with `p2`, and the other task with `p1` and the id. So two calls have
the same key and different ids, the same prompt and different tasks, and for a call
without ids any citation is invented. The two callers are alike; of two ways to deal
them two asks only one is an initial state (`CallersInOrder`), as TLC's symmetry is not sound for
liveness. `gateway_cache_sources` has all of them. The audit write may fail at every commit. A call made at most once is the bound on all counters
(a route's failures stay within the attempts of two calls until a restart); it
is also why `CHECK_DEADLOCK FALSE` is set: when both calls are over and the
operator has nothing to change, the system is at rest.

*models*, the registry. Three models: a champion, the one before, and one more, or one that has
no card. `MaxHistory = 4` lets A, B, A, C be crowned in turn, so a rollback returns
to a model that is also deeper in the history. Models are interchangeable
(symmetry; the run has invariants only).

*bars*. Two sessions of one instrument; values x and y; three feeds: one bar, a
correction together with a new bar, and a feed that corrects its own row.
`Retries = 1`, `MaxVersions = 3` (no load starts on a key with three versions;
enough for x, y, x, where an equality test against anything but the newest
version would go wrong), two days. For the checks: closes 0, 1, 3 and 4, so that a price
of zero, moves of more and less than 50 % and a dividend as large as the price occur; three
rows over the days 1 to 4, so that a session may be missing or come twice; a split 1:2 and a dividend of 1
with ex-date 3 and a bonus 1:2 with ex-date 2, so that two actions fall on one day and one after
the other. `BarStore` and `BarChecks` share nothing: the steps of one are taken only while
the other is as it began. The calendar ends at `MaxDay`, and once it has ended
and every key is full no load starts, hence `CHECK_DEADLOCK FALSE`; in the
model saving and killing stay possible.

*floor*. Two requests for the page of one instrument, so that both may miss the
cache and the later one overwrite the earlier; a third for an instrument that has a
document but no bars. Two analysts (one that flags low confidence, one that does not), one
debater and the judge: every stage is there, and the first has a gather of two. The first
instrument has bars and no document, so its evidence is the notice `floor_for` makes up. Two
answers: one that cites the notice, weak and contradictory, so that news has two reasons to
enqueue and the file may raise at either, and one that cites the document. Or three questions
are asked: about the instrument without a document (it must get no answer), about the
other, and about none; pages and questions share nothing but the contract, so no state needs
both (`PagesOrQuestions`, which disables no step that is assumed fair). `floor_review` has news and
fundamental, a story told both ways with confidence, and a queue that does not fail. There is no
symmetry, as the run checks liveness. It stops when every request has ended, hence
`CHECK_DEADLOCK FALSE`.

*journals*, the broker. Six days with the third closed, a window of two sessions, signals of the
first day: the window is over on the fourth, and signals are executed on every day
before, in and after it. One instrument's bars touch nothing, only the target, or both
barriers (the stop wins), so a trade ends in each of the three ways and may be
unresolved; the other's never touch one. `MaxFills = 4` is two whole trades in memory and on
file, or one trade and what a failed append leaves; two trades are what a wrong sum
needs. Percentages are 1, prices 10000, so charges are not rounded away.

*models*, the folds. Eight days, two instruments (a fold may begin in the middle of a day), a
window of 2 sessions and an embargo of 1: the gap is 3 days and the weekend of one
day is as much as it allows (`CalendarsDiffer` has TLC evaluate this, which is the premise of
`PurgeWorks`, on both calendars). The folds are computed for every prefix of every
history: up to 12 rows, so fold sizes 1 to 4 with every remainder occur.
The calendar ends in both, hence `CHECK_DEADLOCK FALSE`.

*day*. Four instruments over five days: one rises on volume, one faster, one costs more
than a share may (sized to nothing), one swings (asks for a review) or does nothing; A
and B are held, with default edges on both sides of the exit edge. Seven markets: among them one in which D has no
bar (the portfolio has no price for it), one with no bars at all, and one in which
nobody passes the scan. Four forecasts put the edges above and below the margins. Every
window of the features is one or two sessions, so that five days are enough for
two training days (`MinBars = 3`), two days of paper trading and the current day. `MaxPositions = 2` makes
exchanges and full slots occur; one fault, anywhere in the build or after it, and the
rebuild after it. `Limit = 2`, `Window = 2`, five calls over four ticks: the first of a
window and the last of the next. One note or label, of known and refused kinds; one run of the
chat. The requests end at their bounds, hence `CHECK_DEADLOCK FALSE`.

*journals*, the stores. Each kind of store with two keys and two values, one of them with a line separator in it, four puts, three lines and
two faults: a cut write, a load after it, a second put of the same document, and a
second fault in the repair. The alert engine with a critical and an ordinary alert, an
hour before, in and after the night (which goes over midnight), and three audits: held
back, delivered, deduped. Stores, broker and alert engine are each interleaved only with the
initial state of the others, as they share nothing; the same holds of folds and registry
in `models`.

### 3.2 Fairness

`gateway` and `floor` check liveness. `gateway` does so under
`WF_vars(Reply(r))` for every call: the provider's answer, or its absence, is eventually delivered and the code up to
the next await runs. `freellm.py:49-62` passes the policy's `timeout_s` to the HTTP
client and turns every error into an exception, so an await always returns, and
the event loop runs what is ready. Nothing is assumed of callers, the operator
or restarts.

`floor` assumes weak fairness of every agent's task, of every handler that has
begun and of every question that waits: the event loop runs what is ready, and a
waiting call ends because the gateway's do (`EveryCallEnds`). No client need ask.

### 3.3 Properties

*Gateway.* `BreakerAgrees`: open exactly on the routes whose consecutive failures
reached the threshold, whatever order concurrent calls report in.
`AnswersGrounded`: whatever a caller gets, from a model or from the cache and also after
a restart, the audit file vouches for: a VALIDATED line of a call with the same task and
prompt, by the route that wrote the answer, with the ids it cites among that call's; what
does not come from the cache cites the caller's own ids; and the cache holds nothing else.
That a cached answer cites the caller's *own* ids is `CitesOwnSources`, which the code does not
keep (section 5, item 5) but does for callers like those in the repository, none of
whom passes `source_ids` (`KeysTellIds`; theorem `OwnSourcesCited`). `OneRunPerCall`: one line for every returned call, none for others, across
restarts and failing writes. `AuditAccounts`: failures, attempts, selected route
and state of a record add up. `AttemptsFollowPolicy`: policy order, at most
`1 + max_retries` attempts of a route, no return to a route left.
`UnusableRouteDrains`: a route that has become unusable is attempted only by calls
routed to it before; with none left an open breaker stays open until a restart
(there is no half-open probe). `KeepsContract`: refinement of `GatewayContract`.
`EveryCallEnds`.

*Registry.* `ChampionIsCurrent`, `RollbackHasTarget`, `FileLagsByDemotionOnly` (after a
completed write the file differs from memory in one way only: a failed promotion
demoted the champion in memory).

*Bars.* `CorrectionsChain`, `ReplayIsFaithful`, `HistoryGrows`, `LoadedFeedIsLatest`,
`RetriesAddOnce`. The last is what "re-running the same feed produces no changes"
(`loader.py:3`) comes to when attempts fail half way; it needs one row per key in
the feed, and a feed with two different rows of one key really is different (each
run appends both corrections again).

*Floor.* `PagesAreWhole`: what is cached or shown is one investigation of that
instrument with every call back, never a mixture of two concurrent ones or a part
of one that failed. `ShownIsGrounded`: pages and answers cite only what is stored for
what was asked. `DebateIsReviewed`: before a debate starts, and before an analyst's result
is handed on, a human can see that it is missing, a low confidence of news and fundamental, news
told both ways, signs of manipulation; also when the queue's file raises between two reasons and
for pages that fail; and nothing is queued that is not so. What an analyst does not look at it
cannot flag: `NothingUnquestioned`, which is what `review_queue.py` promises of every
extraction, is refuted (section 5, item 6). `SettledPageStays`: a cached
page that no running investigation is about to replace is final. `EveryRequestEnds`.

*Evaluation.* `AccountReconciles`: while no append has raised, the broker's fills are the
end of the file and explain its cash and profit. `NothingSoldShort`: in memory and on
file a sale follows the purchase of the same shares, wherever an append raised or a
process died. `TradesStayTrue`: a trade made before its window was over keeps its entry
and exits no earlier when it is made again, and is final once it touched a barrier
or used the window up. `TrainingIsPurged`: no label of a training row read a bar of the
fold's test period. `RowsAreTestedOnce`: the folds partition what follows the first,
also when the division leaves a remainder.

*Bars before use.* `AdjustmentIsExact`: the outliers of adjusted bars are exactly the moves
the actions of that day do not explain, the value traded stays, up to half a share, and what is left
without the quarantined days has no error. `PastReturnsStay`: a bar or an action that
comes later changes no return between two bars that are there, nor takes it away. The
exception is named in it (`Wiped`): an action after them that takes their prices to zero, a dividend
as large as its reference close; the return is then 0/0.

*Day.* `PlanIsSound`: a holding is left by one move, nothing is entered twice or both
left and entered, and the positions end within the cap, or are no more than before (the
cap may be exceeded by what is held at the start). `PlanIsBest`: what is not entered though it could be
beats no remaining holding, finds no slot, and is no better than what is entered, which
fails if the greedy loop takes candidates out of order. `OnlyApprovedIsShown`: in the list,
the plan, the alerts and the logbook, also on the second build. `ViewsTellTheSameDay`:
while the terminal serves, fifteen views of a day agree, each row once: after a build that
failed half way through its logbook, this is not a matter of course. `TwiceTheLimit`.

*Journals.* `IndexedHasRaw`: a document that is known or in the index has its raw file, whole
unless that very write was cut. `ReloadIsFaithful`: a load tells what the running store tells,
but for the items whose append raised before its first byte, and for what is put into a
loaded feature store; these are the two ways an item is lost, and there is no third.
`DedupeFollowsDelivery`: deduped exactly when delivered before, held back only in quiet
hours and never when critical, delivered exactly when audited as such.

## 4. The proofs

Checked by `tlapm` for every value of the constants that satisfies the named
assumptions `GatewayAssumption`, `RegistryAssumption`, `BarAssumption`,
`ChecksAssumption`, `ActionsAssumption`, `FloorAssumption`, `MarketAssumption`, `PaperAssumption`,
`FoldAssumption`, `RotationAssumption`, `LimiterAssumption`, `LogbookAssumption`,
`AlertAssumption`, `TerminalAssumption`, `DayAssumption`, `StoresAssumption`. They are types of
the constants and what the code relies on: finitely many instruments; threshold, horizon, limit,
window and the lengths of lists at least 1; adapters yield sequences of rows, no caller passes CHAMPION
to `set_approval`. `ActionsAssumption` excludes a split into no shares and a bonus on none, on which
`price_factor` divides by zero. `DayAssumption` says that a market's bars come in the order of their days, that
a missing figure is no number, that a terminal is built on at least one paper day, and that its alert
engine has no quiet hours (`terminal.py` builds it with the default). Three theorems have a premise. Two of them
the instance's module has TLC evaluate: `PurgeWorks` the calendar's `GapCoversWindow`, `DayIsTold` the
`DayFits` that the lists of a day (500 rows, `logbook.py`) are as long as the instrument master and as
twice the paper days, of which the terminal has 92. The third is `KeysTellIds` of `OwnSourcesCited`: equal task
and prompt mean equal ids, as when no caller passes `source_ids`. The run `gateway` does not assume it, and
`gateway_cache_sources` shows what happens without it.

| Module | Theorem | Property |
|---|---|---|
| `LLMGatewayProofs` | `TypeCorrect` | `TypeOK` |
| | `BreakerCorrect` | `BreakerAgrees` |
| | `AnswersAreGrounded` | `AnswersGrounded` |
| | `OwnSourcesCited` | `CitesOwnSources`, for callers with `KeysTellIds` |
| | `OneRecordPerCall` | `OneRunPerCall` |
| | `RecordsAccount` | `AuditAccounts` |
| | `AttemptsFollow` | `AttemptsFollowPolicy` |
| | `UnusableRoutesDrain` | `UnusableRouteDrains` |
| | `GatewayKeepsContract` | `KeepsContract` |
| `ModelRegistryProofs` | `TypeCorrect`, `OneChampion`, `RollbackGoesBack`, `FileLags` | the four registry invariants of `models` |
| `ResearchFloorProofs` | `FloorTyped`, `PagesWhole`, `AnswersAreGrounded`, `ReviewsPrecedeDebate`, `SettledPagesStay` | the five properties of `floor` |
| `BarStoreProofs` | `StoreTyped`, `CorrectionsNumbered`, `ReplayFaithful`, `HistoryKept`, `LastRowWins`, `RetriesHarmless` | the type invariant and the five store properties of `bars` |
| | `AdjustmentsAreExact`, `ReturnsStay` | `AdjustmentIsExact`, `PastReturnsStay` |
| `EvaluationProofs` | `PaperTyped`, `NeverShort`, `TradesAreTrue` | the type invariant, `NothingSoldShort`, `TradesStayTrue` |
| | `AccountsReconcile` | `AccountReconciles` |
| | `TestedOnce` | `RowsAreTestedOnce` |
| | `PurgeWorks` | `TrainingIsPurged`, for calendars with `GapCoversWindow` |
| | `MarketTyped` | a bar is there exactly for the sessions held |
| `DayProofs` | `PlansAreSound`, `PlansAreBest` | `PlanIsSound`, `PlanIsBest` |
| | `ApprovedOnly` | `OnlyApprovedIsShown` |
| | `DayIsTold` | `ViewsTellTheSameDay`, for lists of a day with `DayFits` |
| | `TwiceTheLimitAtMost` | `TwiceTheLimit` |
| `DeskProofs` | `IndexedDocumentsHaveRaw` | `IndexedHasRaw` |
| | `ReloadsAreFaithful` | `ReloadIsFaithful` |
| | `DedupingFollowsDelivery` | `DedupeFollowsDelivery` |

With these, each invariant and action property of a passing run is a theorem.

**Gateway.** `GatewayInv` is the conjunction of the five invariants and `InProgress`:
a call that has not ended has selected no route, and one that has not begun has
an empty record. The conjuncts need
each other: that a record accounts for its attempts at the end needs the count
during the call; that a cached answer is vouched for needs the audit line of the call it was
written for, which nothing removes; that a call is recorded once needs that a waiting call is not in
the log. Every step of a call is first shown to be of one of two shapes, *goes
on to another await* or *ends with a record and an outcome* (`RouteGoes`,
`RetryGoes`, `NextRouteMoves`, `DegradeEnds`, `CacheHitEnds`, `ValidatesEnds`), and
the invariant and the refinement are then proved once per shape. What the refinement adds is `SourcedInv`: whatever is
in the cache was given to a call with that key (`AnswersGiven`), which cited its own ids, and
calls ask what callers ask; from it a cached answer is `Founded` in the contract's sense, and, when equal keys mean
equal ids, cites the ids of the call that gets it (`OwnSourcesCited`). The refinement maps `Route` to `Ask`, ends to `Answer`,
`Refuse` or `Raise`, `Restart` to `Lose`, and the steps between awaits and the
operator's to stutters. `AttemptsFollow` needs an invariant of its own, `RoutingInv`: a call
considers first mentions of routes only, has tried nothing behind the position it is at, and has
tried that one as often as its loop counter says. For it the steps are sorted anew, into those that try a
position (`Tries`) and those that end the call (`Closes`). `UnusableRoutesDrain` is about one step: who is
routed to a route now was either routed to it before or has just found it usable.

**Registry.** `RegistryInv` adds `Sound(cards, order, history)`, stated over values and
not variables, because `Persist` either installs the new triple or loses
everything: each operation shows that its triple is sound, and one lemma
(`PersistKeepsInv`) does the rest.

**Bar store.** `StoreInv` adds that a process that is down holds nothing, that a
replay has copied exactly the first `upto[k]` versions of each key, and that a
running load is in an attempt and has no session to come in its feed. `UpsertGrows` says what one upsert
does; a row of a load and a row of a replay are both shown to be such an upsert
(`LoadRowUpserts`, `ReplayUpserts`: the replayed row differs from the one before
it because the file is a chain, so `upsert` never takes it for a duplicate).
`LastRowWins` uses `LoadedSoFar`: the rows of this attempt are in force unless a
later one corrects them. `RetriesAddOnce` is inductive under `StoreInv`.

**Bars before use.** The state is simple (`ChecksInv`: rows in the order of their days, finitely many known
actions); the work is in the products. The cumulative factor of a row is a fold over the actions
after it. `SameFactors` shows that the fold does not depend on the order in which it takes them, and
`FactorsOfTwoSets` that it is the product of the folds over two parts. So two rows differ by
exactly the factors between them (`CumulativeSplits`), whose quotient the return does not see when a later
action multiplies both (`ReturnStays`), as long as it is not zero (`PositiveTimes`, `PositiveFactors`: a product of
factors is zero only where one of them is, which is `Wiped`), and a later bar does not change a dividend's reference close
(`CloseRefStays`). `AdjustmentsAreExact` has three parts: an outlier of the adjusted rows is an outlier of the
quotient the actions of its day leave unexplained, the value traded moves by the rounding alone
(`RoundedIsNear`), and a row without a key in quarantine has no error.

**Floor.** Everything rests on two facts about calls: a call that is done never
changes (`G!Answer` and `G!Refuse` need a call that is not), and its data cites only
what was supplied. The first makes a whole page stay whole, so that
`PagesAreWhole` is inductive once it is known that a page past a stage has all
calls of that stage back; the same fact makes the review inductive, as
all reasons are queued in the step in which the call is done, or the agent is `broken`, and its
page never gets past the stage.
`SettledPageStays` follows in one step from the invariant: an investigation can only
begin on an empty cache.

**Evaluation.** The facts about one trade are proved once, of the market alone. A set
of days has a first and a last one (`LeastIsIn`, `GreatestIsIn`, from the
well-foundedness of the naturals), so entry and exit are sessions of the window
(`WindowHolds`). A new session adds at most the new day to what follows a signal
(`SessionAdded`) and to its window, and nothing once some session has used the window
up (`WindowGrows`; `NothingBeyond` is the cardinality argument). Hence `TradesSettle`: the first touch
stays the first, because the new day is later than all others. The invariant of
`TradesAreTrue` adds to `TradesStayTrue` that the exit of a trade is a session held;
without it the count of sessions up to the exit could still change. `NeverShort`
needs of a trade only that it does not exit before it enters, and of the sequences
that both relations survive concatenation. `PurgeWorks` shows what the code needs of
a calendar: where more than a horizon of sessions fits between a signal and any
session beyond the gap, every label's exit is inside the gap. The calendar of
`folds_holiday` is one where it does not. `TestedOnce` shows that the places of the rows are one to
their number (`RowsHavePlaces`: a finite set and its ranks), and that for each number of folds the blocks,
the last with the remainder, cut the places behind the first block into parts. `AccountsReconcile` is by
`AccountInv`: cash is the loop of the settlements, replaying the fills gives the same, and the fills of the
broker are the end of the file. A trade appends two fills, one settlement and moves cash by their sum; the loop over a longer
list agrees with the loop over the shorter one as far as that goes (`LoopsAgree`).

**Day.** All five theorems are of the terminal as a whole: `Steps` sorts its actions by
what they do to the plan, the recommendations and the limiter. For the plan, `PlanInv` adds to the
property that each move is about what it should be (`About`), that positions and free
slots add up to `MaxPositions` (`Counting`), and that the loop goes down in the order of
the edges, so that what it has passed by has no way in any more (`Best`): slots only fill,
the weakest holding only gets stronger, and what is entered later is no stronger. Each of
`Skip`, `Buy`, `Exchange` and `Decline` is shown to keep them; a finite set of holdings has a
weakest (`LeastEdge`, by well-foundedness of the naturals), which is what `Decline` needs.
For the limiter the invariant says that a call falls in its window, that the call
`Limit` places on falls in a later one, and that all but the last `count` calls are a window
old; two such steps make the bound. For what is shown, `ShownInv` says that before there are
recommendations nothing is planned or alerted, and that a new logbook starts without rows: with
the shared engine of the mutant that is the step that fails.

`DayIsTold` is the longest argument, since the property relates everything the terminal keeps. `BuildInv`
says what a build has come to at each stage: the fills are two a paper day at most, a
recommendation is whole and about the current day and its evidence (`Complete`), an alert was delivered
for each candidate the loop has passed and no other, the counters count. `BookInv` says what the logbook tells at each
stage: the names its loops have passed, each once (`RecsLogged`, `DecisionsLogged`, `VetoesLogged`), the id that
finds a recommendation's row again, the one plan of the day with its changes, the holdings, and the fills and
alerts so far in their order. There is one lemma for each session that writes (`SnapshotTells`, `RecommendationTells`,
`DecisionTells`, `VetoTells`, `PlanTells`, `FillTells`, `AlertTells`), one for the new engine
(`SetupTells`), and one for all that leaves the day's tables alone (`BookUnwritten`). What the views then read follows
from the reading itself: a list returns the rows that match, each once, the newest first, when there are no more
of them than its limit (`ListRows`), which is where `DayFits` is needed. A plan's changes are as few as its moves
(`FewChanges`), as positions and names bound those.

**Desk.** For the raw files the strengthening is that a document whose raw file is about
to be written has none, so that a cut harms no document that is known, and that whatever
is about to enter the index has one. For the alerts it is that the keys are those of the deliveries
in the audit; `EmittedKeeps` is about an engine as a value, so it also covers the terminal's.
A reload rests on `FileInv`: as long as the file loads it is exactly what was written of memory (`Kept`), an
item that is being put is the last of memory and not yet written, and a file that does not load never does
again, since stores only append.

**Loops and folds.** The library's induction theorems take an operator as a parameter, which the provers cannot
instantiate. `FoldLemmas` therefore states induction over sets: a set of numbers that holds 0 and with each number
the next holds all (`Numbers`), and likewise for the subsets of a finite set (`Subsets`), both from the
well-foundedness of the naturals. The step of a loop is given as a function from pairs of the
value so far and the next element; `LoopExists` and `FoldExists` show that the recursive function of the model exists and
takes these steps, `LoopsAgree` and `FoldsAgree` that it is the only one. Each recursive function of
the model then has one lemma that says what its step is (`MatchingLoop`, `SumTyped`, `ProductsExist`, ...), and everything else is
by induction on these steps.

**Only model-checked.** `EveryCallEnds` and `EveryRequestEnds` are liveness under fairness, which is outside
the prover. The violated properties are refuted by their runs. What the unproved parts of a definition compute
(the ranking of `Scan`, the figures of `Features`) no theorem needs: the theorems about the day hold of any candidates
that pass the gates.

## 5. Where the code and its documents disagree

1. **The gateway's cache survives a route change** (`gateway_cache_route`).
   `docs/LLM_GATEWAY.md:115`: "A policy or route change invalidates the entry." The
   key has no route and a hit returns before the registry is consulted
   (`gateway.py:106-114`).
2. **Model cards do not survive a restart** (`registry_cards`).
   `docs/runbooks/model-rollback.md:14`: "never delete a failed model's history".
   The registry never reads its file, and its first write after a restart
   replaces it (`model_registry.py:51-54`, `102-106`).
3. **A past decision time cannot be reproduced** (`bars_as_of`). `models.py:3-5`:
   "historical queries can reproduce exactly what was known at a past decision
   time". `as_of` filters by session date and returns the newest correction
   (`repository.py:73-81`).
4. **The purge counts calendar days, the labels sessions** (`folds_holiday`).
   `cv.py:3-5`: samples whose label window "overlaps the test period are purged, so a
   model is never trained on information that leaks into the test window". The gap is
   `timedelta(days=horizon + embargo)` (`cv.py:20`), the window `horizon_sessions` sessions
   (`labels.py:26`, `backtest.py:67`), and `quant_demo.py:72` gives both 5 with an embargo of
   2: five sessions fit into seven calendar days only in a week without a holiday.
5. **A cached answer may cite ids its caller did not supply** (`gateway_cache_sources`).
   `docs/LLM_GATEWAY.md:97`: "every claim references a real evidence/source id present in the
   input set. Uncited or invented citations → reject." Citations are checked against the
   payload's ids and `source_ids` (`gateway.py:95`), the key leaves out `source_ids`
   (`gateway.py:108`), and a hit is not checked again. No caller in the repository
   passes them, and for such callers `OwnSourcesCited` proves the sentence.
6. **Conflicting facts reach the debate unquestioned** (`floor_review`). `review_queue.py:3-4`:
   "Low-confidence extractions, conflicting claims, and degraded (LLM-unavailable) results are
   queued for a human instead of flowing downstream unquestioned." The fundamental agent reads
   the same claims as the news agent and never compares their polarities
   (`agents/fundamental.py:50-55`, `agents/news.py:50-52`).

Noticed while reading and not the subject of a run:

- Unavailable debaters and judges are not reviewed, where `review_queue.py:3` says that degraded
  results "are queued for a human instead of flowing downstream unquestioned": only the
  three analysts get the queue (`floor.py:32-39`), and sentiment has no least confidence
  (`agents/sentiment.py:42-47`); a page without bull, bear or judge is shown
  and cached (`agents/bull.py:33-35`, `agents/judge.py:36-38`). The terminal gives its floor
  no queue at all (`terminal.py:311`).
- `model_registry.py:3-4` says of a model that it is SHADOW until it beats the baseline and "only then can
  it be APPROVED and promoted to CHAMPION". `set_champion` looks at no approval (`:74`), and `rollback` crowns
  the next of the history also when it was rejected since (`:84-89`); the tests promote SHADOW models
  (`tests/unit/test_model_registry.py:16`), so the sentence speaks of the callers.
- `FeatureStore.load` returns a store without a path, so that what is put after a reload is
  never written, where `feature_store.py:6` speaks of a "faithful, auditable round-trip".
  `ReloadIsFaithful` names this case.
- A document whose index line was not written stays in memory, so that storing it again is a
  duplicate, and it is gone after a restart; a raw file that was cut is found to exist
  and indexed without being written again (`document_store.py:55-66`). A line that lost its
  end takes the next one with it, and from then on every load raises.
- A document's title or an experiment's name with U+2028 or U+0085 in it is written as one line and read
  as two (`document_store.py:54`, `evaluation/registry.py:80`), and no later load succeeds.
  `ReloadIsFaithful` speaks only of the loads that do.
- An alert engine that starts on its audit file does not read it and delivers again; the key
  of an alert is consumed before the append of its audit that may raise.
- Several purchases of one plan are each sized from the same cash, and what exits bring in
  is not counted (`portfolio.py`).
- The docstring "Everything logged for a trading day" (`logbook.py:106`) is not quite what
  `day` returns: alerts, snapshots, executions and runs are not in it.
- The terminal fixes most of what the risk engine asks, so that the flag it can still raise is
  VOLATILITY: a candidate in the list of vetoed is one sized to nothing. A candidate under
  REVIEW goes to the planner with `risk_pass=True`, and a recommendation may have a
  negative expected return.
- Real mode starts with the name of a provider nobody registered; only the report says that it
  is not available.
- All clients of the chat share one key of the limiter.
- A dividend as large as the price takes the adjusted history to zero; quality then
  quarantines all of it (`AdjustmentIsExact` covers the case). The returns of that past, known before
  the dividend was announced, are 0/0 after it (`corporate_actions.py:64`): `PastReturnsStay` names this as its
  one exception.
- A chat answer that cites nothing is shown as grounded (`chat.py:43-44`): only unknown
  ids are rejected (`gateway.py:204-206`), while `docs/LLM_GATEWAY.md:97` says "Uncited or
  invented citations -> reject."
- `paper_trading.py:4-6` says the ledger alone reconstructs the account. That holds of
  the fills in memory while nothing raises (`AccountReconciles`). After an append that
  raised, a purchase may stand without its sale and without a settlement; and a new broker
  on an old file starts with its starting cash.
- A label of 1 says `net_return >= 0` by `costs.py:18-25`, which charges both legs on the
  entry; the broker charges each leg on its own price (`paper_trading.py:83-84`). Near 0 the
  two can differ in sign.

And no document says otherwise plainly enough of these: `retry_count` also counts the last failure, after which nothing is retried
(`gateway.py:169`); a page with unavailable agents is cached like any other and stays
for the life of the process (`terminal.py:331`); an open breaker is not consulted
between retries on the same route; a 4xx of the provider is treated as
`provider_5xx`; no deployed gateway passes an audit path (`terminal.py:243`, `:310`), so
the audit guarantees apply where one is passed.

## 6. What is not modelled, and why

- Statistics (calibration, event study, baselines, drift, performance figures):
  floating-point arithmetic without state.
- Prompt templates, schemas and sanitising: text; only the outcome of validation
  matters to the gateway.
- Discovery, entity resolution, extraction scores: matching of text over tables that do not change.
- The instrument master, the universe and the adapters: tables that are only read, and
  parsing of files; `BarStore`'s feeds are what they yield.
- The web page, scripts, migrations: no behaviour of their own.
- The dead-letter queue's file and what the review queue's file holds: append-only and never read back. The reports on backtests and
  the chronological split: pure passes with one obvious answer.
- The overwriting of the only Parquet file in place is modelled (`KillInSave`), but no
  property is about it: the code promises nothing, and the file is then lost.

Liveness apart, no property of a passing run is without a theorem.
