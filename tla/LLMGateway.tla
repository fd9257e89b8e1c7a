------------------------------ MODULE LLMGateway ------------------------------
(***************************************************************************)
(* services/research_workers/llm_gateway: the one path from agents to a    *)
(* model.  Calls of LLMGateway.request run as coroutines of one event      *)
(* loop, so a call executes without interruption from one                  *)
(* `await provider.complete` to the next and every other call may run in   *)
(* between: one action below is one such stretch of code.                  *)
(*                                                                         *)
(* Abstracted: a prompt text is a member of Prompts; what a call hands     *)
(* over for its answer to cite is a set of ids, the payload's and those of *)
(* the argument source_ids, which the prompt text does not tell; a         *)
(* validated answer is the route that wrote it and the ids it cites; of    *)
(* validation_failures only its length is kept; latency, tokens, cost and  *)
(* the templates are left out.                                             *)
(***************************************************************************)
EXTENDS Naturals, Sequences, FiniteSets

CONSTANTS
  Requests,        \* the calls; each is made at most once
  Routes,          \* route names a policy may list
  Tasks,           \* LLMTask
  Prompts,         \* payloads (instruction + sources), equal iff the prompt text is
  Asks,            \* the <<task, payload, valid ids>> callers ask
  Ids,             \* source ids a model may cite
  Policy,          \* Policy[t]: the task policy of t
  Threshold,       \* CircuitBreaker.threshold
  DefaultRegistry, \* the registry the worker starts with
  OperatorEntries, \* OperatorEntries[rt]: what an operator may set rt's entry to
  HasProvider,     \* FALSE: the gateway was built without a provider
  AuditMayFail,    \* TRUE: appending to the audit file may raise
  NoData           \* None

Kinds == {"timeout", "provider_5xx", "schema"}   \* members of RetryPolicy.retry_on
Classes == 0..2                                  \* PUBLIC < INTERNAL < USER
RouteEntry == [healthy : BOOLEAN, clear : Classes]
TaskPolicy == [routes : Seq(Routes),             \* allowed_routes + fallback_order
               maxRetries : Nat, retryOn : SUBSET Kinds,
               class : Classes, cacheable : BOOLEAN]
Data == [route : Routes, cites : SUBSET Ids]

LLMRunRecord ==
  [req : Requests, task : Tasks, prompt : Prompts, ids : SUBSET Ids,
   attempted : Seq(Routes), fails : Nat, retries : Nat,
   selected : Routes \cup {"none", "cache"}, state : {"FAILED", "VALIDATED"}]

ASSUME GatewayAssumption ==
  /\ Asks \subseteq Tasks \X Prompts \X SUBSET Ids
  /\ Policy \in [Tasks -> TaskPolicy]
  /\ Threshold \in Nat \ {0}
  /\ DefaultRegistry \in [Routes -> RouteEntry]
  /\ OperatorEntries \in [Routes -> SUBSET RouteEntry]
  /\ HasProvider \in BOOLEAN
  /\ AuditMayFail \in BOOLEAN
  /\ NoData \notin Data
  /\ {"none", "cache"} \cap Routes = {}

VARIABLES
  registry,    \* ModelCapabilityRegistry._routes; an unknown name is an unhealthy route
  failures,    \* CircuitBreaker._failures
  open,        \* CircuitBreaker._open
  cache,       \* LLMGateway._cache
  runs,        \* LLMGateway.runs
  audit,       \* the audit file, which outlives the process
  pc,          \* pc[r]: where call r is
  run,         \* run[r]: r's LLMRunRecord while r executes
  candidates,  \* candidates[r]: positions in the policy's list routed to
  pos,         \* pos[r]: the position being tried
  attempt,     \* attempt[r]: _try_route's loop counter
  result       \* result[r]: GatewayResult.data

breaker == <<failures, open>>
locals == <<candidates, pos, attempt>>
vars == <<registry, failures, open, cache, runs, audit, pc, run,
          candidates, pos, attempt, result>>

-----------------------------------------------------------------------------
(* Requests and their records.                                             *)

\* `ids` is valid_ids, kept in the record as input_source_ids.
NewRun(r, t, p, ids) ==
  [req |-> r, task |-> t, prompt |-> p, ids |-> ids, attempted |-> << >>,
   fails |-> 0, retries |-> 0, selected |-> "none", state |-> "FAILED"]

PolicyOf(r) == Policy[run[r].task]
RouteOf(r) == PolicyOf(r).routes[pos[r]]

\* Mutant: a route goes into attempted_routes once, whatever its retries.
AttemptingOnce(rec, rt) ==
  IF \E i \in DOMAIN rec.attempted : rec.attempted[i] = rt
    THEN rec ELSE [rec EXCEPT !.attempted = Append(@, rt)]

Attempting(rec, rt) == [rec EXCEPT !.attempted = Append(@, rt)]
Failing(rec) == [rec EXCEPT !.fails = @ + 1]
Retried(rec) == [rec EXCEPT !.retries = @ + 1]
Selecting(rec, rt) == [rec EXCEPT !.selected = rt]
InState(rec, st) == [rec EXCEPT !.state = st]

\* Mutant: the prompt text is left out of the key.
CacheKeyOfTask(r) == <<run[r].task, CHOOSE p \in Prompts : TRUE>>

\* The cache key: task, policy and template versions and the prompt text.
\* The versions never change while a process lives.  The valid ids are no part
\* of it.
CacheKey(r) == <<run[r].task, run[r].prompt>>
Cached(r) == IF PolicyOf(r).cacheable THEN cache[CacheKey(r)] ELSE NoData

-----------------------------------------------------------------------------
(* Routing and the circuit breaker.                                        *)

\* Mutants: no `seen` set; the breaker is not consulted.
EligibleRepeated(t) ==
  {j \in DOMAIN Policy[t].routes :
     LET rt == Policy[t].routes[j] IN
       registry[rt].healthy /\ rt \notin open /\ registry[rt].clear >= Policy[t].class}
EligibleOpen(t) ==
  {j \in DOMAIN Policy[t].routes :
     LET rt == Policy[t].routes[j] IN
       /\ \A k \in 1..(j - 1) : Policy[t].routes[k] # rt
       /\ registry[rt].healthy /\ registry[rt].clear >= Policy[t].class}

\* The positions of task t's list the gateway would try now, in this order:
\* first mentions only, healthy, breaker closed, cleared for the task's data.
Eligible(t) ==
  {j \in DOMAIN Policy[t].routes :
     LET rt == Policy[t].routes[j] IN
       /\ \A k \in 1..(j - 1) : Policy[t].routes[k] # rt
       /\ registry[rt].healthy
       /\ rt \notin open
       /\ registry[rt].clear >= Policy[t].class}

First(S) == CHOOSE j \in S : \A k \in S : j <= k
Later(r) == {j \in candidates[r] : j > pos[r]}

RecordFailure(rt) ==
  /\ failures' = [failures EXCEPT ![rt] = @ + 1]
  /\ open' = IF failures[rt] + 1 >= Threshold THEN open \cup {rt} ELSE open

\* Mutant: a success resets the count and leaves the breaker open.
RecordSuccessCountOnly(rt) ==
  failures' = [failures EXCEPT ![rt] = 0] /\ UNCHANGED open

RecordSuccess(rt) ==
  /\ failures' = [failures EXCEPT ![rt] = 0]
  /\ open' = open \ {rt}

\* Mutant: one retry too many.
MayRetryOnceMore(r, kind) ==
  kind \in PolicyOf(r).retryOn /\ attempt[r] <= PolicyOf(r).maxRetries

MayRetry(r, kind) ==
  /\ kind \in PolicyOf(r).retryOn
  /\ attempt[r] < PolicyOf(r).maxRetries

-----------------------------------------------------------------------------
(* The ends of a call.                                                     *)

\* The coroutine's locals go out of scope.
Forget(r) ==
  /\ candidates' = [candidates EXCEPT ![r] = {}]
  /\ pos' = [pos EXCEPT ![r] = 0]
  /\ attempt' = [attempt EXCEPT ![r] = 0]

\* Mutant: an error of the audit write is swallowed and the result delivered.
CommitBestEffort(r, rec, data, cacheAfter) ==
  /\ runs' = Append(runs, rec)
  /\ run' = [run EXCEPT ![r] = rec]
  /\ Forget(r)
  /\ audit' = Append(audit, rec) \/ (AuditMayFail /\ UNCHANGED audit)
  /\ pc' = [pc EXCEPT ![r] = "done"]
  /\ result' = [result EXCEPT ![r] = data]
  /\ cache' = cacheAfter

\* _commit, then what follows it: the record is in memory before the file is
\* written; when that write raises, the caller gets the exception and neither
\* the result nor the cache entry comes into being.
Commit(r, rec, data, cacheAfter) ==
  /\ runs' = Append(runs, rec)
  /\ run' = [run EXCEPT ![r] = rec]
  /\ Forget(r)
  /\ \/ /\ audit' = Append(audit, rec)
        /\ pc' = [pc EXCEPT ![r] = "done"]
        /\ result' = [result EXCEPT ![r] = data]
        /\ cache' = cacheAfter
     \/ /\ AuditMayFail
        /\ pc' = [pc EXCEPT ![r] = "raised"]
        /\ UNCHANGED <<audit, result, cache>>

Degrade(r, rec) == Commit(r, InState(Failing(rec), "FAILED"), NoData, cache)

-----------------------------------------------------------------------------
(* Moving between attempts.  Each ends at the next await.                  *)

\* Mutant: the retry is put off to a later call of request() nobody makes.
RetryLater(r, rec) ==
  /\ run' = [run EXCEPT ![r] = Attempting(rec, RouteOf(r))]
  /\ attempt' = [attempt EXCEPT ![r] = @ + 1]
  /\ pc' = [pc EXCEPT ![r] = "idle"]
  /\ UNCHANGED <<cache, runs, audit, candidates, pos, result>>

\* for attempt in range(...): the same route again.
Retry(r, rec) ==
  /\ run' = [run EXCEPT ![r] = Attempting(rec, RouteOf(r))]
  /\ attempt' = [attempt EXCEPT ![r] = @ + 1]
  /\ UNCHANGED <<cache, runs, audit, pc, candidates, pos, result>>

\* for route in routes: the first attempt on the route at position j.
Try(r, j, rec) ==
  /\ pos' = [pos EXCEPT ![r] = j]
  /\ attempt' = [attempt EXCEPT ![r] = 0]
  /\ run' = [run EXCEPT ![r] = Attempting(rec, PolicyOf(r).routes[j])]

\* _try_route returned None: the next route of the snapshot, or degraded.
NextRoute(r, rec) ==
  \/ /\ Later(r) # {}
     /\ Try(r, First(Later(r)), rec)
     /\ UNCHANGED <<cache, runs, audit, pc, candidates, result>>
  \/ /\ Later(r) = {}
     /\ Degrade(r, rec)

-----------------------------------------------------------------------------
(* The first stretch of request(): up to the first await, or to the end.   *)

CacheHit(r) ==
  /\ pc[r] = "idle"
  /\ Cached(r) # NoData
  /\ Commit(r, InState(Selecting(run[r], "cache"), "VALIDATED"), Cached(r), cache)
  /\ UNCHANGED <<registry, breaker>>

NoRoute(r) ==
  /\ pc[r] = "idle"
  /\ Cached(r) = NoData
  /\ ~HasProvider \/ Eligible(run[r].task) = {}
  /\ Degrade(r, run[r])
  /\ UNCHANGED <<registry, breaker>>

Route(r) ==
  /\ pc[r] = "idle"
  /\ Cached(r) = NoData
  /\ HasProvider
  /\ Eligible(run[r].task) # {}
  /\ pc' = [pc EXCEPT ![r] = "waiting"]
  /\ candidates' = [candidates EXCEPT ![r] = Eligible(run[r].task)]
  /\ Try(r, First(Eligible(run[r].task)), run[r])
  /\ UNCHANGED <<registry, breaker, cache, runs, audit, result>>

-----------------------------------------------------------------------------
(* What provider.complete came back with, and the code up to the next await. *)

\* ProviderTimeout or ProviderError: the breaker counts it and retry_count is
\* incremented whether or not a retry follows.
ProviderFails(r, kind) ==
  /\ pc[r] = "waiting"
  /\ RecordFailure(RouteOf(r))
  /\ LET rec == Retried(Failing(run[r])) IN
       \/ MayRetry(r, kind) /\ Retry(r, rec)
       \/ ~MayRetry(r, kind) /\ NextRoute(r, rec)
  /\ UNCHANGED registry

TimesOut(r) == ProviderFails(r, "timeout")
Errors(r) == ProviderFails(r, "provider_5xx")

\* Not JSON, or not the task's schema.  Only the last try counts as a failure.
Malformed(r) ==
  /\ pc[r] = "waiting"
  /\ \/ /\ MayRetry(r, "schema")
        /\ Retry(r, Retried(Failing(run[r])))
        /\ UNCHANGED breaker
     \/ /\ ~MayRetry(r, "schema")
        /\ RecordFailure(RouteOf(r))
        /\ NextRoute(r, Failing(run[r]))
  /\ UNCHANGED registry

\* Mutant: one known citation is enough.
CitesSomeKnown(r, cites) ==
  cites = {} \/ cites \cap run[r].ids # {}

\* cited_ids() - valid_ids = {}; no citation at all is accepted.
CitesKnown(r, cites) == cites \subseteq run[r].ids

Validates(r) ==
  /\ pc[r] = "waiting"
  /\ \E cites \in SUBSET Ids :
       LET data == [route |-> RouteOf(r), cites |-> cites] IN
         /\ CitesKnown(r, cites)
         /\ Commit(r, InState(Selecting(run[r], RouteOf(r)), "VALIDATED"), data,
                   IF PolicyOf(r).cacheable
                     THEN [cache EXCEPT ![CacheKey(r)] = data] ELSE cache)
  /\ RecordSuccess(RouteOf(r))
  /\ UNCHANGED registry

InventsCitation(r) ==
  /\ pc[r] = "waiting"
  /\ \E cites \in SUBSET Ids : ~CitesKnown(r, cites)
  /\ RecordFailure(RouteOf(r))
  /\ NextRoute(r, Failing(run[r]))
  /\ UNCHANGED registry

Reply(r) == TimesOut(r) \/ Errors(r) \/ Malformed(r) \/ Validates(r) \/ InventsCitation(r)

-----------------------------------------------------------------------------
(* The operator (runbook provider-outage.md) and the process.              *)

SetRoute(rt) ==
  /\ \E e \in OperatorEntries[rt] :
       /\ e # registry[rt]
       /\ registry' = [registry EXCEPT ![rt] = e]
  /\ UNCHANGED <<breaker, cache, runs, audit, pc, run, locals, result>>

\* The worker restarts: everything in memory is rebuilt, the file remains.
Restart ==
  /\ registry' = DefaultRegistry
  /\ failures' = [rt \in Routes |-> 0]
  /\ open' = {}
  /\ cache' = [k \in Tasks \X Prompts |-> NoData]
  /\ runs' = << >>
  /\ pc' = [r \in Requests |-> IF pc[r] = "waiting" THEN "lost" ELSE pc[r]]
  /\ candidates' = [r \in Requests |-> {}]
  /\ pos' = [r \in Requests |-> 0]
  /\ attempt' = [r \in Requests |-> 0]
  /\ run' = [r \in Requests |->
               IF pc[r] = "waiting"
                 THEN NewRun(r, run[r].task, run[r].prompt, run[r].ids) ELSE run[r]]
  /\ UNCHANGED <<audit, result>>

Init ==
  /\ registry = DefaultRegistry
  /\ failures = [rt \in Routes |-> 0]
  /\ open = {}
  /\ cache = [k \in Tasks \X Prompts |-> NoData]
  /\ runs = << >>
  /\ audit = << >>
  /\ pc = [r \in Requests |-> "idle"]
  /\ \E ask \in [Requests -> Asks] :   \* what the callers will ask
       run = [r \in Requests |-> NewRun(r, ask[r][1], ask[r][2], ask[r][3])]
  /\ candidates = [r \in Requests |-> {}]
  /\ pos = [r \in Requests |-> 0]
  /\ attempt = [r \in Requests |-> 0]
  /\ result = [r \in Requests |-> NoData]

Next ==
  \/ \E r \in Requests : CacheHit(r) \/ NoRoute(r) \/ Route(r) \/ Reply(r)
  \/ \E rt \in Routes : SetRoute(rt)
  \/ Restart

Spec == Init /\ [][Next]_vars

\* provider.complete always comes back: the policy's timeout_s is passed to the
\* HTTP client, and every transport error is an exception (freellm.py).  Nothing
\* makes a caller call, an operator act or the worker restart.
FairSpec == Spec /\ \A r \in Requests : WF_vars(Reply(r))
-----------------------------------------------------------------------------
(* Properties.                                                             *)

BreakerTypeOK ==
  /\ failures \in [Routes -> Nat]
  /\ open \in SUBSET Routes

CallsTypeOK ==
  /\ cache \in [Tasks \X Prompts -> Data \cup {NoData}]
  /\ runs \in Seq(LLMRunRecord)
  /\ audit \in Seq(LLMRunRecord)
  /\ pc \in [Requests -> {"idle", "waiting", "done", "raised", "lost"}]
  /\ run \in [Requests -> LLMRunRecord]
  /\ candidates \in [Requests -> SUBSET Nat]
  /\ pos \in [Requests -> Nat]
  /\ attempt \in [Requests -> Nat]
  /\ result \in [Requests -> Data \cup {NoData}]

\* A call's record is its own, it considers only positions of its policy's
\* list, stays within its retries, and waits at a position it was routed to.
CallOK(r) ==
  /\ run[r].req = r
  /\ candidates[r] \subseteq DOMAIN PolicyOf(r).routes
  /\ attempt[r] <= PolicyOf(r).maxRetries
  /\ pc[r] = "waiting" => pos[r] \in candidates[r]

\* Every variable has its type, and every call is where the policy lets it be.
TypeOK ==
  /\ registry \in [Routes -> RouteEntry]
  /\ BreakerTypeOK
  /\ CallsTypeOK
  /\ \A r \in Requests : CallOK(r)

\* The breaker is open exactly on the routes whose consecutive failures reached
\* the threshold, however the calls that report to it interleave: a late
\* success of a call routed earlier closes it together with its count.
BreakerAgrees ==
  \A rt \in Routes : rt \in open <=> failures[rt] >= Threshold

\* The audit file has the VALIDATED record of a call with this task and prompt
\* that was given d by the route d.route, with the ids d cites among the call's.
Vouched(t, p, d) ==
  \E i \in DOMAIN audit :
    /\ audit[i].task = t /\ audit[i].prompt = p
    /\ audit[i].state = "VALIDATED"
    /\ audit[i].selected = d.route
    /\ d.cites \subseteq audit[i].ids

\* Whatever a caller is given, also out of the cache and after restarts, the
\* audit file vouches for: a model's answer to a call with the same task and
\* prompt, checked against the ids of the call it was written for.  An answer
\* not out of the cache cites ids of its own call.  The cache holds nothing else,
\* and nothing for a task whose policy is not cacheable.
AnswersGrounded ==
  /\ \A r \in Requests : result[r] # NoData =>
       /\ Vouched(run[r].task, run[r].prompt, result[r])
       /\ run[r].selected # "cache" => result[r].cites \subseteq run[r].ids
  /\ \A t \in Tasks, p \in Prompts : cache[<<t, p>>] # NoData =>
       Policy[t].cacheable /\ Vouched(t, p, cache[<<t, p>>])

\* LLM_GATEWAY.md section 6: "Citation validation - every claim references a real
\* evidence/source id present in the input set."  The input set of the call
\* that is answered, also when the answer comes out of the cache.
CitesOwnSources ==
  \A r \in Requests : result[r] # NoData => result[r].cites \subseteq run[r].ids

\* What the callers in the repository grant: none passes source_ids, and the
\* prompt text holds the payload's ids, so equal keys mean equal valid ids.
KeysTellIds ==
  \A a1, a2 \in Asks : a1[1] = a2[1] /\ a1[2] = a2[2] => a1[3] = a2[3]

\* One record per call: a call that returned, before or after a restart, has
\* exactly one line in the audit file, with the outcome its caller saw; a call
\* that did not return has none; and no call is twice in the in-memory list.
OneRunPerCall ==
  /\ \A i \in DOMAIN audit :
       /\ pc[audit[i].req] = "done"
       /\ audit[i] = run[audit[i].req]
       /\ \A j \in DOMAIN audit : audit[i].req = audit[j].req => i = j
  /\ \A r \in Requests : pc[r] = "done" =>
       /\ \E i \in DOMAIN audit : audit[i].req = r
       /\ run[r].state = "VALIDATED" <=> result[r] # NoData
  /\ \A r \in Requests : pc[r] # "done" => result[r] = NoData
  /\ \A i \in DOMAIN runs :
       /\ pc[runs[i].req] \in {"done", "raised"}
       /\ \A j \in DOMAIN runs : runs[i].req = runs[j].req => i = j

\* A record accounts for every attempt of its call: each attempt but a
\* successful last one left its reason; a cache hit attempted nothing; a
\* degraded call has one reason more ("degraded"); and the selected route is
\* the one attempted last.
Accounted(rec) ==
  IF rec.state = "VALIDATED"
    THEN IF rec.selected = "cache"
           THEN rec.attempted = << >> /\ rec.fails = 0
           ELSE /\ Len(rec.attempted) = rec.fails + 1
                /\ rec.selected = rec.attempted[Len(rec.attempted)]
    ELSE /\ rec.fails = Len(rec.attempted) + 1
         /\ rec.selected = "none"

AuditAccounts ==
  /\ \A i \in DOMAIN audit : Accounted(audit[i])
  /\ \A r \in Requests : pc[r] = "waiting" =>
       /\ Len(run[r].attempted) = run[r].fails + 1
       /\ run[r].attempted[Len(run[r].attempted)] = RouteOf(r)

\* Approved routes only, in the policy's order, each at most 1 + maxRetries
\* times and never again once the call moved on.
Rank(t, rt) == First({j \in DOMAIN Policy[t].routes : Policy[t].routes[j] = rt})

AttemptsFollowPolicy ==
  \A r \in Requests :
    LET tried == run[r].attempted
        t == run[r].task
    IN /\ \A i \in DOMAIN tried : \E j \in DOMAIN Policy[t].routes :
                                    Policy[t].routes[j] = tried[i]
       /\ \A i, k \in DOMAIN tried : i <= k => Rank(t, tried[i]) <= Rank(t, tried[k])
       /\ \A i \in DOMAIN tried :
            Cardinality({k \in DOMAIN tried : tried[k] = tried[i]})
              <= Policy[t].maxRetries + 1

\* Calls that may still attempt rt: routed while it was closed, not past it.
Holds(r, rt) ==
  /\ pc[r] = "waiting"
  /\ \E j \in candidates[r] : j >= pos[r] /\ PolicyOf(r).routes[j] = rt

\* rt is usable for task t now: healthy, breaker closed, cleared for its data.
Usable(rt, t) ==
  registry[rt].healthy /\ rt \notin open /\ registry[rt].clear >= Policy[t].class

\* Routing is decided once, when a call starts, and a route that has become
\* unusable since drains: it is attempted only by calls that were routed to it
\* before and are not past it.  Once a breaker is open and no such call is
\* left, nothing but a restart closes it (there is no half-open probe).
UnusableRouteDrains ==
  [][/\ \A r \in Requests, rt \in Routes :
          (pc'[r] = "waiting" /\ run'[r].attempted # run[r].attempted /\ rt = RouteOf(r)')
            => Holds(r, rt) \/ Usable(rt, run[r].task)
     /\ \A rt \in open :
          (\A r \in Requests : ~Holds(r, rt)) => rt \in open' \/ Restart]_vars

\* Every call that started waiting for a model ends.
EveryCallEnds ==
  \A r \in Requests : pc[r] = "waiting" ~> pc[r] \in {"done", "raised", "lost"}

\* The contract of GatewayContract, kept by this implementation.
Contract == INSTANCE GatewayContract WITH
  Keys <- Tasks \X Prompts,
  status <- pc,
  asked <- [r \in Requests |-> [key |-> CacheKey(r), ids |-> run[r].ids]],
  answer <- result,
  log <- [i \in DOMAIN audit |->
            [call |-> audit[i].req, ok |-> audit[i].state = "VALIDATED"]]

KeepsContract == Contract!ContractSpec

\* LLM_GATEWAY.md section 8: "Cache key includes: task policy version + model
\* route + input content hash. A policy or route change invalidates the entry."
\* A call answered from the cache gets data of a route the registry would still
\* route that call to.
RouteChangeInvalidates ==
  [][\A r \in Requests :
       (pc[r] = "idle" /\ pc'[r] = "done" /\ run'[r].selected = "cache") =>
         /\ registry[result'[r].route].healthy
         /\ registry[result'[r].route].clear >= PolicyOf(r).class]_vars
=============================================================================
