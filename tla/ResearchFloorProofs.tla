-------------------------- MODULE ResearchFloorProofs --------------------------
(***************************************************************************)
(* Proofs about ResearchFloor, for any numbers of pages, questions,        *)
(* instruments, agents and results.                                        *)
(*                                                                         *)
(* The argument: a gateway call that is done never changes again, so what  *)
(* a page was built from stays what it was; the stages of an investigation *)
(* only advance over agents that are back (Staged); the gateway's answers  *)
(* cite what the agents supplied (CallsOK); and the queue holds nothing    *)
(* about a call that its result does not call for, and all of it once the  *)
(* agent is back (ReviewInv).                                              *)
(***************************************************************************)
EXTENDS ResearchFloor, TLAPS

Statuses == {"idle", "waiting", "done", "raised"}
Answers == Data \cup {NoData}
PageType == [Agents -> Data \cup {NoData, None}]

\* The gateway calls: what was asked, and that answers are grounded in it.
CallsOK ==
  /\ status \in [Calls -> Statuses]
  /\ answer \in [Calls -> Answers]
  /\ asked = [c \in Calls |-> [key |-> Key(c), ids |-> Payload(c)]]
  /\ \A c \in Calls : answer[c] # NoData =>
       status[c] = "done" /\ answer[c].cites \subseteq Payload(c)

\* A later stage was reached over calls that are done.
Staged ==
  \A p \in Pages : /\ stage[p] >= 2 => AllBack(p, Analysts)
                   /\ stage[p] = 3 => AllBack(p, Debaters)

\* A question whose call was made has evidence; a grounded reply has an answer.
ChatOK ==
  \A q \in Questions :
    /\ chat[q] \in {"pending", "grounded"} => Payload(<<q, "chat">>) # {}
    /\ chat[q] = "grounded" => answer[<<q, "chat">>] # NoData

\* What the queue holds about a call is what its result calls for: no more at
\* any time, and no less once its agent is back.
Reasons == {"degraded", "low_confidence", "conflict"}

AnalystReviewed(c) ==
  /\ \A why : Queued(c, why) => status[c] = "done" /\ why \in ToReview(c, answer[c])
  /\ Back(c) => \A why \in ToReview(c, answer[c]) : Queued(c, why)

ReviewInv ==
  /\ queue \subseteq [call : Pages \X Analysts, reason : Reasons]
  /\ \A c \in Pages \X Analysts : AnalystReviewed(c)
  /\ \A c \in broken : status[c] = "done"

FloorInv == TypeOK /\ CallsOK /\ Staged /\ PagesAreWhole /\ ReviewInv /\ ChatOK

-----------------------------------------------------------------------------
(* The gateway calls.                                                      *)

\* What one step does to a gateway call.
CallStep(c) ==
  \/ G!Ask(c) \/ G!Refuse(c) \/ G!Raise(c)
  \/ \E d \in Data : G!Answer(c, d)

CallsKept == \A c \in Calls : status[c] \in {"done", "raised"} =>
               status'[c] = status[c] /\ answer'[c] = answer[c]

\* An agent that is back, or has raised, is so for good.
Kept == CallsKept /\ \A c \in Calls : status[c] \in {"done", "raised"} =>
                       (c \in broken' <=> c \in broken)

LEMMA PageCall ==
  ASSUME NEW p \in Pages, NEW a \in Agents
  PROVE  <<p, a>> \in Calls
BY DEF Calls

LEMMA ChatCall ==
  ASSUME NEW q \in Questions
  PROVE  <<q, "chat">> \in Calls
BY DEF Calls

LEMMA PayloadTyped ==
  ASSUME NEW c \in Calls
  PROVE  Payload(c) \subseteq Ids
<1>1. AllStored \subseteq Ids
  BY FloorAssumption DEF AllStored
<1>2. CASE c[1] \in Pages
  <2>1. About[c[1]] \in Instruments
    BY <1>2, FloorAssumption
  <2> QED BY <1>2, <2>1, FloorAssumption DEF Payload, Evidence
<1>3. CASE c[1] \notin Pages
  <2>1. c[1] \in Questions
    BY <1>3 DEF Calls
  <2>2. About[c[1]] \in Instruments \cup {None}
    BY <2>1, FloorAssumption
  <2> QED BY <1>1, <1>3, <2>2, FloorAssumption DEF Payload
<1> QED BY <1>2, <1>3

\* Calls that are alike have the same sources.
LEMMA KeyTellsPayload ==
  ASSUME NEW c \in Calls, NEW b \in Calls, Key(c) = Key(b)
  PROVE  Payload(c) = Payload(b)
<1>1. c[1] \in Pages \/ c[1] \in Questions
  BY DEF Calls
<1>2. b[1] \in Pages \/ b[1] \in Questions
  BY DEF Calls
<1> DEFINE PageKey(x) == [agent |-> x[2], about |-> About[x[1]]]
           ChatKey(x) == [question |-> x[1]]
<1>3. \A x, y : PageKey(x) # ChatKey(y)
  <2>1. \A x : "agent" \in DOMAIN PageKey(x)
    OBVIOUS
  <2>2. \A y : "agent" \notin DOMAIN ChatKey(y)
    OBVIOUS
  <2> QED BY <2>1, <2>2
<1>4. CASE c[1] \in Pages
  <2>1. b[1] \in Pages
    BY <1>3, <1>4 DEF Key
  <2>2. PageKey(c) = PageKey(b)
    BY <1>4, <2>1 DEF Key
  <2>3. PageKey(c).about = PageKey(b).about
    BY <2>2
  <2>4. About[c[1]] = About[b[1]]
    BY <2>3
  <2> QED BY <1>4, <2>1, <2>4 DEF Payload
<1>5. CASE c[1] \notin Pages
  <2>1. b[1] \notin Pages
    BY <1>3, <1>5 DEF Key
  <2>2. ChatKey(c).question = ChatKey(b).question
    BY <1>5, <2>1 DEF Key
  <2>3. c[1] = b[1]
    BY <2>2
  <2> QED BY <1>5, <2>1, <2>3 DEF Payload
<1> QED BY <1>4, <1>5

\* A step of a call keeps the calls right and changes none that has ended.
LEMMA CallStepKeeps ==
  ASSUME CallsOK, NEW c \in Calls, CallStep(c)
  PROVE  CallsOK' /\ CallsKept
<1>1. CASE G!Ask(c)
  BY <1>1 DEF CallsOK, CallsKept, Statuses, Answers, G!Ask
<1>2. CASE G!Refuse(c)
  BY <1>2 DEF CallsOK, CallsKept, Statuses, Answers, G!Refuse, G!Ends
<1>3. CASE G!Raise(c)
  BY <1>3 DEF CallsOK, CallsKept, Statuses, Answers, G!Raise, G!Ends
<1>4. CASE \E d \in Data : G!Answer(c, d)
  <2>1. PICK d \in Data : G!Answer(c, d)
    BY <1>4
  <2>2. asked[c].ids = Payload(c) /\ \A b \in Calls : asked[b].key = Key(b)
    BY DEF CallsOK
  <2>3. d.cites \subseteq Payload(c)
    <3>1. CASE d.cites \subseteq asked[c].ids
      BY <2>2, <3>1
    <3>2. CASE \E b \in Calls : asked[b].key = asked[c].key /\ answer[b] = d
      <4>1. PICK b \in Calls : Key(b) = Key(c) /\ answer[b] = d
        BY <2>2, <3>2
      <4>2. Payload(b) = Payload(c)
        BY <4>1, KeyTellsPayload
      <4> QED BY <4>1, <4>2, FloorAssumption DEF CallsOK
    <3> QED BY <2>1, <3>1, <3>2 DEF G!Answer, G!Founded
  <2> QED BY <2>1, <2>3 DEF CallsOK, CallsKept, Statuses, Answers, G!Answer, G!Ends
<1> QED BY <1>1, <1>2, <1>3, <1>4 DEF CallStep

LEMMA ReturnsIsStep ==
  ASSUME NEW c \in Calls, NEW d \in Answers, Returns(c, d), CallsOK
  PROVE  /\ CallStep(c)
         /\ status[c] \in {"idle", "waiting"}
         /\ status' = [status EXCEPT ![c] = "done"]
         /\ answer'[c] = d
         /\ \A b \in Calls : b # c => answer'[b] = answer[b]
<1>1. CASE d = NoData
  <2>1. G!Refuse(c)
    BY <1>1 DEF Returns
  <2>2. answer[c] = NoData
    BY <2>1 DEF CallsOK, G!Refuse, G!Ends
  <2> QED BY <1>1, <2>1, <2>2 DEF CallStep, G!Refuse, G!Ends
<1>2. CASE d # NoData
  <2>1. d \in Data /\ G!Answer(c, d)
    BY <1>2 DEF Returns, Answers
  <2> QED BY <2>1 DEF CallStep, CallsOK, G!Answer, G!Ends
<1> QED BY <1>1, <1>2

\* What an agent flags, and that the others flag nothing and cannot raise here.
LEMMA ReturnsFlags ==
  ASSUME NEW p \in Pages, NEW a \in Agents, NEW d \in Answers, Returns(<<p, a>>, d)
  PROVE  LET c == <<p, a>> IN
         /\ \E whys \in SUBSET ToReview(c, d) :
              /\ queue' = queue \cup [call : {c}, reason : whys]
              /\ \/ whys = ToReview(c, d) /\ broken' = broken
                 \/ broken' = broken \cup {c}
         /\ a \notin Analysts => UNCHANGED reviews
<1> DEFINE c == <<p, a>>
<1>1. Enqueues(c, d)
  BY DEF Returns
<1>2. \E whys \in SUBSET ToReview(c, d) :
        /\ queue' = queue \cup [call : {c}, reason : whys]
        /\ \/ whys = ToReview(c, d) /\ broken' = broken
           \/ broken' = broken \cup {c}
  <2>1. CASE queue' = queue \cup [call : {c}, reason : ToReview(c, d)] /\ UNCHANGED broken
    BY <2>1
  <2>2. CASE /\ \E last \in ToReview(c, d) :
                  queue' = queue \cup [call : {c}, reason : UpTo(last, ToReview(c, d))]
             /\ broken' = broken \cup {c}
    <3>1. PICK last \in ToReview(c, d) :
            queue' = queue \cup [call : {c}, reason : UpTo(last, ToReview(c, d))]
      BY <2>2
    <3>2. UpTo(last, ToReview(c, d)) \subseteq ToReview(c, d)
      BY DEF UpTo
    <3> QED BY <2>2, <3>1, <3>2
  <2> QED BY <1>1, <2>1, <2>2 DEF Enqueues
<1>3. ASSUME a \notin Analysts PROVE UNCHANGED reviews
  <2>1. ToReview(c, d) = {}
    BY <1>3 DEF ToReview
  <2>2. queue' = queue \cup [call : {c}, reason : {}] /\ broken' = broken
    BY <1>1, <2>1 DEF Enqueues
  <2>3. [call : {c}, reason : {}] = {}
    OBVIOUS
  <2> QED BY <2>2, <2>3 DEF reviews
<1> QED BY <1>2, <1>3

LEMMA JudgeIsNoAnalyst == "judge" \in Agents /\ "judge" \notin Analysts
BY FloorAssumption DEF Agents

\* Every step of the floor makes a step of one call or of none.
LEMMA NextCalls ==
  ASSUME FloorInv, [Next]_floorVars
  PROVE  CallsOK' /\ Kept /\ broken' \subseteq Calls
<1>0. CallsOK /\ broken \subseteq Calls
  BY DEF FloorInv, TypeOK
<1> DEFINE Goal == CallsOK' /\ Kept /\ broken' \subseteq Calls
<1>1. ASSUME UNCHANGED calls, UNCHANGED reviews PROVE Goal
  BY <1>0, <1>1 DEF calls, reviews, CallsOK, Kept, CallsKept
<1>2. ASSUME NEW c \in Calls, CallStep(c), UNCHANGED reviews PROVE Goal
  BY <1>0, <1>2, CallStepKeeps DEF Kept, reviews
<1>3. ASSUME NEW p \in Pages, NEW a \in Agents, NEW d \in Answers, Returns(<<p, a>>, d)
      PROVE  Goal
  <2>1. <<p, a>> \in Calls
    BY PageCall
  <2>2. CallStep(<<p, a>>) /\ status[<<p, a>>] \in {"idle", "waiting"}
    BY <1>0, <1>3, <2>1, ReturnsIsStep
  <2>3. broken' = broken \/ broken' = broken \cup {<<p, a>>}
    BY <1>3, ReturnsFlags
  <2>4. CallsOK' /\ CallsKept
    BY <1>0, <2>1, <2>2, CallStepKeeps
  <2> QED BY <1>0, <2>1, <2>2, <2>3, <2>4 DEF Kept
<1>4. ASSUME NEW p \in Pages, NEW a \in Agents, AgentStep(p, a) PROVE Goal
  <2>1. <<p, a>> \in Calls
    BY PageCall
  <2>2. \/ CallStep(<<p, a>>) /\ UNCHANGED reviews
        \/ \E d \in Answers : Returns(<<p, a>>, d)
    BY <1>4 DEF AgentStep, AgentRuns, AgentReturns, CallStep, Answers
  <2> QED BY <1>2, <1>3, <2>1, <2>2
<1>5. ASSUME NEW p \in Pages, StartPage(p) PROVE Goal
  BY <1>1, <1>5 DEF StartPage
<1>6. ASSUME NEW p \in Pages, PageStep(p) PROVE Goal
  <2>1. <<p, "judge">> \in Calls /\ "judge" \in Agents
    BY PageCall DEF Agents
  <2>2. ASSUME JudgeReturns(p) PROVE Goal
    BY <1>2, <1>3, <2>1, <2>2 DEF JudgeReturns, CallStep, Answers
  <2>3. CASE StartDebate(p) \/ FailPage(p)
    BY <1>1, <2>3 DEF StartDebate, FailPage
  <2>4. CASE StartJudge(p) \/ FinishPage(p)
    BY <1>2, <2>1, <2>2, <2>4 DEF StartJudge, FinishPage, CallStep
  <2> QED BY <1>6, <2>3, <2>4 DEF PageStep
<1>7. ASSUME NEW q \in Questions, StartChat(q) \/ FinishChat(q) PROVE Goal
  <2>1. <<q, "chat">> \in Calls
    BY ChatCall
  <2>2. (CallStep(<<q, "chat">>) \/ UNCHANGED calls) /\ UNCHANGED reviews
    BY <1>7 DEF StartChat, FinishChat, ChatReturns, CallStep
  <2> QED BY <1>1, <1>2, <2>1, <2>2
<1>8. CASE UNCHANGED floorVars
  BY <1>1, <1>8 DEF floorVars
<1> QED BY <1>4, <1>5, <1>6, <1>7, <1>8 DEF Next

-----------------------------------------------------------------------------
(* The invariant holds initially.                                          *)

LEMMA InitInv == Init => FloorInv
<1> SUFFICES ASSUME Init PROVE FloorInv
  OBVIOUS
<1> USE DEF Init
<1>1. CallsOK
  BY DEF CallsOK, Statuses, Answers
<1>2. \A c \in Calls : asked[c] \in [key : {Key(b) : b \in Calls}, ids : SUBSET Ids]
  BY PayloadTyped
<1>3. TypeOK
  BY <1>1, <1>2 DEF TypeOK, CallsOK, Statuses, Answers, NoPage
<1>4. ReviewInv
  <2>1. \A c \in Pages \X Analysts : c \in Calls
    BY DEF Calls, Agents
  <2> QED BY <2>1 DEF ReviewInv, AnalystReviewed, Queued, Back
<1> QED BY <1>1, <1>3, <1>4 DEF FloorInv, Staged, PagesAreWhole, ChatOK

-----------------------------------------------------------------------------
(* Every step preserves the invariant, conjunct by conjunct.               *)

\* What a page's step leaves alone, and what it may change it to.
LEMMA PagesTyped ==
  ASSUME FloorInv, [Next]_floorVars
  PROVE  /\ stage' \in [Pages -> 0..3]
         /\ outcome' \in [Pages -> {"idle", "pending", "shown", "nobars", "failed"}]
         /\ view' \in [Pages -> PageType]
         /\ cache' \in [Instruments -> PageType]
<1> USE DEF FloorInv, TypeOK
<1>0. view \in [Pages -> PageType] /\ cache \in [Instruments -> PageType]
  BY DEF PageType
<1>1. ASSUME UNCHANGED pages PROVE UNCHANGED <<stage, outcome, view, cache>>
  BY <1>1 DEF pages
<1>2. ASSUME NEW p \in Pages, StartPage(p)
      PROVE  /\ stage' \in [Pages -> 0..3]
             /\ outcome' \in [Pages -> {"idle", "pending", "shown", "nobars", "failed"}]
             /\ view' \in [Pages -> PageType]
             /\ cache' = cache
  <2>1. About[p] \in Instruments
    BY FloorAssumption
  <2>2. cache[About[p]] \in PageType
    BY <1>0, <2>1
  <2>3. /\ cache' = cache
        /\ stage' = stage \/ stage' = [stage EXCEPT ![p] = 1]
        /\ view' = view \/ view' = [view EXCEPT ![p] = cache[About[p]]]
        /\ \E new \in {"shown", "nobars", "pending"} :
             outcome' = [outcome EXCEPT ![p] = new]
    BY <1>2 DEF StartPage
  <2>4. view' \in [Pages -> PageType]
    BY <1>0, <2>2, <2>3
  <2>5. stage \in [Pages -> 0..3]
        /\ outcome \in [Pages -> {"idle", "pending", "shown", "nobars", "failed"}]
    OBVIOUS
  <2> HIDE DEF FloorInv, TypeOK
  <2>6. stage' \in [Pages -> 0..3]
    BY <2>3, <2>5
  <2>7. outcome' \in [Pages -> {"idle", "pending", "shown", "nobars", "failed"}]
    BY <2>3, <2>5
  <2> QED BY <2>3, <2>4, <2>6, <2>7
<1>3. ASSUME NEW p \in Pages, JudgeReturns(p)
      PROVE  /\ outcome' \in [Pages -> {"idle", "pending", "shown", "nobars", "failed"}]
             /\ view' \in [Pages -> PageType]
             /\ cache' \in [Instruments -> PageType]
  <2>1. \A a \in Agents : answer[<<p, a>>] \in Answers
    BY PageCall DEF CallsOK
  <2>2. ASSUME NEW d \in Answers PROVE [PageOf(p) EXCEPT !["judge"] = d] \in PageType
    <3>1. PageOf(p) \in [Agents -> Answers]
      BY <2>1 DEF PageOf
    <3>2. [PageOf(p) EXCEPT !["judge"] = d] \in [Agents -> Answers]
      BY <3>1
    <3> QED BY <3>2 DEF PageType, Answers
  <2>3. CASE \E d \in Answers : Shows(p, [PageOf(p) EXCEPT !["judge"] = d])
    <3>1. PICK page \in PageType : Shows(p, page)
      BY <2>2, <2>3
    <3> QED BY <1>0, <3>1 DEF Shows
  <2>4. CASE outcome' = [outcome EXCEPT ![p] = "failed"] /\ UNCHANGED <<view, cache>>
    BY <1>0, <2>4
  <2> QED BY <1>3, <2>3, <2>4 DEF JudgeReturns, Answers
<1>4. ASSUME NEW p \in Pages, PageStep(p)
      PROVE  /\ stage' \in [Pages -> 0..3]
             /\ outcome' \in [Pages -> {"idle", "pending", "shown", "nobars", "failed"}]
             /\ view' \in [Pages -> PageType]
             /\ cache' \in [Instruments -> PageType]
  <2>1. CASE StartDebate(p)
    BY <1>0, <2>1 DEF StartDebate
  <2>2. CASE StartJudge(p)
    BY <1>0, <1>3, <2>2 DEF StartJudge
  <2>3. CASE FinishPage(p)
    BY <1>0, <1>3, <2>3 DEF FinishPage
  <2>4. CASE FailPage(p)
    BY <1>0, <2>4 DEF FailPage
  <2> QED BY <1>4, <2>1, <2>2, <2>3, <2>4 DEF PageStep
<1>5. ASSUME NEW p \in Pages, NEW a \in Agents, AgentStep(p, a) PROVE UNCHANGED pages
  BY <1>5 DEF AgentStep, AgentRuns, AgentReturns
<1>6. ASSUME NEW q \in Questions, StartChat(q) \/ FinishChat(q) PROVE UNCHANGED pages
  BY <1>6 DEF StartChat, FinishChat, ChatReturns
<1>7. CASE UNCHANGED floorVars
  BY <1>0, <1>1, <1>7 DEF floorVars
<1> QED BY <1>0, <1>1, <1>2, <1>4, <1>5, <1>6, <1>7 DEF Next

LEMMA StagedKept ==
  ASSUME FloorInv, [Next]_floorVars
  PROVE  Staged'
<1>1. Kept /\ stage \in [Pages -> 0..3]
  BY NextCalls DEF FloorInv, TypeOK
<1>2. ASSUME NEW p \in Pages, NEW as, as \subseteq Agents, AllBack(p, as)
      PROVE  AllBack(p, as)'
  BY <1>1, <1>2, PageCall DEF AllBack, Back, Kept, CallsKept
<1>3. Analysts \subseteq Agents /\ Debaters \subseteq Agents
  BY DEF Agents
<1>4. ASSUME NEW p \in Pages, UNCHANGED stage
      PROVE  /\ stage'[p] >= 2 => AllBack(p, Analysts)'
             /\ stage'[p] = 3 => AllBack(p, Debaters)'
  BY <1>2, <1>3, <1>4 DEF FloorInv, Staged
<1>5. ASSUME NEW p \in Pages, NEW r \in Pages, StartPage(r)
      PROVE  /\ stage'[p] >= 2 => AllBack(p, Analysts)'
             /\ stage'[p] = 3 => AllBack(p, Debaters)'
  BY <1>1, <1>2, <1>3, <1>5 DEF StartPage, FloorInv, Staged
<1>6. ASSUME NEW p \in Pages, NEW r \in Pages, PageStep(r)
      PROVE  /\ stage'[p] >= 2 => AllBack(p, Analysts)'
             /\ stage'[p] = 3 => AllBack(p, Debaters)'
  <2>1. CASE StartDebate(r)
    BY <1>1, <1>2, <1>3, <2>1 DEF StartDebate, FloorInv, Staged
  <2>2. CASE StartJudge(r)
    BY <1>1, <1>2, <1>3, <2>2 DEF StartJudge, FloorInv, Staged
  <2>3. CASE FinishPage(r) \/ FailPage(r)
    BY <1>4, <2>3 DEF FinishPage, FailPage
  <2> QED BY <1>6, <2>1, <2>2, <2>3 DEF PageStep
<1>7. ASSUME NEW p \in Pages, NEW a \in Agents, AgentStep(p, a) PROVE UNCHANGED stage
  BY <1>7 DEF AgentStep, AgentRuns, AgentReturns, pages
<1>8. ASSUME NEW q \in Questions, StartChat(q) \/ FinishChat(q) PROVE UNCHANGED stage
  BY <1>8 DEF StartChat, FinishChat, ChatReturns, pages
<1>9. CASE UNCHANGED floorVars
  BY <1>4, <1>9 DEF floorVars, pages, Staged
<1> QED BY <1>4, <1>5, <1>6, <1>7, <1>8, <1>9 DEF Next, Staged

\* A page that is whole after a step.
WholeAfter(i, page) ==
  \E p \in Pages : /\ About[p] = i /\ page = PageOf(p)'
                  /\ \A a \in Agents : Back(<<p, a>>)'

LEMMA WholeAfterStep ==
  ASSUME \A i \in Instruments : cache'[i] # NoPage => WholeAfter(i, cache'[i]),
         \A p \in Pages : outcome'[p] = "shown" => WholeAfter(About[p], view'[p])
  PROVE  PagesAreWhole'
BY DEF PagesAreWhole, WholeAfter, WholePageOf, NoPage

\* A page stays whole: what it was built from does not change.
LEMMA WholeStays ==
  ASSUME FloorInv, [Next]_floorVars,
         NEW i \in Instruments, NEW page, WholePageOf(i, page)
  PROVE  WholeAfter(i, page)
<1>1. PICK p \in Pages : /\ About[p] = i /\ page = PageOf(p)
                         /\ \A a \in Agents : Back(<<p, a>>)
  BY DEF WholePageOf
<1>2. \A a \in Agents : /\ Back(<<p, a>>)'
                        /\ answer'[<<p, a>>] = answer[<<p, a>>]
  BY <1>1, PageCall, NextCalls DEF Back, Kept, CallsKept
<1>3. PageOf(p)' = PageOf(p)
  BY <1>2 DEF PageOf
<1> QED BY <1>1, <1>2, <1>3 DEF WholeAfter

\* The judge returns last, so the page it completes is whole.
LEMMA JudgedIsWhole ==
  ASSUME FloorInv, [Next]_floorVars, NEW p \in Pages,
         AllBack(p, Analysts), AllBack(p, Debaters),
         NEW d \in Answers, Returns(<<p, "judge">>, d)
  PROVE  WholeAfter(About[p], [PageOf(p) EXCEPT !["judge"] = d])
<1> DEFINE judge == <<p, "judge">>
<1>1. judge \in Calls
  BY PageCall DEF Agents
<1>2. /\ status' = [status EXCEPT ![judge] = "done"]
      /\ answer'[judge] = d
      /\ \A b \in Calls : b # judge => answer'[b] = answer[b]
      /\ status[judge] # "done"
  BY <1>1, ReturnsIsStep DEF FloorInv
<1>3. /\ \A a \in Agents \ {"judge"} : Back(<<p, a>>)
      /\ judge \notin broken
  BY <1>2 DEF Agents, AllBack, FloorInv, ReviewInv
<1>4. \A a \in Agents : <<p, a>> \in Calls /\ status \in [Calls -> Statuses]
  BY PageCall DEF FloorInv, CallsOK
<1>8. broken' = broken
  BY ReturnsFlags, JudgeIsNoAnalyst DEF reviews
<1>5. \A a \in Agents : Back(<<p, a>>)'
  BY <1>2, <1>3, <1>4, <1>8 DEF Back
<1>6. \A a \in Agents : answer'[<<p, a>>] = IF a = "judge" THEN d ELSE answer[<<p, a>>]
  BY <1>2, <1>4
<1>7. [PageOf(p) EXCEPT !["judge"] = d] = PageOf(p)'
  BY <1>6 DEF PageOf
<1> QED BY <1>5, <1>7 DEF WholeAfter

LEMMA WholeKept ==
  ASSUME FloorInv, [Next]_floorVars
  PROVE  PagesAreWhole'
<1>1. /\ view \in [Pages -> PageType] /\ cache \in [Instruments -> PageType]
      /\ outcome \in [Pages -> {"idle", "pending", "shown", "nobars", "failed"}]
      /\ \A p \in Pages : About[p] \in Instruments
  BY FloorAssumption DEF FloorInv, TypeOK, PageType
<1>2. ASSUME NEW i \in Instruments, cache'[i] = cache[i]
      PROVE  cache'[i] # NoPage => WholeAfter(i, cache'[i])
  BY <1>2, WholeStays DEF FloorInv, PagesAreWhole
<1>3. ASSUME NEW p \in Pages, view'[p] = view[p], outcome[p] = "shown"
      PROVE  WholeAfter(About[p], view'[p])
  BY <1>1, <1>3, WholeStays DEF FloorInv, PagesAreWhole
<1>4. ASSUME UNCHANGED pages PROVE PagesAreWhole'
  BY <1>2, <1>3, <1>4, WholeAfterStep DEF pages
<1>5. ASSUME NEW r \in Pages, StartPage(r) PROVE PagesAreWhole'
  <2>1. cache' = cache
    BY <1>5 DEF StartPage
  <2>2. ASSUME NEW p \in Pages, outcome'[p] = "shown" PROVE WholeAfter(About[p], view'[p])
    <3>1. CASE p = r
      <4>1. cache[About[p]] # NoPage /\ view'[p] = cache[About[p]]
        BY <1>1, <1>5, <2>2, <3>1 DEF StartPage
      <4>2. WholePageOf(About[p], cache[About[p]])
        BY <1>1, <4>1 DEF FloorInv, PagesAreWhole
      <4> QED BY <1>1, <4>1, <4>2, WholeStays
    <3>2. CASE p # r
      BY <1>1, <1>3, <1>5, <2>2, <3>2 DEF StartPage
    <3> QED BY <3>1, <3>2
  <2> QED BY <1>2, <2>1, <2>2, WholeAfterStep
<1>6. ASSUME NEW r \in Pages, AllBack(r, Analysts), AllBack(r, Debaters), JudgeReturns(r)
      PROVE  PagesAreWhole'
  <2>1. CASE \E d \in Answers : Returns(<<r, "judge">>, d)
                                /\ Shows(r, [PageOf(r) EXCEPT !["judge"] = d])
    <3>1. PICK d \in Answers : Returns(<<r, "judge">>, d)
                               /\ Shows(r, [PageOf(r) EXCEPT !["judge"] = d])
      BY <2>1
    <3> DEFINE page == [PageOf(r) EXCEPT !["judge"] = d]
    <3>2. WholeAfter(About[r], page)
      BY <1>6, <3>1, JudgedIsWhole
    <3> HIDE DEF page
    <3>3. /\ outcome' = [outcome EXCEPT ![r] = "shown"]
          /\ view' = [view EXCEPT ![r] = page]
          /\ cache' = [cache EXCEPT ![About[r]] = page]
      BY <3>1 DEF Shows, page
    <3>4. ASSUME NEW i \in Instruments, cache'[i] # NoPage PROVE WholeAfter(i, cache'[i])
      BY <1>1, <1>2, <3>2, <3>3, <3>4
    <3>5. ASSUME NEW p \in Pages, outcome'[p] = "shown" PROVE WholeAfter(About[p], view'[p])
      BY <1>1, <1>3, <3>2, <3>3, <3>5
    <3> QED BY <3>4, <3>5, WholeAfterStep
  <2>2. CASE outcome' = [outcome EXCEPT ![r] = "failed"] /\ UNCHANGED <<view, cache>>
    BY <1>1, <1>2, <1>3, <2>2, WholeAfterStep
  <2> QED BY <1>6, <2>1, <2>2 DEF JudgeReturns, Answers
<1>7. ASSUME NEW r \in Pages, PageStep(r) PROVE PagesAreWhole'
  <2>1. CASE StartDebate(r)
    BY <1>2, <1>3, <2>1, WholeAfterStep DEF StartDebate
  <2>2. CASE StartJudge(r)
    <3>1. AllBack(r, Analysts) /\ AllBack(r, Debaters)
      BY <2>2 DEF StartJudge, FloorInv, Staged
    <3> QED BY <1>2, <1>3, <1>6, <2>2, <3>1, WholeAfterStep DEF StartJudge
  <2>3. CASE FinishPage(r)
    BY <1>6, <2>3 DEF FinishPage, FloorInv, Staged
  <2>4. CASE FailPage(r)
    BY <1>1, <1>2, <1>3, <2>4, WholeAfterStep DEF FailPage
  <2> QED BY <1>7, <2>1, <2>2, <2>3, <2>4 DEF PageStep
<1>8. ASSUME NEW p \in Pages, NEW a \in Agents, AgentStep(p, a) PROVE UNCHANGED pages
  BY <1>8 DEF AgentStep, AgentRuns, AgentReturns
<1>9. ASSUME NEW q \in Questions, StartChat(q) \/ FinishChat(q) PROVE UNCHANGED pages
  BY <1>9 DEF StartChat, FinishChat, ChatReturns
<1>10. CASE UNCHANGED floorVars
  BY <1>4, <1>10 DEF floorVars
<1> QED BY <1>4, <1>5, <1>7, <1>8, <1>9, <1>10 DEF Next

-----------------------------------------------------------------------------
(* The review queue.                                                       *)

\* What an analyst flags is a reason that is so.
LEMMA FlagsTyped ==
  ASSUME NEW c, NEW d
  PROVE  /\ ToReview(c, d) \subseteq Reasons
         /\ ToReview(c, d) # {} => Reviewing /\ c[2] \in Analysts
BY DEF ToReview, Flags, Reasons

\* The calls that did not step, and what is queued about them, are as before.
LEMMA OthersReviewed ==
  ASSUME ReviewInv, NEW c \in Pages \X Analysts,
         status'[c] = "done" <=> status[c] = "done", answer'[c] = answer[c],
         c \in broken' <=> c \in broken,
         \A why : Queued(c, why)' <=> Queued(c, why)
  PROVE  AnalystReviewed(c)'
<1>1. AnalystReviewed(c)
  BY DEF ReviewInv
<1>2. ToReview(c, answer[c])' = ToReview(c, answer[c])
  BY DEF ToReview
<1>3. Back(c)' <=> Back(c)
  BY DEF Back
<1> QED BY <1>1, <1>2, <1>3 DEF AnalystReviewed

\* A call that returns is reviewed; the reviews of the others stay.
LEMMA ReturnsReviewed ==
  ASSUME FloorInv, NEW p \in Pages, NEW a \in Agents, NEW d \in Answers,
         Returns(<<p, a>>, d)
  PROVE  ReviewInv'
<1> DEFINE c == <<p, a>>
<1>1. c \in Calls /\ CallsOK /\ ReviewInv
  BY PageCall DEF FloorInv
<1>2. /\ status' = [status EXCEPT ![c] = "done"]
      /\ status[c] # "done"
      /\ answer'[c] = d
      /\ \A b \in Calls : b # c => answer'[b] = answer[b]
  BY <1>1, ReturnsIsStep
<1>3. /\ status'[c] = "done"
      /\ \A b \in Calls : b # c => status'[b] = status[b]
  BY <1>1, <1>2 DEF CallsOK
<1>4. PICK whys \in SUBSET ToReview(c, d) :
        /\ queue' = queue \cup [call : {c}, reason : whys]
        /\ \/ whys = ToReview(c, d) /\ broken' = broken
           \/ broken' = broken \cup {c}
  BY ReturnsFlags
<1>5. whys \subseteq Reasons /\ (whys # {} => c \in Pages \X Analysts)
  BY FlagsTyped
<1>6. queue' \subseteq [call : Pages \X Analysts, reason : Reasons]
  BY <1>1, <1>4, <1>5 DEF ReviewInv
<1>7. \A b \in broken' : status'[b] = "done"
  BY <1>1, <1>3, <1>4 DEF ReviewInv, FloorInv, TypeOK
<1>8. ASSUME NEW b \in Pages \X Analysts PROVE AnalystReviewed(b)'
  <2>1. b \in Calls
    BY DEF Calls, Agents
  <2>2. CASE b = c
    <3>1. \A why : ~Queued(c, why)
      BY <1>1, <1>2, <2>2 DEF ReviewInv, AnalystReviewed
    <3>2. \A why : Queued(c, why)' <=> why \in whys
      <4>1. \A why : [call |-> c, reason |-> why] \in [call : {c}, reason : whys]
                      <=> why \in whys
        OBVIOUS
      <4> QED BY <1>4, <3>1, <4>1 DEF Queued
    <3>3. ToReview(c, answer[c])' = ToReview(c, d)
      BY <1>2 DEF ToReview
    <3>4. Back(c)' => whys = ToReview(c, d)
      BY <1>4 DEF Back
    <3>5. ASSUME NEW why PROVE Queued(c, why)' <=> why \in whys
      BY <3>2
    <3> QED BY <1>3, <1>4, <2>2, <3>3, <3>4, <3>5 DEF AnalystReviewed
  <2>3. CASE b # c
    <3>1. /\ status'[b] = status[b] /\ answer'[b] = answer[b]
          /\ b \in broken' <=> b \in broken
      BY <1>2, <1>3, <1>4, <2>1, <2>3
    <3>2. \A why : Queued(b, why)' <=> Queued(b, why)
      <4>1. \A why : [call |-> b, reason |-> why] \notin [call : {c}, reason : whys]
        BY <2>3
      <4> QED BY <1>4, <4>1 DEF Queued
    <3> QED BY <1>1, <3>1, <3>2, OthersReviewed
  <2> QED BY <2>2, <2>3
<1> QED BY <1>6, <1>7, <1>8 DEF ReviewInv

LEMMA ReviewKept ==
  ASSUME FloorInv, [Next]_floorVars
  PROVE  ReviewInv'
<1>1. /\ ReviewInv /\ CallsOK /\ Kept
      /\ \A c \in Pages \X Analysts : c \in Calls
      /\ broken \subseteq Calls
  BY NextCalls DEF FloorInv, TypeOK, Calls, Agents
<1>2. ASSUME UNCHANGED reviews,
             \A c \in Pages \X Analysts :
               /\ answer'[c] = answer[c]
               /\ status'[c] = "done" <=> status[c] = "done"
      PROVE  ReviewInv'
  <2>1. \A c \in broken : status'[c] = "done"
    BY <1>1 DEF ReviewInv, Kept, CallsKept
  <2>2. ASSUME NEW c \in Pages \X Analysts PROVE AnalystReviewed(c)'
    BY <1>1, <1>2, OthersReviewed DEF reviews, Queued
  <2> QED BY <1>1, <1>2, <2>1, <2>2 DEF ReviewInv, reviews
<1>3. ASSUME NEW c \in Calls, G!Ask(c) \/ G!Raise(c), UNCHANGED reviews
      PROVE  ReviewInv'
  BY <1>1, <1>2, <1>3 DEF G!Ask, G!Raise, G!Ends, CallsOK
<1>4. ASSUME NEW p \in Pages, NEW a \in Agents, AgentStep(p, a)
      PROVE  ReviewInv'
  <2>1. <<p, a>> \in Calls
    BY PageCall
  <2>2. \/ (G!Ask(<<p, a>>) \/ G!Raise(<<p, a>>)) /\ UNCHANGED reviews
        \/ \E d \in Answers : Returns(<<p, a>>, d)
    BY <1>4 DEF AgentStep, AgentRuns, AgentReturns, Answers
  <2> QED BY <1>3, <2>1, <2>2, ReturnsReviewed
<1>5. ASSUME NEW p \in Pages, PageStep(p)
      PROVE  ReviewInv'
  <2>1. <<p, "judge">> \in Calls /\ "judge" \in Agents
    BY PageCall DEF Agents
  <2>2. ASSUME JudgeReturns(p)
        PROVE  ReviewInv'
    <3>1. \/ G!Raise(<<p, "judge">>) /\ UNCHANGED reviews
          \/ \E d \in Answers : Returns(<<p, "judge">>, d)
      BY <2>2 DEF JudgeReturns, Answers
    <3> QED BY <1>3, <2>1, <3>1, ReturnsReviewed
  <2>3. CASE StartDebate(p) \/ FailPage(p)
    BY <1>2, <2>3 DEF StartDebate, FailPage, calls
  <2>4. CASE StartJudge(p) \/ FinishPage(p)
    BY <1>3, <2>1, <2>2, <2>4 DEF StartJudge, FinishPage
  <2> QED BY <1>5, <2>3, <2>4 DEF PageStep
<1>6. ASSUME NEW p \in Pages, StartPage(p) PROVE UNCHANGED <<calls, reviews>>
  BY <1>6 DEF StartPage
<1>7. ASSUME NEW q \in Questions, StartChat(q) \/ FinishChat(q)
      PROVE  ReviewInv'
  <2>1. <<q, "chat">> \in Calls
    BY ChatCall
  <2>2. UNCHANGED reviews /\ (CallStep(<<q, "chat">>) \/ UNCHANGED calls)
    BY <1>7 DEF StartChat, FinishChat, ChatReturns, CallStep
  <2>3. \A c \in Pages \X Analysts : c # <<q, "chat">>
    BY FloorAssumption
  <2>4. ASSUME CallStep(<<q, "chat">>), NEW c \in Calls, c # <<q, "chat">>
        PROVE  status'[c] = status[c] /\ answer'[c] = answer[c]
    BY <1>1, <2>4 DEF CallStep, CallsOK, G!Ask, G!Refuse, G!Raise, G!Answer, G!Ends
  <2> QED BY <1>1, <1>2, <2>2, <2>3, <2>4 DEF calls
<1>8. CASE UNCHANGED floorVars
  BY <1>2, <1>8 DEF floorVars, calls
<1> QED BY <1>2, <1>4, <1>5, <1>6, <1>7, <1>8 DEF Next, calls

-----------------------------------------------------------------------------
(* The chat.                                                               *)

ChatInv ==
  /\ ChatOK
  /\ chat \in [Questions ->
                {"idle", "limited", "pending", "refused", "grounded", "failed"}]

LEMMA ChatKept ==
  ASSUME FloorInv, [Next]_floorVars
  PROVE  ChatInv'
<1>1. /\ CallsOK /\ ChatOK /\ Kept
      /\ chat \in [Questions ->
                     {"idle", "limited", "pending", "refused", "grounded", "failed"}]
  BY NextCalls DEF FloorInv, TypeOK
<1>2. ASSUME NEW q \in Questions, chat[q] = "grounded"
      PROVE  answer'[<<q, "chat">>] # NoData
  BY <1>1, <1>2, ChatCall DEF ChatOK, CallsOK, CallsKept, Kept
<1>3. ASSUME UNCHANGED chat PROVE ChatInv'
  BY <1>1, <1>2, <1>3 DEF ChatOK, ChatInv
<1>4. ASSUME NEW q \in Questions, ChatReturns(q), Payload(<<q, "chat">>) # {} PROVE ChatInv'
  <2>1. PICK new \in {"refused", "grounded", "failed"} :
          /\ chat' = [chat EXCEPT ![q] = new]
          /\ new = "grounded" => \E d \in Data : G!Answer(<<q, "chat">>, d)
    BY <1>4 DEF ChatReturns
  <2>2. ASSUME NEW d \in Data, G!Answer(<<q, "chat">>, d)
        PROVE  answer'[<<q, "chat">>] # NoData
    BY <1>1, <2>2, ChatCall, FloorAssumption DEF G!Answer, CallsOK
  <2> QED BY <1>1, <1>2, <1>4, <2>1, <2>2 DEF ChatOK, ChatInv
<1>5. ASSUME NEW q \in Questions, StartChat(q) PROVE ChatInv'
  <2>1. \/ \E new \in {"limited", "refused"} : chat' = [chat EXCEPT ![q] = new]
        \/ Payload(<<q, "chat">>) # {} /\ chat' = [chat EXCEPT ![q] = "pending"]
        \/ Payload(<<q, "chat">>) # {} /\ ChatReturns(q)
    BY <1>5 DEF StartChat
  <2> QED BY <1>1, <1>2, <1>4, <2>1 DEF ChatOK, ChatInv
<1>6. ASSUME NEW q \in Questions, FinishChat(q) PROVE ChatInv'
  BY <1>1, <1>4, <1>6 DEF FinishChat, ChatOK
<1>7. ASSUME NEW p \in Pages, StartPage(p) \/ PageStep(p) PROVE UNCHANGED chat
  BY <1>7 DEF StartPage, PageStep, StartDebate, StartJudge, FinishPage, FailPage
<1>8. ASSUME NEW p \in Pages, NEW a \in Agents, AgentStep(p, a) PROVE UNCHANGED chat
  BY <1>8 DEF AgentStep, AgentRuns, AgentReturns
<1>9. CASE UNCHANGED floorVars
  BY <1>3, <1>9 DEF floorVars
<1> QED BY <1>3, <1>5, <1>6, <1>7, <1>8, <1>9 DEF Next

-----------------------------------------------------------------------------
(* The theorems.                                                           *)

LEMMA NextInv == FloorInv /\ [Next]_floorVars => FloorInv'
<1> SUFFICES ASSUME FloorInv, [Next]_floorVars PROVE FloorInv'
  OBVIOUS
<1>1. CallsOK'
  BY NextCalls
<1>2. asked' \in [Calls -> [key : {Key(c) : c \in Calls}, ids : SUBSET Ids]]
  BY <1>1, PayloadTyped DEF CallsOK
<1>3. queue' \subseteq [call : Calls, reason : Reasons] /\ broken' \subseteq Calls
  <2>1. Pages \X Analysts \subseteq Calls
    BY DEF Calls, Agents
  <2> QED BY <2>1, NextCalls, ReviewKept DEF ReviewInv
<1>4. TypeOK'
  BY <1>1, <1>2, <1>3, PagesTyped, ChatKept
     DEF TypeOK, CallsOK, Statuses, Answers, PageType, Reasons, ChatInv
<1> QED BY <1>1, <1>4, StagedKept, WholeKept, ReviewKept, ChatKept DEF FloorInv, ChatInv

LEMMA FloorInvariant == Spec => []FloorInv
BY InitInv, NextInv, PTL DEF Spec

\* Every variable of the floor keeps its type.
THEOREM FloorTyped == Spec => []TypeOK
BY FloorInvariant, PTL DEF FloorInv

\* Every page a client gets, from the cache or not, is one whole investigation of
\* the instrument it asked for, however many run at the same time and whichever
\* of them fail.
THEOREM PagesWhole == Spec => []PagesAreWhole
BY FloorInvariant, PTL DEF FloorInv

\* With a review queue, what is wrong with an analyst's result is queued before
\* the debate starts and before its agent hands it on, whichever writes of the
\* queue's file fail, and nothing else is queued.
LEMMA InvReviewed == FloorInv => DebateIsReviewed
<1> SUFFICES ASSUME FloorInv PROVE DebateIsReviewed
  OBVIOUS
<1>1. ASSUME NEW p \in Pages, NEW a \in Analysts, Reviewing, stage[p] >= 2 \/ Back(<<p, a>>)
      PROVE  LET c == <<p, a>>
                 d == answer[c]
             IN IF d = NoData THEN Queued(c, "degraded")
                ELSE /\ d.low /\ a \in {"news", "fundamental"} => Queued(c, "low_confidence")
                     /\ d.conflict /\ a \in {"news", "sentiment"} => Queued(c, "conflict")
  <2> DEFINE c == <<p, a>>
             d == answer[c]
  <2>1. Back(c)
    BY <1>1 DEF FloorInv, Staged, AllBack
  <2>2. \A why \in ToReview(c, d) : Queued(c, why)
    BY <2>1 DEF FloorInv, ReviewInv, AnalystReviewed
  <2>3. ToReview(c, d) = Flags(a, d)
    BY <1>1 DEF ToReview
  <2>4. CASE d = NoData
    BY <2>2, <2>3, <2>4 DEF Flags
  <2>5. CASE d # NoData
    <3>1. d.low /\ a \in {"news", "fundamental"} => "low_confidence" \in Flags(a, d)
      BY <2>5 DEF Flags
    <3>2. d.conflict /\ a \in {"news", "sentiment"} => "conflict" \in Flags(a, d)
      BY <2>5 DEF Flags
    <3> QED BY <2>2, <2>3, <2>5, <3>1, <3>2
  <2> QED BY <2>4, <2>5
<1>2. ASSUME NEW x \in queue
      PROVE  LET d == answer[x.call]
             IN /\ status[x.call] = "done" /\ x.call[2] \in Analysts
                /\ x.reason = "degraded" <=> d = NoData
                /\ x.reason = "low_confidence" => d.low
                /\ x.reason = "conflict" => d.conflict
  <2> DEFINE c == x.call
             d == answer[c]
  <2>1. c \in Pages \X Analysts /\ x = [call |-> c, reason |-> x.reason]
    BY DEF FloorInv, ReviewInv
  <2>2. Queued(c, x.reason)
    BY <2>1 DEF Queued
  <2>3. status[c] = "done" /\ x.reason \in ToReview(c, d) /\ c[2] \in Analysts
    BY <2>1, <2>2 DEF FloorInv, ReviewInv, AnalystReviewed
  <2>4. x.reason \in Flags(c[2], d)
    BY <2>3 DEF ToReview
  <2>5. CASE d = NoData
    BY <2>3, <2>4, <2>5 DEF Flags
  <2>6. CASE d # NoData
    BY <2>3, <2>4, <2>6 DEF Flags
  <2> QED BY <2>5, <2>6
<1> QED BY <1>1, <1>2 DEF DebateIsReviewed

THEOREM ReviewsPrecedeDebate == Spec => []DebateIsReviewed
BY FloorInvariant, InvReviewed, PTL

\* Whatever a client is shown cites only the evidence of what it asked about.
LEMMA InvGrounded == FloorInv => ShownIsGrounded
<1> SUFFICES ASSUME FloorInv PROVE ShownIsGrounded
  OBVIOUS
<1>1. ASSUME NEW p \in Pages, NEW a \in Agents, outcome[p] = "shown", view[p][a] # NoData
      PROVE  view[p][a].cites \subseteq Evidence(About[p])
  <2>1. PICK r \in Pages : About[r] = About[p] /\ view[p] = PageOf(r)
    BY <1>1 DEF FloorInv, PagesAreWhole, WholePageOf
  <2>2. view[p][a] = answer[<<r, a>>] /\ <<r, a>> \in Calls
    BY <2>1, PageCall DEF PageOf
  <2>3. answer[<<r, a>>].cites \subseteq Payload(<<r, a>>)
    BY <1>1, <2>2 DEF FloorInv, CallsOK
  <2> QED BY <2>1, <2>2, <2>3 DEF Payload
<1>2. ASSUME NEW q \in Questions, chat[q] = "grounded"
      PROVE  LET stored == IF About[q] = None THEN AllStored ELSE Stored[About[q]]
             IN stored # {} /\ answer[<<q, "chat">>].cites \subseteq stored
  <2>1. answer[<<q, "chat">>] # NoData /\ Payload(<<q, "chat">>) # {}
    BY <1>2 DEF FloorInv, ChatOK
  <2>2. answer[<<q, "chat">>].cites \subseteq Payload(<<q, "chat">>)
    BY <2>1, ChatCall DEF FloorInv, CallsOK
  <2>3. Payload(<<q, "chat">>) = IF About[q] = None THEN AllStored ELSE Stored[About[q]]
    BY FloorAssumption DEF Payload
  <2> QED BY <2>1, <2>2, <2>3
<1> QED BY <1>1, <1>2 DEF ShownIsGrounded

\* Pages and answers of the chat cite only the evidence of what was asked about.
THEOREM AnswersAreGrounded == Spec => []ShownIsGrounded
BY FloorInvariant, InvGrounded, PTL

Stays(i) ==
  /\ Settled(i)' /\ cache'[i] = cache[i]
  /\ \A p \in Pages : About[p] = i /\ outcome[p] = "idle" /\ outcome'[p] # "idle"
       => outcome'[p] = "shown" /\ view'[p] = cache[i]

\* A cached page that no investigation is about to replace is final.
LEMMA SettledStep ==
  ASSUME FloorInv, [Next]_floorVars, NEW i \in Instruments, Settled(i)
  PROVE  Stays(i)
<1>1. /\ cache \in [Instruments -> PageType] /\ view \in [Pages -> PageType]
      /\ outcome \in [Pages -> {"idle", "pending", "shown", "nobars", "failed"}]
      /\ cache[i] # NoPage /\ \A p \in Pages : About[p] = i => outcome[p] # "pending"
      /\ \A p \in Pages : About[p] \in Instruments
  BY FloorAssumption DEF FloorInv, TypeOK, Settled, PageType
<1>2. ASSUME UNCHANGED <<outcome, cache>> PROVE Stays(i)
  BY <1>1, <1>2 DEF Stays, Settled, NoPage
<1>3. ASSUME NEW r \in Pages, StartPage(r) PROVE Stays(i)
  <2>1. CASE About[r] = i
    <3>1. /\ cache' = cache
          /\ outcome' = [outcome EXCEPT ![r] = "shown"]
          /\ view' = [view EXCEPT ![r] = cache[i]]
      BY <1>1, <1>3, <2>1 DEF StartPage
    <3> QED BY <1>1, <2>1, <3>1 DEF Stays, Settled, NoPage
  <2>2. CASE About[r] # i
    <3>1. /\ cache' = cache
          /\ \A p \in Pages : p # r => outcome'[p] = outcome[p]
      BY <1>1, <1>3 DEF StartPage
    <3> QED BY <1>1, <2>2, <3>1 DEF Stays, Settled, NoPage
  <2> QED BY <2>1, <2>2
<1>4. ASSUME NEW r \in Pages, PageStep(r) PROVE Stays(i)
  <2>1. outcome[r] = "pending" /\ About[r] # i
    BY <1>1, <1>4 DEF PageStep, StartDebate, StartJudge, FinishPage, FailPage
  <2>2. /\ \A p \in Pages : p # r => outcome'[p] = outcome[p]
        /\ cache'[i] = cache[i]
    <3>1. CASE JudgeReturns(r)
      BY <1>1, <2>1, <3>1 DEF JudgeReturns, Shows
    <3>2. CASE UNCHANGED <<outcome, cache>>
      BY <3>2
    <3>3. CASE FailPage(r)
      BY <1>1, <3>3 DEF FailPage
    <3> QED BY <1>4, <3>1, <3>2, <3>3 DEF PageStep, StartDebate, StartJudge, FinishPage
  <2> QED BY <1>1, <2>1, <2>2 DEF Stays, Settled, NoPage
<1>5. ASSUME NEW p \in Pages, NEW a \in Agents, AgentStep(p, a) PROVE UNCHANGED pages
  BY <1>5 DEF AgentStep, AgentRuns, AgentReturns
<1>6. ASSUME NEW q \in Questions, StartChat(q) \/ FinishChat(q) PROVE UNCHANGED pages
  BY <1>6 DEF StartChat, FinishChat, ChatReturns
<1>7. CASE UNCHANGED floorVars
  BY <1>2, <1>7 DEF floorVars, pages
<1> QED BY <1>2, <1>3, <1>4, <1>5, <1>6, <1>7 DEF Next, pages

\* Once a page is cached and nobody investigates its instrument, it is what every
\* later request gets.
THEOREM SettledPagesStay == Spec => SettledPageStays
<1>1. FloorInv /\ [Next]_floorVars =>
        [\A i \in Instruments : Settled(i) =>
           /\ Settled(i)' /\ cache'[i] = cache[i]
           /\ \A p \in Pages : About[p] = i /\ outcome[p] = "idle" /\ outcome'[p] # "idle"
                => outcome'[p] = "shown" /\ view'[p] = cache[i]]_floorVars
  BY SettledStep DEF Stays
<1> QED BY <1>1, FloorInvariant, PTL DEF Spec, SettledPageStays
=============================================================================
