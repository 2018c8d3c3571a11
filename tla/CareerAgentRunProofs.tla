------------------------ MODULE CareerAgentRunProofs ------------------------
(***************************************************************************)
(* Theorems about CareerAgentRun, for every iteration and source-call      *)
(* budget, every set of requests and every number of failures and wasted   *)
(* turns.                                                                  *)
(***************************************************************************)
EXTENDS CareerAgentRun, TLAPS

(***************************************************************************)
(* The inductive invariant.                                                *)
(***************************************************************************)

Start   == {"initialize_run", "classify_intent", "prepare_workflow", "plan_action"}
Working == {"plan_action", "agent_model", "execute_tools", "observe_completion"}
Tasks   == {plan.action, plan.guidance}
HasWork == plan.action \in Open \/ plan.guidance \in Open

\* While the graph works on the plan a task is open, and none when it finalizes.
PlanFitsNode ==
  /\ plan.guidance # "partial"
  /\ plan.action = "none" <=> kind = "none"
  /\ node \in {"initialize_run", "classify_intent"} => plan = NoPlan
  /\ node = "prepare_workflow" => HasWork /\ plan.action \in {"none", "pending"}
  /\ node = "plan_action" => plan.action \in Open
  /\ node \in Working => HasWork
  /\ node = "finalize" => ~HasWork
  /\ node = "finalize" /\ ~flags.asks => Tasks # {"none"}

\* What the last message is when a node runs, and that a run starts without a trace.
MessageFitsNode ==
  /\ node \in Start => flags = NoFlags /\ last = "none" /\ iteration = wasted
  /\ node = "agent_model" => last \notin {"calls", "answer"}
  /\ node = "execute_tools" => last = "calls"
  /\ node = "observe_completion" /\ last = "none" => flags.error \/ flags.asks

\* An error or a question blocks a task, and nothing else does.
BlocksHaveReasons ==
  /\ "blocked" \in Tasks => flags.error \/ flags.asks
  /\ plan.action = "partial" => ~flags.asks
  /\ node \in {"agent_model", "execute_tools"} => ~flags.error /\ ~flags.asks
  /\ node = "observe_completion" /\ (flags.error \/ flags.asks) => last \notin {"calls", "answer"}
  /\ node = "finalize" /\ Failed => "blocked" \in Tasks

Undone == flags.called /\ ~Delivered /\ ~flags.stop

\* The model is asked about an open action only after a call that did not deliver, and
\* no tool runs once the action is done.
ActionIsPursued ==
  /\ plan.action \in Open =>
       /\ node = "agent_model" => Undone
       /\ node = "observe_completion" /\ last = "calls" => Undone
       /\ node = "observe_completion" => flags.called \/ flags.asks
       /\ node = "execute_tools" => flags.called \/ calls = <<"own">>
  /\ plan.action \in Terminal =>
       /\ node # "execute_tools"
       /\ ~(node = "observe_completion" /\ last = "calls")

\* A delivery has left something behind.
DeliveriesExist ==
  /\ kind = "draft" /\ flags.ok => saved > 0
  /\ kind = "search" /\ flags.sufficient => session.request # None
  /\ plan.action = "completed" => Delivered

Useful == iteration - wasted

Productive(tools) == \E i \in DOMAIN tools : tools[i] \notin Refused

\* Useful turns, counted up to the message that is looked at next.
TurnsAreBounded ==
  /\ Useful <= MaxIterations + 1
  /\ node \in {"agent_model", "execute_tools"} => Useful <= MaxIterations
  /\ node = "observe_completion" /\ last # "answer" => Useful <= MaxIterations
  /\ plan.action \in Open =>
       /\ node = "agent_model" => Useful < MaxIterations
       /\ node = "execute_tools" =>
            Useful < MaxIterations \/ batch.stop \/ Productive(calls)
       /\ node = "observe_completion" /\ last = "calls" =>
            Useful < MaxIterations \/ Productive(calls)
       /\ node = "observe_completion" /\ last \in {"results", "empty"} =>
            Useful < MaxIterations \/ flags.stop

\* The count and the latest session share one budget; a failed search hides at most one.
SourcesAreCounted ==
  /\ counted + session.remaining <= MaxSourceCalls
  /\ spent <= counted + MaxSourceCalls * failures

IInv ==
  /\ TypeOK
  /\ PlanFitsNode
  /\ MessageFitsNode
  /\ BlocksHaveReasons
  /\ ActionIsPursued
  /\ DeliveriesExist
  /\ TurnsAreBounded
  /\ SourcesAreCounted
  /\ StatusTellsThePlan

(***************************************************************************)
(* The steps, in groups that share their effect.                           *)
(***************************************************************************)

Turns ==
  \/ Answer \/ AnswerNothing
  \/ \E n \in 1..MaxCalls : \E tools \in [1..n -> Tools] : CallTools(tools)

ToolSteps ==
  \/ RefuseForeign \/ RefuseStray \/ RefuseOwn \/ CallOther
  \/ \E ok \in BOOLEAN : SaveDraft(ok)
  \/ \E request \in Requests, n \in 0..MaxSourceCalls :
       \/ SearchFails(request, n)
       \/ \E found, sufficient \in BOOLEAN : Search(request, n, found, sufficient)

Classifies ==
  \E action \in {"none", "search", "draft"}, guidance \in BOOLEAN : Classify(action, guidance)

\* Every step is one of these.
LEMMA StepCases ==
  ASSUME [Next]_vars
  PROVE  \/ InitializeRun \/ Clarify \/ Classifies \/ Prepare \/ PlanAction \/ Turns
         \/ ModelFails \/ ToolSteps \/ ToolsDone \/ Observe \/ Finalize \/ Raise
         \/ UNCHANGED vars
BY DEF Next, Steps, Turns, ToolSteps, Classifies

\* A turn of the model changes the message and the counters of turns; only a turn with a
\* tool of the workflow is useful, besides an answer.
LEMMA TurnFacts ==
  ASSUME TypeOK, Turns
  PROVE  /\ node = "agent_model" /\ node' = "observe_completion"
         /\ UNCHANGED <<kind, plan, batch, flags, saved, status, counted, session, spent, failures>>
         /\ iteration' = iteration + 1
         /\ wasted' \in 0..MaxWasted
         /\ \/ last' = "answer" /\ calls' = <<>> /\ wasted' = wasted
            \/ last' = "empty" /\ calls' = <<>> /\ wasted' = wasted + 1
            \/ /\ last' = "calls" /\ calls' \in Seq(Tools) /\ ~GuidanceOnly
               /\ \/ wasted' = wasted + 1
                  \/ wasted' = wasted /\ Productive(calls') /\ kind # "none"
<1>1. wasted \in 0..MaxWasted /\ MaxWasted \in Nat /\ MaxCalls \in Nat
  BY LimitAssumption DEF TypeOK
<1>2. CASE Answer
  BY <1>1, <1>2 DEF Answer, Turn, searching
<1>3. CASE AnswerNothing
  BY <1>1, <1>3 DEF AnswerNothing, Turn, searching
<1>4. ASSUME NEW n \in 1..MaxCalls, NEW tools \in [1..n -> Tools], CallTools(tools)
      PROVE  /\ node = "agent_model" /\ node' = "observe_completion"
             /\ UNCHANGED <<kind, plan, batch, flags, saved, status, counted, session,
                            spent, failures>>
             /\ iteration' = iteration + 1
             /\ wasted' \in 0..MaxWasted
             /\ last' = "calls" /\ calls' \in Seq(Tools) /\ ~GuidanceOnly
             /\ \/ wasted' = wasted + 1
                \/ wasted' = wasted /\ Productive(calls') /\ kind # "none"
  <2> DEFINE waste == \A i \in DOMAIN tools : tools[i] \in Refused
  <2>1. /\ ~GuidanceOnly /\ (kind = "none" => waste) /\ (waste => wasted < MaxWasted)
        /\ Turn("calls", tools, waste)
    BY <1>4 DEF CallTools
  <2>2. ~waste => Productive(tools)
    BY DEF Productive
  <2>3. tools \in Seq(Tools)
    BY <1>1
  <2> HIDE DEF waste
  <2>4. QED
    BY <1>1, <2>1, <2>2, <2>3 DEF Turn, searching
<1>5. QED
  BY <1>2, <1>3, <1>4 DEF Turns

\* What a call leaves in flags and batch.
LEMMA ReportedFacts ==
  ASSUME flags \in Flags, NEW ok \in BOOLEAN, NEW sufficient \in BOOLEAN
  PROVE  /\ Reported(ok, sufficient) \in Flags
         /\ Reported(ok, sufficient).called /\ Reported(ok, sufficient).ok = ok
         /\ Reported(ok, sufficient).sufficient =
              (IF kind = "search" THEN sufficient ELSE flags.sufficient)
         /\ Reported(ok, sufficient).error = flags.error
         /\ Reported(ok, sufficient).asks = flags.asks
         /\ Reported(ok, sufficient).stop = flags.stop
BY DEF Reported, Flags

LEMMA SearchedFacts ==
  ASSUME batch \in Batch, NEW found \in BOOLEAN
  PROVE  Searched(found) \in Batch /\ Searched(found).stop = batch.stop
<1> DEFINE searched == batch.searched \/ kind = "search"
           new      == batch.found \/ found
<1>1. searched \in BOOLEAN /\ new \in BOOLEAN
  OBVIOUS
<1>2. Searched(found) = [batch EXCEPT !.searched = searched, !.found = new]
  BY DEF Searched
<1> HIDE DEF searched, new
<1>3. QED
  BY <1>1, <1>2 DEF Batch

LEMMA StopFacts ==
  ASSUME batch \in Batch, CallOther
  PROVE  /\ batch' \in Batch
         /\ batch.stop => batch'.stop
         /\ OutOfTurns => batch'.stop
<1>1. CASE batch.stop \/ OutOfTurns
  <2>1. batch' = [batch EXCEPT !.stop = TRUE]
    BY <1>1 DEF CallOther
  <2>2. QED
    BY <2>1 DEF Batch
<1>2. CASE ~batch.stop /\ ~OutOfTurns
  <2>1. batch' = [batch EXCEPT !.stop = FALSE]
    BY <1>2 DEF CallOther
  <2>2. QED
    BY <1>2, <2>1 DEF Batch
<1>3. QED
  BY <1>1, <1>2

\* A tool call takes one call off the message and leaves plan and node alone.
LEMMA ToolFacts ==
  ASSUME TypeOK, ToolSteps
  PROVE  /\ node = "execute_tools" /\ calls # <<>> /\ calls' = Tail(calls)
         /\ UNCHANGED <<node, kind, plan, last, iteration, wasted, status>>
         /\ flags' \in Flags
         /\ flags'.error = flags.error /\ flags'.asks = flags.asks
         /\ flags'.stop = flags.stop
         /\ flags.called \/ Head(calls) = "own" => flags'.called
         /\ batch' \in Batch
         /\ batch.stop => batch'.stop
         /\ Head(calls) \in {"own", "other"} => iteration < MaxIterations \/ batch'.stop
<1>1. flags \in Flags /\ batch \in Batch /\ iteration \in Nat
  BY DEF TypeOK
<1>2. OutOfTurns \/ iteration < MaxIterations
  BY <1>1, LimitAssumption DEF OutOfTurns
<1>3. CASE RefuseForeign
  BY <1>1, <1>3 DEF RefuseForeign, NextCall
<1>4. CASE RefuseStray
  <2>1. batch' \in Batch /\ batch'.stop = batch.stop
    BY <1>1, <1>4 DEF RefuseStray, Batch
  <2>2. /\ flags' \in Flags /\ flags'.error = flags.error /\ flags'.asks = flags.asks
        /\ flags'.stop = flags.stop /\ flags'.called = flags.called
    BY <1>1, <1>4 DEF RefuseStray, Flags
  <2>3. QED
    BY <1>4, <2>1, <2>2 DEF RefuseStray, NextCall
<1>5. CASE RefuseOwn
  <2>1. batch' \in Batch /\ batch'.stop
    BY <1>1, <1>5, SearchedFacts DEF RefuseOwn, Batch
  <2>2. flags' = Reported(FALSE, FALSE)
    BY <1>5 DEF RefuseOwn
  <2>3. QED
    BY <1>1, <1>5, <2>1, <2>2, ReportedFacts DEF RefuseOwn, NextCall
<1>6. CASE CallOther
  BY <1>1, <1>2, <1>6, StopFacts DEF CallOther, NextCall
<1>7. ASSUME NEW ok \in BOOLEAN, SaveDraft(ok)
      PROVE  /\ NextCall("own") /\ ~OutOfTurns /\ flags' = Reported(ok, FALSE)
             /\ batch' = batch
  BY <1>7 DEF SaveDraft
<1>8. ASSUME NEW request \in Requests, NEW n \in 0..MaxSourceCalls, SearchFails(request, n)
      PROVE  /\ NextCall("own") /\ ~OutOfTurns /\ flags' = Reported(FALSE, FALSE)
             /\ batch' = Searched(FALSE)
  BY <1>8 DEF SearchFails
<1>9. ASSUME NEW request \in Requests, NEW n \in 0..MaxSourceCalls,
             NEW found \in BOOLEAN, NEW sufficient \in BOOLEAN,
             Search(request, n, found, sufficient)
      PROVE  /\ NextCall("own") /\ ~OutOfTurns /\ flags' = Reported(TRUE, sufficient)
             /\ batch' = Searched(found)
  BY <1>9 DEF Search
<1>10. ASSUME NEW ok \in BOOLEAN, NEW found \in BOOLEAN, NEW sufficient \in BOOLEAN,
              NextCall("own"), ~OutOfTurns, flags' = Reported(ok, sufficient),
              batch' = batch \/ batch' = Searched(found)
       PROVE  /\ node = "execute_tools" /\ calls # <<>> /\ calls' = Tail(calls)
              /\ UNCHANGED <<node, kind, plan, last, iteration, wasted, status>>
              /\ flags' \in Flags
              /\ flags'.error = flags.error /\ flags'.asks = flags.asks
              /\ flags'.stop = flags.stop
              /\ flags'.called
              /\ batch' \in Batch
              /\ batch.stop => batch'.stop
              /\ iteration < MaxIterations
  BY <1>1, <1>2, <1>10, ReportedFacts, SearchedFacts DEF NextCall
<1>11. QED
  BY <1>3, <1>4, <1>5, <1>6, <1>7, <1>8, <1>9, <1>10 DEF ToolSteps

\* A refused call at the head is not what makes a message productive.
LEMMA ProductiveTail ==
  ASSUME calls \in Seq(Tools), calls # <<>>, Productive(calls), Head(calls) \in Refused
  PROVE  Productive(Tail(calls))
<1>1. PICK i \in 1..Len(calls) : calls[i] \notin Refused
  BY DEF Productive
<1>2. i # 1 /\ Head(calls) = calls[1]
  BY <1>1
<1>3. i - 1 \in 1..Len(Tail(calls)) /\ Tail(calls)[i - 1] = calls[i]
  BY <1>1, <1>2
<1>4. i - 1 \in DOMAIN Tail(calls)
  BY <1>3
<1>5. QED
  BY <1>1, <1>3, <1>4 DEF Productive

(***************************************************************************)
(* Type correctness.                                                       *)
(***************************************************************************)

\* A run starts well typed.
LEMMA InitType == Init => TypeOK
BY LimitAssumption DEF Init, TypeOK, Nodes, Plan, NoPlan, Open, Terminal, Messages, Batch,
   NewBatch, Flags, NoFlags, Session

\* A search leaves a session with a budget that is not negative.
LEMMA ReserveType ==
  ASSUME TypeOK, NEW request \in Requests, NEW n \in 0..MaxSourceCalls, ~OutOfSources,
         kind = "search", Reserve(request, n)
  PROVE  session' \in Session /\ spent' \in Nat /\ spent' = spent + n
<1>1. SessionFor(request) \in Session
  BY LimitAssumption DEF SessionFor, OutOfSources, TypeOK, Session
<1> DEFINE latest == SessionFor(request)
<1>2. n <= latest.remaining /\ session' = [latest EXCEPT !.remaining = latest.remaining - n]
      /\ spent' = spent + n
  BY DEF Reserve, Available
<1> HIDE DEF latest
<1>3. session' \in Session
  BY <1>1, <1>2, LimitAssumption DEF Session, latest
<1>4. QED
  BY <1>2, <1>3, LimitAssumption DEF TypeOK

\* No call spoils a counter or the session.
LEMMA ToolType ==
  ASSUME TypeOK, ToolSteps
  PROVE  /\ counted' \in Nat /\ session' \in Session /\ spent' \in Nat /\ saved' \in Nat
         /\ failures' \in 0..MaxFailures
<1> USE LimitAssumption DEF TypeOK
<1>1. CASE RefuseForeign \/ RefuseStray \/ RefuseOwn \/ CallOther
  BY <1>1 DEF RefuseForeign, RefuseStray, RefuseOwn, CallOther, searching
<1>2. CASE \E ok \in BOOLEAN : SaveDraft(ok)
  BY <1>2 DEF SaveDraft, searching
<1>3. ASSUME NEW request \in Requests, NEW n \in 0..MaxSourceCalls, SearchFails(request, n)
      PROVE  /\ counted' \in Nat /\ session' \in Session /\ spent' \in Nat /\ saved' \in Nat
             /\ failures' \in 0..MaxFailures
  <2>1. session' \in Session /\ spent' \in Nat
    BY <1>3, ReserveType DEF SearchFails
  <2>2. QED
    BY <1>3, <2>1 DEF SearchFails
<1>4. ASSUME NEW request \in Requests, NEW n \in 0..MaxSourceCalls,
             NEW found \in BOOLEAN, NEW sufficient \in BOOLEAN,
             Search(request, n, found, sufficient)
      PROVE  /\ counted' \in Nat /\ session' \in Session /\ spent' \in Nat /\ saved' \in Nat
             /\ failures' \in 0..MaxFailures
  <2>1. session' \in Session /\ spent' \in Nat
    BY <1>4, ReserveType DEF Search
  <2>2. QED
    BY <1>4, <2>1 DEF Search
<1>5. QED
  BY <1>1, <1>2, <1>3, <1>4 DEF ToolSteps

\* After the last call: nothing but the three fields of ToolsDone changes in flags.
LEMMA DoneFacts ==
  ASSUME TypeOK, ToolsDone
  PROVE  /\ flags' \in Flags
         /\ flags'.called = flags.called /\ flags'.ok = flags.ok
         /\ flags'.sufficient = flags.sufficient
         /\ flags'.error = flags.error /\ flags'.asks = flags.asks
         /\ batch.stop => flags'.stop
<1> DEFINE barren == IF ~batch.searched THEN flags.barren
                     ELSE IF batch.found THEN 0 ELSE flags.barren + 1
           stop == \/ batch.stop \/ counted >= MaxSourceCalls
                   \/ barren >= NoNewStop \/ flags.sufficient
           partial == stop /\ ~flags.sufficient
<1>1. barren \in Nat
  BY DEF TypeOK, Flags
<1>2. stop \in BOOLEAN /\ partial \in BOOLEAN
  OBVIOUS
<1>3. batch.stop => stop = TRUE
  OBVIOUS
<1>4. flags' = [flags EXCEPT !.barren = barren, !.stop = stop, !.partial = partial]
  BY DEF ToolsDone
<1>5. flags \in Flags
  BY DEF TypeOK
<1> HIDE DEF barren, stop, partial
<1>6. QED
  BY <1>1, <1>2, <1>3, <1>4, <1>5 DEF Flags

\* The plan and the node after observe_completion.
LEMMA ObservedPlan ==
  ASSUME TypeOK, Observe
  PROVE  /\ plan' = [action |-> ActionStatus, guidance |-> GuidanceStatus]
         /\ plan'.action = ActionStatus /\ plan'.guidance = GuidanceStatus
         /\ ActionStatus \in {"none"} \cup Open \cup Terminal
         /\ GuidanceStatus \in {"none"} \cup Open \cup Terminal
         /\ node' = Route(plan')
BY DEF Observe, TypeOK, Plan, ActionStatus, Judged, GuidanceStatus, Open, Terminal

\* Every step keeps the types.
LEMMA TypeStep ==
  ASSUME TypeOK, [Next]_vars
  PROVE  TypeOK'
<1> USE DEF TypeOK
<1>1. CASE InitializeRun
  BY <1>1 DEF InitializeRun, loop, searching, Nodes
<1>2. CASE Clarify
  BY <1>2 DEF Clarify, loop, searching, Nodes, Flags
<1>3. CASE Classifies
  BY <1>3 DEF Classifies, Classify, loop, searching, Nodes, Plan, Open
<1>4. CASE Prepare
  BY <1>4 DEF Prepare, loop, searching, Nodes, Plan, Open
<1>5. CASE PlanAction
  <2>1. <<"own">> \in Seq(Tools)
    BY DEF Tools
  <2>2. QED
    BY <1>5, <2>1 DEF PlanAction, searching, Nodes, Messages, Flags
<1>6. CASE Turns
  <2>1. <<>> \in Seq(Tools)
    OBVIOUS
  <2>2. last' \in Messages /\ calls' \in Seq(Tools)
    BY <1>6, <2>1, TurnFacts DEF Messages
  <2>3. QED
    BY <1>6, <2>2, TurnFacts DEF Nodes
<1>7. CASE ModelFails
  BY <1>7 DEF ModelFails, loop, searching, Nodes, Flags
<1>8. CASE ToolSteps
  <2>1. calls' \in Seq(Tools)
    BY <1>8, ToolFacts
  <2>2. QED
    BY <1>8, <2>1, ToolFacts, ToolType
<1>9. CASE ToolsDone
  <2>1. last' \in Messages /\ batch' \in Batch
    BY <1>9 DEF ToolsDone, ResultsLast, Messages, Batch, NewBatch
  <2>2. flags' \in Flags
    BY <1>9, DoneFacts
  <2>3. QED
    BY <1>9, <2>1, <2>2 DEF ToolsDone, searching, Nodes
<1>10. CASE Observe
  <2>1. plan' \in Plan
    BY <1>10, ObservedPlan DEF Plan
  <2>2. node' \in Nodes
    BY <1>10, ObservedPlan DEF Route, Nodes
  <2>3. QED
    BY <1>10, <2>1, <2>2 DEF Observe, loop, searching
<1>11. CASE Finalize
  BY <1>11 DEF Finalize, loop, searching, Nodes, Plan, Closed, Open, Terminal, RunStatus
<1>12. CASE Raise
  BY <1>12 DEF Raise, loop, searching, Nodes
<1>13. CASE UNCHANGED vars
  BY <1>13 DEF vars
<1>14. QED
  BY <1>1, <1>2, <1>3, <1>4, <1>5, <1>6, <1>7, <1>8, <1>9, <1>10, <1>11, <1>12, <1>13, StepCases

\* In particular the rest of a session's budget is never negative: a reservation takes no
\* more than what is left (reserve_search_source_calls).
THEOREM TypeCorrect == Spec => []TypeOK
<1>1. Init => TypeOK
  BY InitType
<1>2. TypeOK /\ [Next]_vars => TypeOK'
  BY TypeStep
<1>3. QED
  BY <1>1, <1>2, PTL DEF Spec

(***************************************************************************)
(* What observe_completion decides.                                        *)
(***************************************************************************)

\* How the action is judged: what stays open was called and has not delivered.
LEMMA ActionFacts ==
  ASSUME TypeOK, ActionIsPursued, node = "observe_completion"
  PROVE  /\ plan.action \notin Open => ActionStatus = plan.action
         /\ ActionStatus \in Open =>
              /\ plan.action \in Open /\ ~flags.error /\ ~flags.asks
              /\ Undone /\ last # "answer"
         /\ plan.action \in Open /\ last = "calls" /\ ~flags.error /\ ~flags.asks =>
              ActionStatus = plan.action
         /\ ActionStatus = "completed" => plan.action = "completed" \/ Delivered
         /\ ActionStatus = "partial" => plan.action = "partial" \/ ~flags.asks
         /\ ActionStatus = "blocked" => plan.action = "blocked" \/ flags.error \/ flags.asks
         /\ ActionStatus = "none" <=> plan.action = "none"
         /\ plan.action \in Open /\ (flags.error \/ flags.asks) => ActionStatus = "blocked"
<1>1. CASE plan.action \notin Open
  BY <1>1 DEF ActionStatus, Open
<1>2. CASE plan.action \in Open
  <2>1. flags.called \/ flags.asks
    BY <1>2 DEF ActionIsPursued
  <2>2. last = "calls" => Undone
    BY <1>2 DEF ActionIsPursued
  <2>3. ActionStatus = Judged
    BY <1>2 DEF ActionStatus
  <2>4. QED
    BY <1>2, <2>1, <2>2, <2>3 DEF Judged, Undone, Open
<1>3. QED
  BY <1>1, <1>2

\* How the guidance is judged: only an answer completes it.
LEMMA GuidanceFacts ==
  ASSUME TypeOK
  PROVE  /\ plan.guidance \notin Open => GuidanceStatus = plan.guidance
         /\ GuidanceStatus \in Open =>
              plan.guidance \in Open /\ last # "answer" /\ ~flags.error /\ ~flags.asks
         /\ last = "calls" /\ ~flags.error /\ ~flags.asks => GuidanceStatus = plan.guidance
         /\ GuidanceStatus = "partial" => plan.guidance = "partial"
         /\ GuidanceStatus = "blocked" => plan.guidance = "blocked" \/ flags.error \/ flags.asks
         /\ GuidanceStatus = "none" <=> plan.guidance = "none"
         /\ plan.guidance \in Open /\ (flags.error \/ flags.asks) /\ last # "answer" =>
              GuidanceStatus = "blocked"
BY DEF GuidanceStatus, Open

\* Where it leads: plan_action only ever comes before the first call.
LEMMA RouteFacts ==
  ASSUME TypeOK, PlanFitsNode, BlocksHaveReasons, ActionIsPursued, Observe
  PROVE  /\ node = "observe_completion" /\ HasWork
         /\ UNCHANGED <<kind, flags, status, loop, searching>>
         /\ plan'.action = ActionStatus /\ plan'.guidance = GuidanceStatus
         /\ \/ /\ node' = "execute_tools" /\ last = "calls" /\ plan' = plan
               /\ ~flags.error /\ ~flags.asks
            \/ /\ node' = "agent_model" /\ last \notin {"calls", "answer"} /\ HasWork'
               /\ ~flags.error /\ ~flags.asks
            \/ /\ node' = "finalize" /\ last # "calls" /\ ~HasWork'
<1>1. node = "observe_completion" /\ UNCHANGED <<kind, flags, status, loop, searching>>
  BY DEF Observe
<1>2. HasWork
  BY <1>1 DEF PlanFitsNode, Working
<1>3. plan' = [action |-> ActionStatus, guidance |-> GuidanceStatus]
      /\ plan'.action = ActionStatus /\ plan'.guidance = GuidanceStatus /\ node' = Route(plan')
  BY ObservedPlan
<1>4. CASE last = "calls"
  <2>1. ~flags.error /\ ~flags.asks
    BY <1>1, <1>4 DEF BlocksHaveReasons
  <2>2. ActionStatus = plan.action /\ GuidanceStatus = plan.guidance
    BY <1>1, <1>4, <2>1, ActionFacts, GuidanceFacts
  <2>3. plan' = plan
    BY <1>3, <2>2 DEF TypeOK, Plan
  <2>4. node' = "execute_tools"
    BY <1>3, <1>4 DEF Route
  <2>5. QED
    BY <1>1, <1>2, <1>3, <1>4, <2>1, <2>3, <2>4
<1>5. CASE last # "calls" /\ (flags.error \/ flags.asks)
  <2>1. last # "answer"
    BY <1>1, <1>5 DEF BlocksHaveReasons
  <2>2. ActionStatus \notin Open /\ GuidanceStatus \notin Open
    BY <1>1, <1>5, <2>1, ActionFacts, GuidanceFacts DEF Open
  <2>3. node' = "finalize"
    BY <1>3, <1>5 DEF Route
  <2>4. QED
    BY <1>1, <1>2, <1>3, <1>5, <2>2, <2>3 DEF HasWork
<1>6. CASE last # "calls" /\ ~flags.error /\ ~flags.asks
  <2>1. ActionStatus \in Open => flags.called /\ last # "answer"
    BY <1>1, ActionFacts DEF Undone
  <2>2. GuidanceStatus \in Open => last # "answer"
    BY GuidanceFacts
  <2>3. CASE ActionStatus \in Open \/ GuidanceStatus \in Open
    <3>1. node' = "agent_model"
      BY <1>3, <1>6, <2>1, <2>3 DEF Route
    <3>2. QED
      BY <1>1, <1>2, <1>3, <1>6, <2>1, <2>2, <2>3, <3>1 DEF HasWork
  <2>4. CASE ActionStatus \notin Open /\ GuidanceStatus \notin Open
    <3>1. node' = "finalize"
      BY <1>3, <1>6, <2>4 DEF Route
    <3>2. QED
      BY <1>1, <1>2, <1>3, <1>6, <2>4, <3>1 DEF HasWork
  <2>5. QED
    BY <2>3, <2>4
<1>7. QED
  BY <1>4, <1>5, <1>6

(***************************************************************************)
(* Every part of the invariant is preserved.                               *)
(***************************************************************************)

\* The plan fits the node again after every step.
LEMMA PlanStep ==
  ASSUME IInv, [Next]_vars
  PROVE  PlanFitsNode'
<1> USE DEF PlanFitsNode, HasWork, Open
<1>0. TypeOK /\ PlanFitsNode
  BY DEF IInv
<1>1. CASE InitializeRun
  BY <1>0, <1>1 DEF InitializeRun, Working
<1>2. CASE Clarify
  <2>1. flags'.asks
    BY <1>0, <1>2 DEF Clarify, TypeOK, Flags
  <2>2. QED
    BY <1>0, <1>2, <2>1 DEF Clarify, Working, NoPlan
<1>3. CASE Classifies
  BY <1>0, <1>3 DEF Classifies, Classify, Working
<1>4. CASE Prepare
  BY <1>0, <1>4 DEF Prepare, Working, TypeOK, Plan
<1>5. CASE PlanAction
  BY <1>0, <1>5 DEF PlanAction, Working
<1>6. CASE Turns
  BY <1>0, <1>6, TurnFacts DEF Working
<1>7. CASE ModelFails
  BY <1>0, <1>7 DEF ModelFails, Working
<1>8. CASE ToolSteps
  BY <1>0, <1>8, ToolFacts DEF Working
<1>9. CASE ToolsDone
  BY <1>0, <1>9 DEF ToolsDone, Working
<1>10. CASE Observe
  <2>1. TypeOK /\ PlanFitsNode /\ BlocksHaveReasons /\ ActionIsPursued
    BY DEF IInv
  <2>2. ActionStatus = "none" <=> plan.action = "none"
    BY <1>10, <2>1, ActionFacts, RouteFacts
  <2>3. (GuidanceStatus = "none" <=> plan.guidance = "none") /\ GuidanceStatus # "partial"
    BY <2>1, GuidanceFacts
  <2> HIDE DEF Open
  <2>4. /\ HasWork /\ kind' = kind
        /\ plan'.action = ActionStatus /\ plan'.guidance = GuidanceStatus
        /\ \/ node' \in {"execute_tools", "agent_model"} /\ HasWork'
           \/ node' = "finalize" /\ ~HasWork'
    BY <1>10, <2>1, RouteFacts
  <2>5. plan.action # "none" \/ plan.guidance # "none"
    BY <2>4 DEF Open
  <2>6. Tasks' # {"none"}
    BY <2>2, <2>3, <2>4, <2>5 DEF Tasks
  <2>7. QED
    BY <2>1, <2>2, <2>3, <2>4, <2>6 DEF Working
<1>11. CASE Finalize
  BY <1>0, <1>11 DEF Finalize, Working, Closed, TypeOK, Plan, Terminal
<1>12. CASE Raise
  BY <1>0, <1>12 DEF Raise, Working
<1>13. CASE UNCHANGED vars
  BY <1>0, <1>13 DEF vars, Tasks
<1>14. QED
  BY <1>1, <1>2, <1>3, <1>4, <1>5, <1>6, <1>7, <1>8, <1>9, <1>10, <1>11, <1>12, <1>13, StepCases

\* So does the last message.
LEMMA MessageStep ==
  ASSUME IInv, [Next]_vars
  PROVE  MessageFitsNode'
<1> USE DEF MessageFitsNode, Start
<1>0. TypeOK /\ MessageFitsNode /\ PlanFitsNode
  BY DEF IInv
<1>1. CASE InitializeRun
  BY <1>0, <1>1 DEF InitializeRun, loop
<1>2. CASE Clarify
  BY <1>0, <1>2 DEF Clarify
<1>3. CASE Classifies
  BY <1>0, <1>3 DEF Classifies, Classify, loop
<1>4. CASE Prepare
  BY <1>0, <1>4 DEF Prepare, loop
<1>5. CASE PlanAction
  BY <1>0, <1>5 DEF PlanAction, TypeOK, Flags
<1>6. CASE Turns
  BY <1>0, <1>6, TurnFacts
<1>7. CASE ModelFails
  BY <1>0, <1>7 DEF ModelFails, TypeOK, Flags
<1>8. CASE ToolSteps
  BY <1>0, <1>8, ToolFacts
<1>9. CASE ToolsDone
  BY <1>0, <1>9 DEF ToolsDone, ResultsLast
<1>10. CASE Observe
  <2>1. TypeOK /\ PlanFitsNode /\ BlocksHaveReasons /\ ActionIsPursued
    BY DEF IInv
  <2>2. QED
    BY <1>10, <2>1, RouteFacts DEF loop
<1>11. CASE Finalize
  BY <1>0, <1>11 DEF Finalize
<1>12. CASE Raise
  BY <1>0, <1>12 DEF Raise
<1>13. CASE UNCHANGED vars
  BY <1>0, <1>13 DEF vars
<1>14. QED
  BY <1>1, <1>2, <1>3, <1>4, <1>5, <1>6, <1>7, <1>8, <1>9, <1>10, <1>11, <1>12, <1>13, StepCases

\* No step blocks a task without an error or a question, or drops one of them.
LEMMA ReasonStep ==
  ASSUME IInv, [Next]_vars
  PROVE  BlocksHaveReasons'
<1> USE DEF BlocksHaveReasons
<1>0. TypeOK /\ BlocksHaveReasons /\ PlanFitsNode /\ MessageFitsNode /\ ActionIsPursued
  BY DEF IInv
<1>1. CASE InitializeRun
  BY <1>0, <1>1 DEF InitializeRun, Tasks
<1>2. CASE Clarify
  <2>1. flags'.asks /\ plan = NoPlan /\ plan' = plan
    BY <1>0, <1>2 DEF Clarify, TypeOK, Flags, PlanFitsNode
  <2>2. QED
    BY <1>2, <2>1 DEF Clarify, Failed, Tasks, NoPlan
<1>3. CASE Classifies
  BY <1>0, <1>3 DEF Classifies, Classify, Tasks
<1>4. CASE Prepare
  <2>1. flags = NoFlags /\ flags' = flags /\ node' \in {"plan_action", "agent_model"}
    BY <1>0, <1>4 DEF Prepare, MessageFitsNode, Start
  <2>2. plan.action \in {"none", "pending"} /\ plan.guidance \notin {"blocked"}
    BY <1>0, <1>4, <2>1 DEF Prepare, PlanFitsNode, Tasks, NoFlags
  <2>3. "blocked" \notin Tasks' /\ plan'.action # "partial"
    BY <1>0, <1>4, <2>2 DEF Prepare, Tasks, TypeOK, Plan
  <2>4. QED
    BY <2>1, <2>3 DEF NoFlags
<1>5. CASE PlanAction
  <2>1. flags = NoFlags /\ last = "none" /\ plan' = plan /\ plan.action \in Open
    BY <1>0, <1>5 DEF PlanAction, MessageFitsNode, Start, PlanFitsNode
  <2>2. "blocked" \notin Tasks
    BY <1>0, <2>1 DEF NoFlags
  <2>3. CASE node' = "execute_tools"
    BY <1>5, <2>1, <2>2, <2>3 DEF PlanAction, Tasks, NoFlags, Open
  <2>4. CASE node' = "observe_completion" /\ last' = last
    BY <1>5, <2>1, <2>2, <2>4 DEF PlanAction, Tasks, Open
  <2>5. QED
    BY <1>5, <2>3, <2>4 DEF PlanAction
<1>6. CASE Turns
  BY <1>0, <1>6, TurnFacts DEF Tasks
<1>7. CASE ModelFails
  <2>1. /\ node = "agent_model" /\ node' = "observe_completion" /\ last' = last /\ plan' = plan
        /\ flags'.asks = flags.asks /\ last \notin {"calls", "answer"} /\ flags'.error
    BY <1>0, <1>7 DEF ModelFails, loop, TypeOK, Flags, MessageFitsNode
  <2>2. QED
    BY <1>0, <2>1 DEF Tasks
<1>8. CASE ToolSteps
  BY <1>0, <1>8, ToolFacts DEF Tasks
<1>9. CASE ToolsDone
  <2>1. flags'.error = flags.error /\ flags'.asks = flags.asks
    BY <1>0, <1>9, DoneFacts
  <2>2. QED
    BY <1>0, <1>9, <2>1 DEF ToolsDone, ResultsLast, Tasks
<1>10. CASE Observe
  <2>1. /\ node = "observe_completion" /\ HasWork /\ flags' = flags /\ last' = last
        /\ plan'.action = ActionStatus /\ plan'.guidance = GuidanceStatus
        /\ \/ node' \in {"execute_tools", "agent_model"} /\ ~flags.error /\ ~flags.asks
           \/ node' = "finalize"
    BY <1>0, <1>10, RouteFacts DEF loop
  <2>2. "blocked" \in Tasks' => flags.error \/ flags.asks
    BY <1>0, <2>1, ActionFacts, GuidanceFacts DEF Tasks
  <2>3. ActionStatus = "partial" => ~flags.asks
    BY <1>0, <2>1, ActionFacts
  <2>4. flags.error \/ flags.asks => "blocked" \in Tasks'
    BY <1>0, <2>1, ActionFacts, GuidanceFacts DEF Tasks, HasWork
  <2>5. QED
    BY <2>1, <2>2, <2>3, <2>4 DEF Failed
<1>11. CASE Finalize
  <2>1. plan' = plan
    BY <1>0, <1>11 DEF Finalize, PlanFitsNode, HasWork, Closed, TypeOK, Plan
  <2>2. QED
    BY <1>0, <1>11, <2>1 DEF Finalize, Tasks
<1>12. CASE Raise
  BY <1>0, <1>12 DEF Raise, Tasks
<1>13. CASE UNCHANGED vars
  BY <1>0, <1>13 DEF vars, Tasks, Failed
<1>14. QED
  BY <1>1, <1>2, <1>3, <1>4, <1>5, <1>6, <1>7, <1>8, <1>9, <1>10, <1>11, <1>12, <1>13, StepCases

\* No step runs a tool for an action that is done.
LEMMA PursuitStep ==
  ASSUME IInv, [Next]_vars
  PROVE  ActionIsPursued'
<1> USE DEF ActionIsPursued
<1>0. TypeOK /\ BlocksHaveReasons /\ PlanFitsNode /\ MessageFitsNode /\ ActionIsPursued
  BY DEF IInv
<1>1. CASE InitializeRun
  BY <1>0, <1>1 DEF InitializeRun
<1>2. CASE Clarify
  BY <1>0, <1>2 DEF Clarify
<1>3. CASE Classifies
  BY <1>0, <1>3 DEF Classifies, Classify
<1>4. CASE Prepare
  <2>1. node' = "agent_model" => plan'.action = "none"
    BY <1>0, <1>4 DEF Prepare, PlanFitsNode, TypeOK, Plan
  <2>2. node' \in {"agent_model", "plan_action"}
    BY <1>4 DEF Prepare
  <2>3. QED
    BY <2>1, <2>2 DEF Open
<1>5. CASE PlanAction
  <2>1. plan' = plan /\ plan.action \in Open /\ last # "calls"
    BY <1>0, <1>5 DEF PlanAction, PlanFitsNode, MessageFitsNode, Start
  <2>2. CASE node' = "execute_tools" /\ calls' = <<"own">>
    BY <2>1, <2>2 DEF Open, Terminal
  <2>3. CASE node' = "observe_completion" /\ last' = last /\ flags'.asks
    BY <2>1, <2>3 DEF Open, Terminal
  <2>4. QED
    BY <1>0, <1>5, <2>2, <2>3 DEF PlanAction, TypeOK, Flags
<1>6. CASE Turns
  <2>1. /\ node = "agent_model" /\ node' = "observe_completion"
        /\ UNCHANGED <<kind, plan, flags>>
        /\ last' = "calls" => ~GuidanceOnly
    BY <1>0, <1>6, TurnFacts
  <2>2. HasWork
    BY <1>0, <2>1 DEF PlanFitsNode, Working
  <2>3. plan.action \in Terminal => last' # "calls"
    BY <2>1, <2>2 DEF GuidanceOnly, HasWork, Open, Terminal
  <2>4. plan.action \in Open => Undone /\ Undone'
    BY <1>0, <2>1 DEF Undone, Delivered
  <2>5. QED
    BY <2>1, <2>3, <2>4 DEF Undone
<1>7. CASE ModelFails
  <2>1. /\ node = "agent_model" /\ node' = "observe_completion" /\ last' = last
        /\ last # "calls" /\ plan' = plan /\ flags'.called = flags.called
    BY <1>0, <1>7 DEF ModelFails, loop, TypeOK, Flags, MessageFitsNode
  <2>2. QED
    BY <1>0, <2>1 DEF Undone
<1>8. CASE ToolSteps
  <2>1. /\ node = "execute_tools" /\ node' = node /\ plan' = plan
        /\ flags.called => flags'.called
        /\ Head(calls) = "own" => flags'.called
    BY <1>0, <1>8, ToolFacts
  <2>2. calls = <<"own">> => Head(calls) = "own"
    OBVIOUS
  <2>3. QED
    BY <1>0, <2>1, <2>2
<1>9. CASE ToolsDone
  <2>1. /\ node = "execute_tools" /\ node' = "observe_completion" /\ plan' = plan
        /\ calls # <<"own">> /\ last' # "calls"
    BY <1>9 DEF ToolsDone, ResultsLast
  <2>2. flags'.called = flags.called
    BY <1>0, <1>9, DoneFacts
  <2>3. QED
    BY <1>0, <2>1, <2>2
<1>10. CASE Observe
  <2>1. /\ node = "observe_completion" /\ UNCHANGED <<kind, flags>>
        /\ plan'.action = ActionStatus
        /\ \/ node' = "execute_tools" /\ last = "calls" /\ plan' = plan
           \/ node' \in {"agent_model", "finalize"}
    BY <1>0, <1>10, RouteFacts
  <2>2. ActionStatus \in Open => Undone /\ Undone'
    BY <1>0, <2>1, ActionFacts DEF Undone, Delivered
  <2>3. QED
    BY <1>0, <2>1, <2>2 DEF Undone
<1>11. CASE Finalize
  BY <1>0, <1>11 DEF Finalize
<1>12. CASE Raise
  BY <1>0, <1>12 DEF Raise
<1>13. CASE UNCHANGED vars
  BY <1>0, <1>13 DEF vars, Undone, Delivered
<1>14. QED
  BY <1>1, <1>2, <1>3, <1>4, <1>5, <1>6, <1>7, <1>8, <1>9, <1>10, <1>11, <1>12, <1>13, StepCases

\* What a search reserves it reserves for its request.
LEMMA ReserveFacts ==
  ASSUME TypeOK, NEW request \in Requests, NEW n \in 0..MaxSourceCalls, ~OutOfSources,
         kind = "search", Reserve(request, n)
  PROVE  /\ session'.request = request /\ spent' = spent + n
         /\ \/ session'.remaining = session.remaining - n
            \/ session'.remaining = MaxSourceCalls - counted - n
<1> DEFINE latest == SessionFor(request)
<1>1. /\ latest \in Session /\ latest.request = request
      /\ latest.remaining = session.remaining \/ latest.remaining = MaxSourceCalls - counted
  BY LimitAssumption DEF SessionFor, OutOfSources, TypeOK, Session
<1>2. session' = [latest EXCEPT !.remaining = latest.remaining - n] /\ spent' = spent + n
  BY DEF Reserve
<1> HIDE DEF latest
<1>3. QED
  BY <1>1, <1>2, LimitAssumption DEF Session

\* A delivery stays: no later call takes it back.
LEMMA DeliveryStep ==
  ASSUME IInv, [Next]_vars
  PROVE  DeliveriesExist'
<1> USE DEF DeliveriesExist, Delivered
<1>0. TypeOK /\ PlanFitsNode /\ MessageFitsNode /\ ActionIsPursued /\ DeliveriesExist
  BY DEF IInv
<1>1. CASE InitializeRun
  BY <1>0, <1>1 DEF InitializeRun, loop, searching
<1>2. CASE Clarify
  BY <1>0, <1>2 DEF Clarify, loop, searching, TypeOK, Flags
<1>3. CASE Classifies
  <2>1. flags = NoFlags /\ flags' = flags /\ plan'.action \in {"none", "pending"}
    BY <1>0, <1>3 DEF Classifies, Classify, MessageFitsNode, Start
  <2>2. QED
    BY <2>1 DEF NoFlags
<1>4. CASE Prepare
  BY <1>0, <1>4 DEF Prepare, loop, searching, TypeOK, Plan
<1>5. CASE PlanAction
  BY <1>0, <1>5 DEF PlanAction, searching, TypeOK, Flags
<1>6. CASE Turns
  BY <1>0, <1>6, TurnFacts
<1>7. CASE ModelFails
  BY <1>0, <1>7 DEF ModelFails, loop, searching, TypeOK, Flags
<1>8. CASE ToolSteps
  <2>1. kind' = kind /\ plan' = plan /\ plan.action # "completed"
    BY <1>0, <1>8, ToolFacts DEF ActionIsPursued, Terminal
  <2>2. flags \in Flags /\ saved \in Nat
    BY <1>0 DEF TypeOK
  <2>3. CASE RefuseForeign \/ CallOther
    BY <1>0, <2>1, <2>3 DEF RefuseForeign, CallOther, searching
  <2>4. CASE RefuseStray
    BY <1>0, <2>1, <2>2, <2>4 DEF RefuseStray, searching, Flags
  <2>5. CASE RefuseOwn
    BY <1>0, <2>1, <2>2, <2>5, ReportedFacts DEF RefuseOwn
  <2>6. ASSUME NEW ok \in BOOLEAN, SaveDraft(ok)
        PROVE  DeliveriesExist'
    <3>1. kind = "draft" /\ flags' = Reported(ok, FALSE)
      BY <2>6 DEF SaveDraft
    <3>2. flags'.ok = ok
      BY <2>2, <3>1, ReportedFacts
    <3>3. ok => saved' > 0
      BY <2>2, <2>6 DEF SaveDraft
    <3>4. QED
      BY <2>1, <3>1, <3>2, <3>3
  <2>7. ASSUME NEW request \in Requests, NEW n \in 0..MaxSourceCalls, SearchFails(request, n)
        PROVE  DeliveriesExist'
    BY <2>1, <2>2, <2>7, ReportedFacts DEF SearchFails
  <2>8. ASSUME NEW request \in Requests, NEW n \in 0..MaxSourceCalls,
               NEW found \in BOOLEAN, NEW sufficient \in BOOLEAN,
               Search(request, n, found, sufficient)
        PROVE  DeliveriesExist'
    <3>1. session'.request = request /\ kind = "search"
      BY <1>0, <2>8, ReserveFacts DEF Search
    <3>2. QED
      BY <2>1, <3>1, NoneAssumption
  <2>9. QED
    BY <1>8, <2>3, <2>4, <2>5, <2>6, <2>7, <2>8 DEF ToolSteps
<1>9. CASE ToolsDone
  <2>1. flags'.ok = flags.ok /\ flags'.sufficient = flags.sufficient
    BY <1>0, <1>9, DoneFacts
  <2>2. QED
    BY <1>0, <1>9, <2>1 DEF ToolsDone, searching
<1>10. CASE Observe
  <2>1. BlocksHaveReasons
    BY DEF IInv
  <2>2. /\ UNCHANGED <<kind, flags, saved, session>> /\ plan'.action = ActionStatus
        /\ node = "observe_completion"
    BY <1>0, <1>10, <2>1, RouteFacts DEF loop, searching
  <2>3. ActionStatus = "completed" => Delivered
    BY <1>0, <2>2, ActionFacts
  <2>4. QED
    BY <1>0, <2>2, <2>3
<1>11. CASE Finalize
  BY <1>0, <1>11 DEF Finalize, loop, searching, Closed, Open
<1>12. CASE Raise
  BY <1>0, <1>12 DEF Raise, loop, searching
<1>13. CASE UNCHANGED vars
  BY <1>0, <1>13 DEF vars
<1>14. QED
  BY <1>1, <1>2, <1>3, <1>4, <1>5, <1>6, <1>7, <1>8, <1>9, <1>10, <1>11, <1>12, <1>13, StepCases

\* A search moves calls from the session to the count; a failed one only spends them.
LEMMA SourcesStep ==
  ASSUME TypeOK, SourcesAreCounted, [Next]_vars
  PROVE  SourcesAreCounted'
<1> USE LimitAssumption DEF SourcesAreCounted
<1>1. /\ counted \in Nat /\ spent \in Nat /\ failures \in Nat
      /\ session.remaining \in Nat
  BY DEF TypeOK, Session
<1>2. CASE UNCHANGED searching
  BY <1>2 DEF searching
<1>3. ASSUME NEW request \in Requests, NEW n \in 0..MaxSourceCalls, SearchFails(request, n)
      PROVE  SourcesAreCounted'
  <2>1. /\ spent' = spent + n
        /\ \/ session'.remaining = session.remaining - n
           \/ session'.remaining = MaxSourceCalls - counted - n
    BY <1>3, ReserveFacts DEF SearchFails
  <2>2. counted' = counted /\ failures' = failures + 1
    BY <1>3 DEF SearchFails
  <2>3. MaxSourceCalls * (failures + 1) = MaxSourceCalls * failures + MaxSourceCalls
    BY <1>1
  <2>4. MaxSourceCalls * failures \in Nat
    BY <1>1
  <2>5. QED
    BY <1>1, <2>1, <2>2, <2>3, <2>4
<1>4. ASSUME NEW request \in Requests, NEW n \in 0..MaxSourceCalls,
             NEW found \in BOOLEAN, NEW sufficient \in BOOLEAN,
             Search(request, n, found, sufficient)
      PROVE  SourcesAreCounted'
  <2>1. /\ spent' = spent + n
        /\ \/ session'.remaining = session.remaining - n
           \/ session'.remaining = MaxSourceCalls - counted - n
    BY <1>4, ReserveFacts DEF Search
  <2>2. counted' = counted + n /\ failures' = failures
    BY <1>4 DEF Search
  <2>3. MaxSourceCalls * failures \in Nat
    BY <1>1
  <2>4. QED
    BY <1>1, <2>1, <2>2, <2>3
<1>5. CASE ToolSteps
  <2>1. \/ UNCHANGED searching
        \/ \E request \in Requests, n \in 0..MaxSourceCalls :
             \/ SearchFails(request, n)
             \/ \E found, sufficient \in BOOLEAN : Search(request, n, found, sufficient)
    BY <1>5 DEF ToolSteps, RefuseForeign, RefuseStray, RefuseOwn, CallOther, SaveDraft
  <2>2. QED
    BY <1>2, <1>3, <1>4, <2>1
<1>6. CASE Turns
  BY <1>2, <1>6, TurnFacts DEF searching
<1>7. CASE InitializeRun \/ Clarify \/ Classifies \/ Prepare \/ PlanAction
  BY <1>2, <1>7 DEF InitializeRun, Clarify, Classifies, Classify, Prepare, PlanAction
<1>8. CASE ModelFails \/ ToolsDone \/ Observe \/ Finalize \/ Raise \/ UNCHANGED vars
  BY <1>2, <1>8 DEF ModelFails, ToolsDone, Observe, Finalize, Raise, vars, searching
<1>9. QED
  BY <1>5, <1>6, <1>7, <1>8, StepCases

\* A useful turn brings a call that runs within the budget or stops the run.
LEMMA TurnsStep ==
  ASSUME IInv, [Next]_vars
  PROVE  TurnsAreBounded'
<1> USE LimitAssumption DEF TurnsAreBounded, Useful
<1>0. /\ TypeOK /\ PlanFitsNode /\ MessageFitsNode /\ ActionIsPursued /\ BlocksHaveReasons
      /\ TurnsAreBounded
  BY DEF IInv
<1>a. iteration \in Nat /\ wasted \in Nat /\ calls \in Seq(Tools)
  BY <1>0 DEF TypeOK
<1>1. CASE InitializeRun
  BY <1>0, <1>1 DEF InitializeRun, loop
<1>2. CASE Clarify
  BY <1>0, <1>2 DEF Clarify, loop
<1>3. CASE Classifies
  BY <1>0, <1>3 DEF Classifies, Classify, loop
<1>4. CASE Prepare
  <2>1. iteration = wasted /\ iteration' = iteration /\ wasted' = wasted
    BY <1>0, <1>4 DEF Prepare, MessageFitsNode, Start, loop
  <2>2. node' \in {"plan_action", "agent_model"} /\ (node' = "agent_model" => plan'.action = "none")
    BY <1>0, <1>4 DEF Prepare, PlanFitsNode, TypeOK, Plan
  <2>3. QED
    BY <1>a, <2>1, <2>2 DEF Open
<1>5. CASE PlanAction
  <2>1. /\ iteration = wasted /\ iteration' = iteration /\ wasted' = wasted /\ last = "none"
    BY <1>0, <1>5 DEF PlanAction, MessageFitsNode, Start
  <2>2. Productive(<<"own">>)
    BY DEF Productive, Refused
  <2>3. CASE node' = "execute_tools" /\ calls' = <<"own">>
    BY <1>a, <2>1, <2>2, <2>3
  <2>4. CASE node' = "observe_completion" /\ last' = "none"
    BY <1>a, <2>1, <2>4
  <2>5. QED
    BY <1>5, <2>1, <2>3, <2>4 DEF PlanAction
<1>6. CASE Turns
  <2>1. /\ node = "agent_model" /\ node' = "observe_completion" /\ plan' = plan
        /\ flags' = flags /\ iteration' = iteration + 1 /\ wasted' \in Nat
        /\ \/ last' = "answer" /\ wasted' = wasted
           \/ last' = "empty" /\ wasted' = wasted + 1
           \/ /\ last' = "calls" /\ ~GuidanceOnly
              /\ \/ wasted' = wasted + 1
                 \/ wasted' = wasted /\ Productive(calls') /\ kind # "none"
    BY <1>0, <1>6, TurnFacts
  <2>2. HasWork /\ (plan.action = "none" <=> kind = "none")
    BY <1>0, <2>1 DEF PlanFitsNode, Working
  <2>3. Useful <= MaxIterations /\ (plan.action \in Open => Useful < MaxIterations)
    BY <1>0, <2>1
  <2>4. CASE last' # "calls"
    <3>1. CASE last' = "answer" /\ wasted' = wasted
      BY <1>a, <2>1, <2>3, <3>1
    <3>2. CASE last' = "empty" /\ wasted' = wasted + 1
      BY <1>a, <2>1, <2>3, <3>2
    <3>3. QED
      BY <2>1, <2>4, <3>1, <3>2
  <2>5. CASE last' = "calls" /\ wasted' = wasted + 1
    BY <1>a, <2>1, <2>3, <2>5
  <2>6. CASE last' = "calls" /\ wasted' = wasted
    <3>1. Productive(calls') /\ kind # "none" /\ ~GuidanceOnly
      BY <1>a, <2>1, <2>6
    <3>2. plan.action \in Open
      BY <1>0, <2>2, <3>1 DEF GuidanceOnly, HasWork, TypeOK, Plan
    <3>3. QED
      BY <1>a, <2>1, <2>3, <2>6, <3>1, <3>2
  <2>7. QED
    BY <1>a, <2>1, <2>4, <2>5, <2>6
<1>7. CASE ModelFails
  <2>1. /\ node = "agent_model" /\ node' = "observe_completion" /\ last' = last
        /\ last \notin {"calls", "answer"} /\ plan' = plan
        /\ iteration' = iteration /\ wasted' = wasted
    BY <1>0, <1>7 DEF ModelFails, loop, MessageFitsNode
  <2>2. QED
    BY <1>0, <1>a, <2>1
<1>8. CASE ToolSteps
  <2>1. /\ node = "execute_tools" /\ node' = node /\ plan' = plan /\ last' = last
        /\ iteration' = iteration /\ wasted' = wasted /\ calls # <<>> /\ calls' = Tail(calls)
        /\ batch.stop => batch'.stop
        /\ Head(calls) \in {"own", "other"} => iteration < MaxIterations \/ batch'.stop
    BY <1>0, <1>8, ToolFacts
  <2>2. CASE Head(calls) \in {"own", "other"}
    BY <1>0, <1>a, <2>1, <2>2
  <2>3. CASE Head(calls) \in Refused
    <3>1. Productive(calls) => Productive(calls')
      BY <1>a, <2>1, <2>3, ProductiveTail
    <3>2. QED
      BY <1>0, <1>a, <2>1, <3>1
  <2>4. Head(calls) \in Tools
    BY <1>a, <2>1
  <2>5. QED
    BY <2>2, <2>3, <2>4 DEF Tools
<1>9. CASE ToolsDone
  <2>1. /\ node = "execute_tools" /\ node' = "observe_completion" /\ plan' = plan
        /\ calls = <<>> /\ last' = "results" /\ iteration' = iteration /\ wasted' = wasted
    BY <1>9 DEF ToolsDone, ResultsLast
  <2>2. batch.stop => flags'.stop
    BY <1>0, <1>9, DoneFacts
  <2>3. ~Productive(calls)
    BY <2>1 DEF Productive
  <2>4. QED
    BY <1>0, <1>a, <2>1, <2>2, <2>3
<1>10. CASE Observe
  <2>1. /\ node = "observe_completion" /\ plan'.action = ActionStatus
        /\ UNCHANGED <<flags, last, calls, iteration, batch, wasted>>
        /\ \/ node' = "execute_tools" /\ last = "calls" /\ plan' = plan
           \/ /\ node' = "agent_model" /\ last \notin {"calls", "answer"}
              /\ ~flags.error /\ ~flags.asks
           \/ node' = "finalize"
    BY <1>0, <1>10, RouteFacts DEF loop
  <2>2. ActionStatus \in Open => plan.action \in Open /\ ~flags.stop
    BY <1>0, <2>1, ActionFacts DEF Undone
  <2>3. node' = "agent_model" => last \in {"results", "empty"}
    BY <1>0, <2>1 DEF MessageFitsNode, TypeOK, Messages
  <2>4. QED
    BY <1>0, <1>a, <2>1, <2>2, <2>3
<1>11. CASE Finalize
  BY <1>0, <1>11 DEF Finalize, loop
<1>12. CASE Raise
  BY <1>0, <1>12 DEF Raise, loop
<1>13. CASE UNCHANGED vars
  BY <1>0, <1>13 DEF vars
<1>14. QED
  BY <1>1, <1>2, <1>3, <1>4, <1>5, <1>6, <1>7, <1>8, <1>9, <1>10, <1>11, <1>12, <1>13, StepCases

\* What finalize records.
LEMMA Recorded ==
  ASSUME IInv, Finalize
  PROVE  StatusTellsThePlan'
<1>1. TypeOK /\ PlanFitsNode /\ BlocksHaveReasons
  BY DEF IInv
<1>2. /\ node = "finalize" /\ flags' = flags /\ status' = RunStatus
      /\ plan' = [action |-> Closed(plan.action), guidance |-> Closed(plan.guidance)]
  BY DEF Finalize
<1>3. plan.action \notin Open /\ plan.guidance \notin Open
  BY <1>1, <1>2 DEF PlanFitsNode, HasWork
<1>4. plan' = plan
  BY <1>1, <1>2, <1>3 DEF Closed, TypeOK, Plan
<1>5. plan.action \in {"none"} \cup Terminal /\ plan.guidance \in {"none"} \cup Terminal
  BY <1>1, <1>3 DEF TypeOK, Plan
<1>6. /\ "blocked" \in Tasks => flags.error \/ flags.asks
      /\ plan.action = "partial" => ~flags.asks
      /\ Failed => "blocked" \in Tasks
      /\ plan.guidance # "partial"
      /\ ~flags.asks => Tasks # {"none"}
  BY <1>1, <1>2 DEF BlocksHaveReasons, PlanFitsNode
<1>7. CASE Failed
  BY <1>2, <1>4, <1>5, <1>6, <1>7 DEF StatusTellsThePlan, RunStatus, Failed, Tasks
<1>8. CASE flags.asks
  BY <1>2, <1>4, <1>5, <1>6, <1>8 DEF StatusTellsThePlan, RunStatus, Failed, Tasks
<1>9. CASE ~flags.asks /\ ~flags.error
  <2>1. "blocked" \notin Tasks
    BY <1>6, <1>9
  <2>2. CASE Partial
    BY <1>2, <1>4, <1>5, <1>6, <1>9, <2>1, <2>2
    DEF StatusTellsThePlan, RunStatus, Failed, Tasks, Terminal
  <2>3. CASE ~Partial
    <3>1. Tasks \ {"none"} = {"completed"}
      BY <1>5, <1>6, <1>9, <2>1, <2>3 DEF Partial, Tasks, Terminal
    <3>2. RunStatus = "completed"
      BY <1>9, <2>3 DEF RunStatus, Failed
    <3>3. QED
      BY <1>2, <1>4, <2>1, <2>3, <3>1, <3>2 DEF StatusTellsThePlan, Tasks, Partial
  <2>4. QED
    BY <2>2, <2>3
<1>10. QED
  BY <1>7, <1>8, <1>9 DEF Failed

\* Only finalize records a status that tells of the plan.
LEMMA StatusStep ==
  ASSUME IInv, [Next]_vars
  PROVE  StatusTellsThePlan'
<1>0. TypeOK /\ PlanFitsNode /\ BlocksHaveReasons /\ ActionIsPursued /\ StatusTellsThePlan
  BY DEF IInv
<1>1. CASE InitializeRun \/ Clarify \/ Classifies \/ Prepare \/ PlanAction
  BY <1>1 DEF InitializeRun, Clarify, Classifies, Classify, Prepare, PlanAction,
     StatusTellsThePlan
<1>2. CASE ModelFails \/ ToolsDone \/ Raise
  BY <1>2 DEF ModelFails, ToolsDone, Raise, StatusTellsThePlan
<1>3. CASE Turns
  BY <1>0, <1>3, TurnFacts DEF StatusTellsThePlan
<1>4. CASE ToolSteps
  BY <1>0, <1>4, ToolFacts DEF StatusTellsThePlan
<1>5. CASE Observe
  BY <1>0, <1>5, RouteFacts DEF StatusTellsThePlan
<1>6. CASE Finalize
  BY <1>6, Recorded
<1>7. CASE UNCHANGED vars
  BY <1>0, <1>7 DEF StatusTellsThePlan, vars
<1>8. QED
  BY <1>1, <1>2, <1>3, <1>4, <1>5, <1>6, <1>7, StepCases

(***************************************************************************)
(* The theorems.                                                           *)
(***************************************************************************)

\* The invariant holds when a run starts.
LEMMA InitInv == Init => IInv
<1>1. SUFFICES ASSUME Init PROVE IInv
  OBVIOUS
<1>2. TypeOK
  BY <1>1, InitType
<1>3. PlanFitsNode /\ MessageFitsNode /\ BlocksHaveReasons /\ ActionIsPursued
  BY <1>1 DEF Init, PlanFitsNode, MessageFitsNode, BlocksHaveReasons, ActionIsPursued,
     Working, Start, NoPlan, NoFlags, Tasks, Open, Terminal
<1>4. DeliveriesExist /\ TurnsAreBounded /\ StatusTellsThePlan
  BY <1>1, LimitAssumption DEF Init, DeliveriesExist, TurnsAreBounded, Useful,
     StatusTellsThePlan, NoPlan, NoFlags, Open
<1>5. SourcesAreCounted
  BY <1>1, LimitAssumption DEF Init, SourcesAreCounted
<1>6. QED
  BY <1>2, <1>3, <1>4, <1>5 DEF IInv

\* The invariant holds in every state.
THEOREM Inductive == Spec => []IInv
<1>1. Init => IInv
  BY InitInv
<1>2. IInv /\ [Next]_vars => IInv'
  <2>1. SUFFICES ASSUME IInv, [Next]_vars PROVE IInv'
    OBVIOUS
  <2>2. TypeOK /\ SourcesAreCounted
    BY <2>1 DEF IInv
  <2>3. TypeOK' /\ SourcesAreCounted'
    BY <2>1, <2>2, TypeStep, SourcesStep
  <2>4. /\ PlanFitsNode' /\ MessageFitsNode' /\ BlocksHaveReasons' /\ ActionIsPursued'
        /\ DeliveriesExist' /\ TurnsAreBounded' /\ StatusTellsThePlan'
    BY <2>1, PlanStep, MessageStep, ReasonStep, PursuitStep, DeliveryStep, TurnsStep,
       StatusStep
  <2>5. QED
    BY <2>3, <2>4 DEF IInv
<1>3. QED
  BY <1>1, <1>2, PTL DEF Spec

\* The route to finalize is only taken when every task is completed, partial or blocked
\* (_route_after_completion).
THEOREM NothingStaysOpen == Spec => []NoOpenTaskAtTheEnd
<1>1. IInv => NoOpenTaskAtTheEnd
  BY DEF IInv, PlanFitsNode, HasWork, NoOpenTaskAtTheEnd
<1>2. QED
  BY <1>1, Inductive, PTL

\* The status in agent_runs tells what became of the plan (finalize).
THEOREM StatusIsTrue == Spec => []StatusTellsThePlan
<1>1. IInv => StatusTellsThePlan
  BY DEF IInv
<1>2. QED
  BY <1>1, Inductive, PTL

\* A run that gets to its end has decided every task and records the truth about them
\* (observe_completion, finalize).
THEOREM PlanSettles == Spec => []PlanIsSettled
<1>1. NoOpenTaskAtTheEnd /\ StatusTellsThePlan => PlanIsSettled
  BY DEF PlanIsSettled
<1>2. QED
  BY <1>1, NothingStaysOpen, StatusIsTrue, PTL

\* A completed action has a saved draft, or a search that was and still is sufficient
\* (observe_completion, execute_tools).
THEOREM CompletedIsDelivered == Spec => []CompletedActionsDelivered
<1>1. IInv => CompletedActionsDelivered
  BY DEF IInv, DeliveriesExist, Delivered, CompletedActionsDelivered
<1>2. QED
  BY <1>1, Inductive, PTL

\* Every source call beyond the budget is one that a failed search hid from
\* total_source_calls.
THEOREM OverspendingIsExplained == Spec => []FailuresExplainOverspending
<1>1. IInv => FailuresExplainOverspending
  <2>1. SUFFICES ASSUME IInv PROVE FailuresExplainOverspending
    OBVIOUS
  <2>2. /\ counted \in Nat /\ spent \in Nat /\ failures \in Nat
        /\ session.remaining \in Nat /\ MaxSourceCalls \in Nat
    BY <2>1, LimitAssumption DEF IInv, TypeOK, Session
  <2>3. /\ counted + session.remaining <= MaxSourceCalls
        /\ spent <= counted + MaxSourceCalls * failures
    BY <2>1 DEF IInv, SourcesAreCounted
  <2>4. MaxSourceCalls * (failures + 1) = MaxSourceCalls * failures + MaxSourceCalls
        /\ MaxSourceCalls * failures \in Nat
    BY <2>2
  <2>5. QED
    BY <2>2, <2>3, <2>4 DEF FailuresExplainOverspending
<1>2. QED
  BY <1>1, Inductive, PTL

\* Every turn beyond AGENT_MAX_ITERATIONS and one for the guidance was wasted: an empty
\* answer, or calls of tools that the workflow does not allow.
THEOREM TurnsAreExplained == Spec => []WasteExplainsTurns
<1>1. IInv => WasteExplainsTurns
  BY LimitAssumption DEF IInv, TypeOK, TurnsAreBounded, Useful, WasteExplainsTurns
<1>2. QED
  BY <1>1, Inductive, PTL

\* Whatever exceeds a budget is explained: source calls by failed searches, turns by
\* wasted ones.
THEOREM OverrunsExplained == Spec => []OverrunsAreExplained
<1>1. FailuresExplainOverspending /\ WasteExplainsTurns => OverrunsAreExplained
  BY DEF OverrunsAreExplained
<1>2. QED
  BY <1>1, OverspendingIsExplained, TurnsAreExplained, PTL

\* After the action is decided no step changes it, reserves a source call or saves a draft.
THEOREM DoneIsDone == Spec => ActionEndsOnce
<1>1. IInv /\ [Next]_vars => [plan.action \in Terminal =>
        plan'.action = plan.action /\ spent' = spent /\ saved' = saved]_vars
  <2>1. SUFFICES ASSUME IInv, [Next]_vars, plan.action \in Terminal
                 PROVE  plan'.action = plan.action /\ spent' = spent /\ saved' = saved
    OBVIOUS
  <2>2. TypeOK /\ PlanFitsNode /\ BlocksHaveReasons /\ ActionIsPursued /\ DeliveriesExist
    BY <2>1 DEF IInv
  <2>3. plan.action \notin Open /\ plan.action \notin {"none", "pending"}
    BY <2>1 DEF Terminal, Open
  <2>4. ~ToolSteps /\ ~Classifies /\ ~Prepare
    <3>1. node # "execute_tools"
      BY <2>1, <2>2 DEF ActionIsPursued
    <3>2. node # "classify_intent" /\ node # "prepare_workflow"
      BY <2>2, <2>3 DEF PlanFitsNode, NoPlan
    <3>3. QED
      BY <2>2, <3>1, <3>2, ToolFacts DEF Classifies, Classify, Prepare
  <2>5. CASE InitializeRun \/ Clarify \/ PlanAction
    BY <2>5 DEF InitializeRun, Clarify, PlanAction, loop, searching
  <2>6. CASE Turns
    BY <2>2, <2>6, TurnFacts
  <2>7. CASE ModelFails \/ ToolsDone \/ Raise
    BY <2>7 DEF ModelFails, ToolsDone, Raise, loop, searching
  <2>8. CASE Observe
    <3>1. UNCHANGED <<saved, spent>> /\ plan'.action = ActionStatus /\ node = "observe_completion"
      BY <2>2, <2>8, RouteFacts DEF loop, searching
    <3>2. QED
      BY <2>2, <2>3, <3>1, ActionFacts
  <2>9. CASE Finalize
    BY <2>3, <2>9 DEF Finalize, Closed, loop, searching
  <2>10. CASE UNCHANGED vars
    BY <2>10 DEF vars
  <2>11. QED
    BY <2>1, <2>4, <2>5, <2>6, <2>7, <2>8, <2>9, <2>10, StepCases
<1>2. QED
  BY <1>1, Inductive, PTL DEF Spec, ActionEndsOnce
=============================================================================
