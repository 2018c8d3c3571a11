--------------------------- MODULE CareerAgentRun ---------------------------
(***************************************************************************)
(* One run of the career agent: the LangGraph nodes that answer a request. *)
(*                                                                         *)
(* The request becomes a plan of at most one action (a search or a draft)  *)
(* and some guidance.  The model is asked again and again, its tool calls  *)
(* are executed under an iteration and a source-call budget, and after     *)
(* every message the plan decides where to go.  A search reserves its      *)
(* source calls from a search session before it makes them.                *)
(*                                                                         *)
(* The model's answers are arbitrary.  The guidance tasks of a plan are    *)
(* treated alike, so one status stands for them; job and people searches   *)
(* differ in nothing modelled here, nor do resume and outreach drafts.     *)
(***************************************************************************)
EXTENDS Integers, Sequences

CONSTANTS
  MaxIterations,  \* AGENT_MAX_ITERATIONS
  MaxSourceCalls, \* AGENT_MAX_SOURCE_CALLS
  NoNewStop,      \* AGENT_NO_NEW_RESULTS_STOP
  Requests,       \* search requests the model may put together
  None,           \* no request
  MaxCalls,       \* bound: tool calls in one message
  MaxFailures,    \* bound: searches that raise
  MaxWasted       \* bound: turns of the model that bring nothing

ASSUME LimitAssumption ==
  /\ MaxIterations \in Nat /\ MaxSourceCalls \in Nat /\ NoNewStop \in Nat
  /\ MaxCalls \in Nat /\ MaxFailures \in Nat /\ MaxWasted \in Nat
ASSUME NoneAssumption == None \notin Requests

VARIABLES
  node,      \* the node that runs next
  kind,      \* what the plan's action is
  plan,      \* the status of the action and of the guidance
  last,      \* the last message
  calls,     \* its tool calls that are not executed yet
  iteration, \* turns of the model
  counted,   \* total_source_calls, what the tools reported
  batch,     \* what the calls of the last message did, or one of them
  flags,     \* what the run knows: see Flags
  session,   \* the latest search session
  spent,     \* source calls reserved in any session of the run
  saved,     \* drafts saved
  status,    \* the status of the run's row in agent_runs
  failures,  \* searches that raised so far
  wasted     \* turns of the model that brought nothing so far

vars == <<node, kind, plan, last, calls, iteration, counted, batch, flags, session,
          spent, saved, status, failures, wasted>>

Nodes    == {"initialize_run", "classify_intent", "prepare_workflow", "plan_action",
             "agent_model", "execute_tools", "observe_completion", "finalize", "end", "raised"}
Open     == {"pending", "in_progress"}
Terminal == {"completed", "partial", "blocked"}
Plan     == [action : {"none"} \cup Open \cup Terminal,
             guidance : {"none"} \cup Open \cup Terminal]
NoPlan   == [action |-> "none", guidance |-> "none"]
Refused  == {"stray", "foreign"}  \* a search of another workflow, any other tool not allowed
Tools    == {"own", "other"} \cup Refused  \* the action's tool, one allowed beside it
Messages == {"none", "calls", "results", "answer", "empty"}
Batch    == [searched : BOOLEAN, found : BOOLEAN, stop : BOOLEAN]
NewBatch == [searched |-> FALSE, found |-> FALSE, stop |-> FALSE]
Flags    == [called : BOOLEAN,      \* the action's tool was called, or tried to
             ok : BOOLEAN,          \* its latest result
             sufficient : BOOLEAN,  \* is_sufficient
             barren : Nat,          \* consecutive_no_new_results
             stop : BOOLEAN,        \* stop_after_tools
             partial : BOOLEAN,     \* partial_result
             asks : BOOLEAN,        \* needs_user_input
             error : BOOLEAN]       \* current_error
NoFlags  == [called |-> FALSE, ok |-> FALSE, sufficient |-> FALSE, barren |-> 0,
             stop |-> FALSE, partial |-> FALSE, asks |-> FALSE, error |-> FALSE]
Session  == [request : Requests \cup {None}, remaining : Nat]

TypeOK ==
  /\ node \in Nodes
  /\ kind \in {"none", "search", "draft"}
  /\ plan \in Plan
  /\ last \in Messages
  /\ calls \in Seq(Tools)
  /\ iteration \in Nat
  /\ counted \in Nat
  /\ batch \in Batch
  /\ flags \in Flags
  /\ session \in Session
  /\ spent \in Nat
  /\ saved \in Nat
  /\ status \in {"none", "running", "needs_input", "failed", "partial", "completed"}
  /\ failures \in 0..MaxFailures
  /\ wasted \in 0..MaxWasted

Init ==
  /\ node = "initialize_run"
  /\ kind = "none"
  /\ plan = NoPlan
  /\ last = "none"
  /\ calls = <<>>
  /\ iteration = 0
  /\ counted = 0
  /\ batch = NewBatch
  /\ flags = NoFlags
  /\ session = [request |-> None, remaining |-> 0]
  /\ spent = 0
  /\ saved = 0
  /\ status = "none"
  /\ failures = 0
  /\ wasted = 0

searching == <<counted, session, spent, failures>>
loop      == <<last, calls, iteration, batch, saved, wasted>>

-----------------------------------------------------------------------------
(***************************************************************************)
(* The way to the plan.                                                    *)
(***************************************************************************)

InitializeRun ==
  /\ node = "initialize_run" /\ node' = "classify_intent"
  /\ status' = "running"
  /\ UNCHANGED <<kind, plan, flags, loop, searching>>

\* The request is not clear: the answer is a question.
Clarify ==
  /\ node = "classify_intent" /\ node' = "finalize"
  /\ status' = "needs_input"
  /\ flags' = [flags EXCEPT !.asks = TRUE]
  /\ UNCHANGED <<kind, plan, loop, searching>>

\* One action at most; a plan without a task gets one in prepare_workflow.
Classify(action, guidance) ==
  /\ node = "classify_intent" /\ node' = "prepare_workflow"
  /\ action # "none" \/ guidance
  /\ kind' = action
  /\ plan' = [action |-> IF action = "none" THEN "none" ELSE "pending",
              guidance |-> IF guidance THEN "pending" ELSE "none"]
  /\ UNCHANGED <<flags, status, loop, searching>>

\* The action goes first.
Prepare ==
  /\ node = "prepare_workflow"
  /\ IF plan.action = "pending"
     THEN plan' = [plan EXCEPT !.action = "in_progress"] /\ node' = "plan_action"
     ELSE plan' = [plan EXCEPT !.guidance = "in_progress"] /\ node' = "agent_model"
  /\ UNCHANGED <<kind, flags, status, loop, searching>>

\* The first call of the action's tool, or a question when its arguments are missing.
PlanAction ==
  /\ node = "plan_action"
  /\ \/ /\ node' = "execute_tools"
        /\ last' = "calls" /\ calls' = <<"own">>
        /\ UNCHANGED flags
     \/ /\ node' = "observe_completion"
        /\ flags' = [flags EXCEPT !.asks = TRUE, !.error = TRUE]
        /\ UNCHANGED <<last, calls>>
  /\ UNCHANGED <<kind, plan, iteration, batch, saved, wasted, status, searching>>

-----------------------------------------------------------------------------
(***************************************************************************)
(* The model's turn.                                                       *)
(***************************************************************************)

\* With the action done and guidance left, the model gets no tools.
GuidanceOnly == plan.guidance \in Open /\ plan.action \in Terminal

Turn(message, tools, waste) ==
  /\ node = "agent_model" /\ node' = "observe_completion"
  /\ iteration' = iteration + 1
  /\ last' = message /\ calls' = tools
  /\ wasted' = wasted + (IF waste THEN 1 ELSE 0)
  /\ UNCHANGED <<kind, plan, batch, flags, saved, status, searching>>

Answer == Turn("answer", <<>>, FALSE)

AnswerNothing == wasted < MaxWasted /\ Turn("empty", <<>>, TRUE)

\* Without an action no tool is allowed.  Every tool is offered, allowed or not.
CallTools(tools) ==
  /\ ~GuidanceOnly
  /\ LET waste == \A i \in DOMAIN tools : tools[i] \in Refused IN
     /\ kind = "none" => waste
     /\ waste => wasted < MaxWasted
     /\ Turn("calls", tools, waste)

\* The model and its fallback raise.
ModelFails ==
  /\ node = "agent_model" /\ node' = "observe_completion"
  /\ flags' = [flags EXCEPT !.error = TRUE]
  /\ UNCHANGED <<kind, plan, loop, status, searching>>

-----------------------------------------------------------------------------
(***************************************************************************)
(* execute_tools: one call after the other.                                *)
(***************************************************************************)

\* Mutant: the iteration budget is checked one turn late.
OutOfTurnsLate == iteration > MaxIterations

OutOfTurns == iteration >= MaxIterations

OutOfSources == kind = "search" /\ counted >= MaxSourceCalls

NextCall(tool) ==
  /\ node = "execute_tools" /\ calls # <<>> /\ Head(calls) = tool
  /\ calls' = Tail(calls)
  /\ UNCHANGED <<node, kind, plan, last, iteration, wasted, status>>

\* What a call of the action's tool leaves behind.  A search without results, refused
\* or failed, counts as insufficient whatever an earlier one found.
Reported(ok, sufficient) ==
  [flags EXCEPT !.called = TRUE, !.ok = ok,
                !.sufficient = IF kind = "search" THEN sufficient ELSE @]

Searched(found) ==
  [batch EXCEPT !.searched = @ \/ kind = "search", !.found = @ \/ found]

\* A tool the workflow does not allow is refused; the run goes on.
RefuseForeign ==
  /\ NextCall("foreign")
  /\ UNCHANGED <<batch, flags, saved, searching>>

\* A refused search is still looked at as a search that found nothing.
RefuseStray ==
  /\ NextCall("stray")
  /\ batch' = [batch EXCEPT !.searched = TRUE]
  /\ flags' = [flags EXCEPT !.sufficient = FALSE]
  /\ UNCHANGED <<saved, searching>>

\* A budget is used up: the call is refused and the run stops after this message.
RefuseOwn ==
  /\ NextCall("own") /\ (OutOfTurns \/ OutOfSources)
  /\ flags' = Reported(FALSE, FALSE)
  /\ batch' = [Searched(FALSE) EXCEPT !.stop = TRUE]
  /\ UNCHANGED <<saved, searching>>

\* A detail, a skill file, evidence: nothing the plan looks at.
CallOther ==
  /\ NextCall("other")
  /\ batch' = [batch EXCEPT !.stop = @ \/ OutOfTurns]
  /\ UNCHANGED <<flags, saved, searching>>

SaveDraft(ok) ==
  /\ NextCall("own") /\ kind = "draft" /\ ~OutOfTurns
  /\ saved' = saved + (IF ok THEN 1 ELSE 0)
  /\ flags' = Reported(ok, FALSE)
  /\ UNCHANGED <<batch, searching>>

\* Mutant: every search opens a session of its own with the full budget.
FreshBudget(request) == [request |-> request, remaining |-> MaxSourceCalls]

\* The latest session goes on if it is for the same request; otherwise a new one gets
\* what the run has left of its budget.
SessionFor(request) ==
  IF session.request = request THEN session
  ELSE [request |-> request, remaining |-> MaxSourceCalls - counted]

Available(request) == SessionFor(request).remaining

\* Calls are reserved one by one before they are made, as long as the session has some.
Reserve(request, n) ==
  /\ n <= Available(request)
  /\ session' = [SessionFor(request) EXCEPT !.remaining = @ - n]
  /\ spent' = spent + n

Search(request, n, found, sufficient) ==
  /\ NextCall("own") /\ kind = "search" /\ ~OutOfTurns /\ ~OutOfSources
  /\ Reserve(request, n)
  /\ counted' = counted + n
  /\ flags' = Reported(TRUE, sufficient)
  /\ batch' = Searched(found)
  /\ UNCHANGED <<saved, failures>>

\* The request is not valid, or storing or indexing what was found raises: the tool
\* reports no source calls.
SearchFails(request, n) ==
  /\ NextCall("own") /\ kind = "search" /\ ~OutOfTurns /\ ~OutOfSources
  /\ failures < MaxFailures /\ failures' = failures + 1
  /\ Reserve(request, n)
  /\ flags' = Reported(FALSE, FALSE)
  /\ batch' = Searched(FALSE)
  /\ UNCHANGED <<counted, saved>>

\* Mutant: the results are not the last message.
CallsStayLast == "calls"

ResultsLast == "results"

\* After the last call: is another turn worth it?
ToolsDone ==
  LET barren == IF ~batch.searched THEN flags.barren
                ELSE IF batch.found THEN 0 ELSE flags.barren + 1
      stop   == \/ batch.stop \/ counted >= MaxSourceCalls
                \/ barren >= NoNewStop \/ flags.sufficient
  IN
  /\ node = "execute_tools" /\ calls = <<>>
  /\ node' = "observe_completion"
  /\ last' = ResultsLast
  /\ batch' = NewBatch
  /\ flags' = [flags EXCEPT !.barren = barren, !.stop = stop,
                            !.partial = stop /\ ~flags.sufficient]
  /\ UNCHANGED <<kind, plan, calls, iteration, saved, wasted, status, searching>>

-----------------------------------------------------------------------------
(***************************************************************************)
(* observe_completion and where it leads.                                  *)
(***************************************************************************)

GuidanceStatus ==
  IF plan.guidance \notin Open THEN plan.guidance
  ELSE IF last = "answer" THEN "completed"
  ELSE IF flags.error \/ flags.asks THEN "blocked"
  ELSE plan.guidance

\* Mutant: a call that was made counts.
CalledIsDelivered == flags.called

\* The action's tool has delivered.
Delivered == IF kind = "search" THEN flags.sufficient ELSE flags.ok

Judged ==
  IF flags.error \/ flags.asks THEN "blocked"
  ELSE IF ~flags.called THEN "in_progress"
  ELSE IF Delivered THEN "completed"
  ELSE IF flags.stop \/ last = "answer" THEN "partial"
  ELSE plan.action

\* Mutant: an action that is done is judged again.
JudgedAgain == IF plan.action = "none" THEN "none" ELSE Judged

ActionStatus == IF plan.action \in Open THEN Judged ELSE plan.action

\* Mutant: the guidance is not waited for.
RouteByAction(p) ==
  IF last = "calls" THEN "execute_tools"
  ELSE IF flags.asks \/ flags.error \/ p.action \notin Open THEN "finalize"
  ELSE IF flags.called THEN "agent_model" ELSE "plan_action"

Route(p) ==
  IF last = "calls" THEN "execute_tools"
  ELSE IF flags.asks \/ flags.error THEN "finalize"
  ELSE IF p.action \in Open THEN (IF flags.called THEN "agent_model" ELSE "plan_action")
  ELSE IF p.guidance \in Open THEN "agent_model"
  ELSE "finalize"

Observe ==
  /\ node = "observe_completion"
  /\ plan' = [action |-> ActionStatus, guidance |-> GuidanceStatus]
  /\ node' = Route(plan')
  /\ UNCHANGED <<kind, flags, status, loop, searching>>

-----------------------------------------------------------------------------
Failed  == flags.error /\ ~flags.asks
Partial == flags.partial \/ "partial" \in {plan.action, plan.guidance}

\* Mutant: what is missing is not looked at.
CompletedAnyway == IF Failed THEN "failed" ELSE IF flags.asks THEN "needs_input" ELSE "completed"

RunStatus ==
  IF Failed THEN "failed"
  ELSE IF flags.asks THEN "needs_input"
  ELSE IF Partial THEN "partial" ELSE "completed"

Closed(task) == IF task \in Open THEN "blocked" ELSE task

\* What is still open is closed as blocked, and the outcome is recorded.
Finalize ==
  /\ node = "finalize" /\ node' = "end"
  /\ plan' = [action |-> Closed(plan.action), guidance |-> Closed(plan.guidance)]
  /\ status' = RunStatus
  /\ UNCHANGED <<kind, flags, loop, searching>>

\* A transaction raises, LangGraph's step limit is reached, or the process dies: nothing
\* resumes the run (respond_to_user uses no checkpointer) and its row stays as it is.
Raise ==
  /\ node \notin {"end", "raised"} /\ node' = "raised"
  /\ UNCHANGED <<kind, plan, flags, status, loop, searching>>

Steps ==
  \/ InitializeRun \/ Clarify \/ Prepare \/ PlanAction \/ Answer \/ AnswerNothing
  \/ ModelFails \/ RefuseForeign \/ RefuseStray \/ RefuseOwn \/ CallOther \/ ToolsDone
  \/ Observe \/ Finalize
  \/ \E action \in {"none", "search", "draft"}, guidance \in BOOLEAN : Classify(action, guidance)
  \/ \E n \in 1..MaxCalls : \E tools \in [1..n -> Tools] : CallTools(tools)
  \/ \E ok \in BOOLEAN : SaveDraft(ok)
  \/ \E request \in Requests, n \in 0..MaxSourceCalls :
       \/ SearchFails(request, n)
       \/ \E found, sufficient \in BOOLEAN : Search(request, n, found, sufficient)

Next == Steps \/ Raise

Spec == Init /\ [][Next]_vars

\* The graph runs in one thread that goes on until it ends or raises.
FairSpec == Spec /\ WF_vars(Steps)

-----------------------------------------------------------------------------
(***************************************************************************)
(* Properties.                                                             *)
(***************************************************************************)

\* A run that is finalized has no open task ("Deterministically prevent finalization
\* while planned work is pending", observe_completion).
NoOpenTaskAtTheEnd == node = "finalize" => plan.action \notin Open /\ plan.guidance \notin Open

\* The recorded status says what became of the plan: only a run that did everything is
\* completed, and a failure or an open question always leaves its mark.  (A run that did
\* everything may still be recorded as partial, because of a refused search.)
StatusTellsThePlan ==
  node = "end" =>
    LET tasks == {plan.action, plan.guidance} \ {"none"} IN
    /\ status = "completed"  => tasks = {"completed"}
    /\ status = "partial"    => tasks \subseteq {"completed", "partial"}
    /\ status = "failed"    <=> "blocked" \in tasks /\ ~flags.asks
    /\ "partial" \in tasks   => status \in {"partial", "failed"}

\* A run that gets to its end has decided every task and records the truth about them.
PlanIsSettled == NoOpenTaskAtTheEnd /\ StatusTellsThePlan

\* A completed draft action left a draft behind, and what a completed search found is
\* still enough in the end: no later call takes it back.
CompletedActionsDelivered ==
  plan.action = "completed" =>
    /\ kind = "draft" => saved > 0
    /\ kind = "search" => flags.sufficient /\ session.request # None

\* What is decided about the action stays decided, and its tool is not called again: no
\* source call and no draft after the action is done.
ActionEndsOnce ==
  [][plan.action \in Terminal =>
       plan'.action = plan.action /\ spent' = spent /\ saved' = saved]_vars

\* A run overspends its source calls only through searches that raised, each of which
\* hides at most one budget from the count.
FailuresExplainOverspending == spent <= MaxSourceCalls * (failures + 1)

\* The run takes no more turns than its budget allows, one for the guidance after it, and
\* the wasted ones.
WasteExplainsTurns == iteration <= MaxIterations + 1 + wasted

\* Both budgets are exceeded for these reasons only.
OverrunsAreExplained == FailuresExplainOverspending /\ WasteExplainsTurns

\* A run ends, unless the model wastes its turns forever.
RunsEnd == <>(node \in {"end", "raised"})
=============================================================================
