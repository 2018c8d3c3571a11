-------------------- MODULE ConversationExtractionProofs --------------------
(***************************************************************************)
(* Theorems about ConversationExtraction, for every set of topics and      *)
(* every bound.                                                            *)
(***************************************************************************)
EXTENDS ConversationExtraction, TLAPS

-----------------------------------------------------------------------------
\* What the steps are built from keeps its type.

LEMMA SegmentType ==
  ASSUME NEW seen \in Boundaries, NEW start \in Boundaries, NEW end \in Boundaries
  PROVE  Segment(seen, start, end) \in SUBSET Positions
  BY BoundAssumption DEF Segment, Positions, Boundaries

LEMMA RequestType ==
  ASSUME TypeOK, NEW m \in Boundaries
  PROVE  RequestAt(m) \in MemoryState
  BY DEF TypeOK, RequestAt, MemoryState

LEMMA MarkedPendingType ==
  ASSUME TypeOK
  PROVE  MarkedPending \in MemoryState
  BY RequestType, BoundAssumption DEF TypeOK, MarkedPending, Boundaries

\* What is read of a message are facts of the instance.
LEMMA FactsType ==
  ASSUME NEW ms
  PROVE  FactsIn(ms) \subseteq Facts
  BY DEF FactsIn, FactOf, Facts

\* The statements due in a segment are messages of the segment, and what is said
\* later does not change them.
LEMMA DueLocal ==
  ASSUME NEW segment, NEW hints
  PROVE  /\ Due(segment, hints) \subseteq segment \cap hints
         /\ (\A m \in segment \cup hints : messages'[m] = messages[m])
              => Due(segment, hints)' = Due(segment, hints)
<1>1. Due(segment, hints) \subseteq segment \cap hints
  BY DEF Due, Shown, UserMessages, LatestHints
<1>2. ASSUME \A m \in segment \cup hints : messages'[m] = messages[m]
      PROVE  Due(segment, hints)' = Due(segment, hints)
  <2>1. UserMessages(segment)' = UserMessages(segment)
    BY <1>2 DEF UserMessages
  <2>2. Shown(segment)' = Shown(segment)
    BY <2>1 DEF Shown
  <2>3. LatestHints(hints)' = LatestHints(hints)
    BY <1>2 DEF LatestHints
  <2>4. Shown(segment) \subseteq segment
    BY DEF Shown, UserMessages
  <2>5. QED
    BY <1>2, <2>2, <2>3, <2>4 DEF Due
<1>3. QED
  BY <1>1, <1>2

\* Only messages that tell a fact have hints, or are about to get one.
TurnOK ==
  /\ \A s \in Sessions :
       pc[s] = "hint" => turn[s] \in 1..Len(messages) /\ messages[turn[s]] \in Statements
  /\ \A m \in hinted : m \in 1..Len(messages) /\ messages[m] \in Statements
  /\ \A s \in Sessions : job[s].hints \subseteq hinted

LEMMA LengthType ==
  ASSUME TypeOK
  PROVE  Len(messages) \in Boundaries
  BY BoundAssumption DEF TypeOK, Boundaries

LEMMA TurnStays ==
  ASSUME TypeOK, TurnOK, [Next]_vars
  PROVE  TurnOK'
<1> USE DEF Goto
<1>1. ASSUME NEW s \in Sessions, NEW kind \in Kinds \ {Assistant}, UserMessage(s, kind)
      PROVE  TurnOK'
  <2>1. /\ Len(messages') = Len(messages) + 1
        /\ messages'[Len(messages')] = kind
        /\ \A m \in 1..Len(messages) : messages'[m] = messages[m]
    BY <1>1 DEF UserMessage, TypeOK, Kinds
  <2>2. QED
    BY <1>1, <2>1 DEF UserMessage, TypeOK, TurnOK
<1>2. ASSUME NEW s \in Sessions, Reply(s) PROVE TurnOK'
  <2>1. /\ Len(messages') = Len(messages) + 1
        /\ \A m \in 1..Len(messages) : messages'[m] = messages[m]
    BY <1>2 DEF Reply, TypeOK, Kinds
  <2>2. QED
    BY <1>2, <2>1 DEF Reply, TypeOK, TurnOK
<1>3. ASSUME NEW s \in Sessions, RecordSignals(s) \/ TurnFails(s) \/ LeaveConversation(s)
                \/ Logout(s) \/ CloseTab(s) \/ Login(s) \/ ReadFails(s)
                \/ ExtractionFails(s) \/ Crash(s)
      PROVE  TurnOK'
  <2>1. \A t \in Sessions : job'[t].hints \subseteq job[t].hints
    BY <1>3 DEF RecordSignals, TurnFails, LeaveConversation, Logout, CloseTab, Login,
                ReadFails, ExtractionFails, Crash, TypeOK, NoJob
  <2>2. QED
    BY <1>3, <2>1 DEF RecordSignals, TurnFails, LeaveConversation, Logout, CloseTab, Login,
                ReadFails, ExtractionFails, Crash, TypeOK, TurnOK
<1>4. ASSUME NEW s \in Sessions, Extract(s) PROVE TurnOK'
  <2>1. /\ pc'[s] # "hint" /\ UNCHANGED <<messages, hinted, turn>>
        /\ \A t \in Sessions \ {s} : pc'[t] = pc[t] /\ job'[t] = job[t]
    BY <1>4 DEF Extract, CheckPending, LoadMessages, LoadState, LoadSignals, StartRun,
                Propose, PersistCandidate, PersistDraft, FinishRun, TypeOK
  <2>2. job'[s].hints \subseteq hinted
    <3>1. NoJob.hints = {} /\ job[s] \in Job /\ job[s].hints \subseteq hinted
      BY DEF NoJob, TypeOK, TurnOK
    <3>2. CASE CheckPending(s) \/ PersistDraft(s) \/ FinishRun(s) \/ StartRun(s)
      BY <3>1, <3>2 DEF CheckPending, StartRun, PersistDraft, FinishRun, TypeOK
    <3>3. CASE LoadMessages(s) \/ LoadSignals(s) \/ \E f \in Facts : PersistCandidate(s, f)
      BY <3>1, <3>3 DEF LoadMessages, LoadSignals, PersistCandidate, TypeOK, Job, NoJob
    <3>4. CASE LoadState(s)
      <4>1. job'[s].hints = IF memory.boundary = 0 THEN NoJob.hints ELSE job[s].hints
        <5> DEFINE seg == Segment(job[s].seen, memory.watermark, memory.boundary)
        <5>1. job' = [job EXCEPT ![s] = IF memory.boundary = 0 THEN NoJob
                                        ELSE [job[s] EXCEPT !.start = memory.watermark,
                                                !.end = memory.boundary, !.segment = seg]]
          BY <3>4 DEF LoadState
        <5> HIDE DEF seg
        <5>2. QED
          BY <3>1, <5>1 DEF TypeOK, Job
      <4>2. QED
        BY <3>1, <4>1
    <3>5. ASSUME NEW found, NEW spoilt, Propose(s, found, spoilt)
          PROVE  job'[s].hints \subseteq hinted
      <4>1. \E todo, changes : job' = [job EXCEPT ![s].spoilt = spoilt, ![s].todo = todo,
                                                 ![s].changes = changes]
        BY <3>5 DEF Propose
      <4>2. QED
        BY <3>1, <4>1 DEF TypeOK, Job
    <3>6. QED
      BY <1>4, <3>2, <3>3, <3>4, <3>5 DEF Extract
  <2>3. QED
    BY <2>1, <2>2 DEF TurnOK
<1>5. ASSUME NEW f \in Facts, Approve(f) PROVE TurnOK'
  BY <1>5 DEF Approve, TurnOK
<1>6. CASE UNCHANGED vars
  BY <1>6 DEF vars, TurnOK
<1>7. QED
  BY <1>1, <1>2, <1>3, <1>4, <1>5, <1>6 DEF Next, Turn

LEMMA TypeAndTurn == Spec => [](TypeOK /\ TurnOK)
<1>1. Init => TypeOK /\ TurnOK
  BY BoundAssumption
     DEF Init, TypeOK, TurnOK, Kinds, Positions, Boundaries, MemoryState, RunStatus,
         Steps, Job, NoJob
<1>2. TypeOK /\ TurnOK /\ [Next]_vars => TypeOK' /\ TurnOK'
  <2> SUFFICES ASSUME TypeOK, TurnOK, [Next]_vars PROVE TypeOK'
    BY TurnStays
  <2> USE DEF Goto
  <2>1. ASSUME NEW s \in Sessions, Turn(s) PROVE TypeOK'
    <3>1. ASSUME NEW kind \in Kinds \ {Assistant}, UserMessage(s, kind) PROVE TypeOK'
      BY <3>1, BoundAssumption
         DEF UserMessage, TypeOK, Kinds, Steps, Boundaries
    <3>2. CASE RecordSignals(s)
      <4>1. turn[s] \in Boundaries /\ turn[s] \in Positions
        BY <3>2, LengthType, BoundAssumption
           DEF RecordSignals, TypeOK, TurnOK, Positions, Boundaries
      <4>2. memory' \in MemoryState
        BY <3>2, <4>1, RequestType DEF RecordSignals, RequestForHint
      <4>3. QED
        BY <3>2, <4>1, <4>2 DEF RecordSignals, TypeOK, Steps
    <3>3. CASE Reply(s)
      BY <3>3, BoundAssumption DEF Reply, TypeOK, Kinds, Steps, Boundaries
    <3>4. CASE TurnFails(s)
      BY <3>4, BoundAssumption DEF TurnFails, TypeOK, Steps, Boundaries
    <3>5. QED
      BY <2>1, <3>1, <3>2, <3>3, <3>4 DEF Turn
  <2>2. ASSUME NEW s \in Sessions, LeaveConversation(s) \/ Logout(s) PROVE TypeOK'
    BY <2>2, MarkedPendingType DEF LeaveConversation, Logout, TypeOK, Steps
  <2>3. ASSUME NEW s \in Sessions, CloseTab(s) \/ Login(s) PROVE TypeOK'
    BY <2>3 DEF CloseTab, Login, TypeOK, Steps
  <2>4. ASSUME NEW s \in Sessions, Extract(s) PROVE TypeOK'
    <3> job[s] \in Job
      BY DEF TypeOK
    <3> NoJob \in Job
      BY BoundAssumption DEF NoJob, Job, Boundaries
    <3>1. CASE CheckPending(s)
      BY <3>1 DEF CheckPending, TypeOK, Steps
    <3>2. CASE LoadMessages(s)
      <4>1. [NoJob EXCEPT !.seen = Len(messages)] \in Job
        BY LengthType DEF NoJob, Job
      <4>2. QED
        BY <3>2, <4>1 DEF LoadMessages, TypeOK, Steps
    <3>3. CASE LoadState(s)
      <4>1. Segment(job[s].seen, memory.watermark, memory.boundary) \in SUBSET Positions
        BY SegmentType DEF TypeOK, Job, MemoryState
      <4>2. job'[s] \in Job
        BY <3>3, <4>1 DEF LoadState, TypeOK, Job, MemoryState
      <4>3. QED
        BY <3>3, <4>2 DEF LoadState, TypeOK, Steps
    <3>4. CASE LoadSignals(s)
      BY <3>4 DEF LoadSignals, TypeOK, Steps, Job
    <3>5. CASE StartRun(s)
      BY <3>5 DEF StartRun, RunOf, TypeOK, Steps, Job, RunStatus
    <3>6. ASSUME NEW found \in SUBSET Facts, NEW spoilt \in SUBSET Positions,
                 Propose(s, found, spoilt)
          PROVE  TypeOK'
      <4> DEFINE due == Due(job[s].segment, job[s].hints)
                 proposals == found \cup {FactOf(m) : m \in due \ spoilt}
                 changes == {f \in proposals : f.type \in ProfileTypes}
      <4>1. {FactOf(m) : m \in due \ spoilt} \subseteq Facts
        <5>1. \A m \in due : messages[m] \in Statements
          BY DueLocal DEF TurnOK
        <5>2. QED
          BY <5>1 DEF FactOf, Facts
      <4>2. proposals \subseteq Facts /\ changes \subseteq Facts
        BY <4>1
      <4>3. /\ job' = [job EXCEPT ![s].spoilt = spoilt, ![s].todo = proposals \ changes,
                                  ![s].changes = changes]
            /\ pc' = [pc EXCEPT ![s] = "persist"]
            /\ UNCHANGED <<messages, hinted, memory, runs, items, approved, turn, faults>>
        BY <3>6 DEF Propose
      <4> HIDE DEF proposals, changes
      <4>4. job'[s] \in Job
        <5>1. job'[s] = [job[s] EXCEPT !.spoilt = spoilt, !.todo = proposals \ changes,
                                       !.changes = changes]
          BY <4>3 DEF TypeOK
        <5>2. QED
          BY <4>2, <5>1 DEF Job
      <4>5. job' \in [Sessions -> Job]
        BY <4>3, <4>4 DEF TypeOK
      <4>6. QED
        BY <4>3, <4>5 DEF TypeOK, Steps
    <3>7. ASSUME NEW f \in Facts, PersistCandidate(s, f) PROVE TypeOK'
      <4>1. items' \in SUBSET ((Boundaries \X Boundaries) \X Facts)
        BY <3>7 DEF PersistCandidate, RunOf, Job, TypeOK
      <4>2. job' \in [Sessions -> Job]
        BY <3>7 DEF PersistCandidate, TypeOK, Job
      <4>3. QED
        BY <3>7, <4>1, <4>2 DEF PersistCandidate, TypeOK
    <3>8. CASE PersistDraft(s)
      <4>1. items' \in SUBSET ((Boundaries \X Boundaries) \X Facts)
        BY <3>8 DEF PersistDraft, RunOf, Job, TypeOK
      <4>2. QED
        BY <3>8, <4>1 DEF PersistDraft, TypeOK, Steps
    <3>9. CASE FinishRun(s)
      <4>1. memory' \in MemoryState
        BY <3>9, BoundAssumption DEF FinishRun, Extracted, MemoryState, Job, Boundaries
      <4>2. runs' \in [Boundaries \X Boundaries -> RunStatus]
        BY <3>9 DEF FinishRun, RunOf, Job, TypeOK, RunStatus
      <4>3. QED
        BY <3>9, <4>1, <4>2 DEF FinishRun, TypeOK, Steps
    <3>10. QED
      BY <2>4, <3>1, <3>2, <3>3, <3>4, <3>5, <3>6, <3>7, <3>8, <3>9 DEF Extract
  <2>5. ASSUME NEW s \in Sessions, ExtractionFails(s) PROVE TypeOK'
    <3>1. NoJob \in Job
      BY BoundAssumption DEF NoJob, Job, Boundaries
    <3>2. runs' \in [Boundaries \X Boundaries -> RunStatus]
      BY <2>5 DEF ExtractionFails, RunOf, Job, TypeOK, RunStatus
    <3>3. memory' \in MemoryState
      BY <2>5 DEF ExtractionFails, Retryable, TypeOK, MemoryState
    <3>4. faults' \in 0..MaxFaults
      BY <2>5, BoundAssumption DEF ExtractionFails, TypeOK
    <3>5. QED
      BY <2>5, <3>1, <3>2, <3>3, <3>4 DEF ExtractionFails, TypeOK, Steps
  <2>6. ASSUME NEW s \in Sessions, ReadFails(s) \/ Crash(s) PROVE TypeOK'
    <3>1. NoJob \in Job /\ 0 \in Boundaries
      BY BoundAssumption DEF NoJob, Job, Boundaries
    <3>2. faults' \in 0..MaxFaults
      BY <2>6, BoundAssumption DEF ReadFails, Crash, TypeOK
    <3>3. QED
      BY <2>6, <3>1, <3>2 DEF ReadFails, Crash, TypeOK, Steps
  <2>7. ASSUME NEW f \in Facts, Approve(f) PROVE TypeOK'
    BY <2>7 DEF Approve, TypeOK
  <2>8. CASE UNCHANGED vars
    BY <2>8 DEF vars, TypeOK
  <2>9. QED
    BY <2>1, <2>2, <2>3, <2>4, <2>5, <2>6, <2>7, <2>8 DEF Next
<1>3. QED
  BY <1>1, <1>2, PTL DEF Spec

\* The variables always have their types: in particular no boundary, watermark or
\* proposal ever refers to a message beyond the bound of the conversation.
THEOREM TypeCorrect == Spec => []TypeOK
  BY TypeAndTurn, PTL

-----------------------------------------------------------------------------
(***************************************************************************)
(* A user with one session.  The script that extracts is then the only one *)
(* that runs, so what it read at the start stays true until it finishes:   *)
(* that is the strengthening the safety invariants need.                   *)
(***************************************************************************)

OneSession == \A s, t \in Sessions : s = t

Extracting == {"signals", "start", "model", "persist", "finish"}
Ready(s)   == {f \in Facts : <<RunOf(s), f>> \in items} \cup approved

RequestOK ==
  /\ memory.watermark <= Len(messages)
  /\ memory.pending => memory.watermark < memory.boundary /\ memory.boundary <= Len(messages)
  /\ ~memory.pending => memory.boundary = 0

MessagesOK ==
  /\ hinted \subseteq 1..Len(messages)
  /\ \A s \in Sessions :
       pc[s] = "hint" => turn[s] = Len(messages) /\ memory.watermark < Len(messages)

JobOK(s) ==
  /\ pc[s] \in Extracting \cup {"load", "state"} => memory.pending
  /\ pc[s] = "state" => job[s].seen = Len(messages)
  /\ pc[s] \in Extracting =>
       /\ job[s].start = memory.watermark
       /\ job[s].end = memory.boundary
       /\ job[s].segment = (memory.watermark + 1)..memory.boundary
  /\ pc[s] \in Extracting \ {"signals"} => job[s].hints = hinted \cap job[s].segment
  /\ pc[s] = "persist" =>
       \A m \in Due(job[s].segment, job[s].hints) \ job[s].spoilt :
         FactOf(m) \in job[s].todo \cup job[s].changes \cup Ready(s)
  /\ pc[s] = "finish" =>
       \A m \in Due(job[s].segment, job[s].hints) \ job[s].spoilt : FactOf(m) \in Ready(s)

ControlInv == RequestOK /\ MessagesOK /\ \A s \in Sessions : JobOK(s)

OneInv ==
  /\ ControlInv
  /\ StatementsArePendingOrExtracted
  /\ CompletedRunsTile

LEMMA InitOneInv == Init => OneInv
  BY DEF Init, OneInv, ControlInv, RequestOK, MessagesOK, JobOK, Extracting,
         StatementsArePendingOrExtracted, CompletedRunsTile,
         Completed, Boundaries, Positions

\* A message is only ever added at the end, and only by a chat turn.
LEMMA MessagesGrow ==
  ASSUME TypeOK, NEW kind \in Kinds, messages' = Append(messages, kind)
  PROVE  /\ Len(messages') = Len(messages) + 1
         /\ \A m \in 1..Len(messages) : messages'[m] = messages[m]
  BY DEF TypeOK

LEMMA TurnControl ==
  ASSUME OneSession, TypeOK, TurnOK, ControlInv, NEW s \in Sessions, Turn(s)
  PROVE  ControlInv'
<1> USE DEF Goto
<1> \A t \in Sessions : t = s
  BY DEF OneSession
<1> Len(messages) \in Nat /\ memory \in MemoryState
  BY DEF TypeOK
<1>1. ASSUME NEW kind \in Kinds \ {Assistant}, UserMessage(s, kind) PROVE ControlInv'
  <2>1. /\ Len(messages') = Len(messages) + 1
        /\ \A m \in 1..Len(messages) : messages'[m] = messages[m]
    BY <1>1, MessagesGrow DEF UserMessage
  <2>2. RequestOK'
    BY <1>1, <2>1 DEF UserMessage, ControlInv, RequestOK, MemoryState, Boundaries
  <2>3. MessagesOK'
    BY <1>1, <2>1
       DEF UserMessage, ControlInv, RequestOK, MessagesOK, MemoryState, Boundaries, TypeOK
  <2>4. pc'[s] \in {"hint", "reply"}
    BY <1>1 DEF UserMessage, TypeOK
  <2>5. JobOK(s)'
    BY <2>4 DEF JobOK, Extracting
  <2>6. QED
    BY <2>2, <2>3, <2>5 DEF ControlInv
<1>2. CASE RecordSignals(s)
  <2>1. turn[s] = Len(messages) /\ memory.watermark < Len(messages)
    BY <1>2 DEF RecordSignals, ControlInv, MessagesOK
  <2>2. RequestOK'
    BY <1>2, <2>1
       DEF RecordSignals, RequestForHint, RequestAt, RequestOK, MemoryState, Boundaries
  <2>3. pc'[s] = "reply"
    BY <1>2 DEF RecordSignals, TypeOK
  <2>4. MessagesOK'
    <3>1. hinted' \subseteq 1..Len(messages')
      <4>1. memory.watermark \in Nat
        BY BoundAssumption DEF MemoryState, Boundaries
      <4>2. Len(messages) \in 1..Len(messages)
        BY <2>1, <4>1
      <4>3. QED
        BY <1>2, <2>1, <4>2 DEF RecordSignals, ControlInv, MessagesOK
    <3>2. QED
      BY <2>3, <3>1 DEF MessagesOK
  <2>5. JobOK(s)'
    BY <2>3 DEF JobOK, Extracting
  <2>6. QED
    BY <2>2, <2>4, <2>5 DEF ControlInv
<1>3. CASE Reply(s)
  <2>1. /\ Len(messages') = Len(messages) + 1
        /\ \A m \in 1..Len(messages) : messages'[m] = messages[m]
    BY <1>3, MessagesGrow DEF Reply, Kinds
  <2>2. pc'[s] = "idle"
    BY <1>3 DEF Reply, TypeOK
  <2>3. RequestOK' /\ MessagesOK'
    BY <1>3, <2>1, <2>2
       DEF Reply, ControlInv, RequestOK, MessagesOK, MemoryState, Boundaries
  <2>4. JobOK(s)'
    BY <2>2 DEF JobOK, Extracting
  <2>5. QED
    BY <2>3, <2>4 DEF ControlInv
<1>4. CASE TurnFails(s)
  <2>1. pc'[s] = "idle"
    BY <1>4 DEF TurnFails, TypeOK
  <2>2. RequestOK' /\ MessagesOK' /\ JobOK(s)'
    BY <1>4, <2>1
       DEF TurnFails, ControlInv, RequestOK, MessagesOK, JobOK, Extracting
  <2>3. QED
    BY <2>2 DEF ControlInv
<1>5. QED
  BY <1>1, <1>2, <1>3, <1>4 DEF Turn

\* Requests, visits that end and crashes find or leave no extraction running.
LEMMA VisitControl ==
  ASSUME OneSession, TypeOK, ControlInv, NEW s \in Sessions,
         \/ LeaveConversation(s) \/ Logout(s) \/ CloseTab(s) \/ Login(s)
         \/ ReadFails(s) \/ ExtractionFails(s) \/ Crash(s)
  PROVE  ControlInv'
<1> USE DEF Goto
<1> \A t \in Sessions : t = s
  BY DEF OneSession
<1> Len(messages) \in Nat /\ memory \in MemoryState
  BY DEF TypeOK
<1>1. pc'[s] \in {"idle", "out", "check"}
  BY DEF LeaveConversation, Logout, CloseTab, Login, ReadFails, ExtractionFails, Crash, TypeOK
<1>2. UNCHANGED <<messages, hinted>>
  BY DEF LeaveConversation, Logout, CloseTab, Login, ReadFails, ExtractionFails, Crash
<1>3. JobOK(s)'
  BY <1>1 DEF JobOK, Extracting
<1>4. RequestOK' /\ memory'.watermark = memory.watermark
  <2>1. CASE LeaveConversation(s) \/ Logout(s)
    <3>1. memory' = MarkedPending
      BY <2>1 DEF LeaveConversation, Logout
    <3>2. QED
      BY <1>2, <3>1
         DEF MarkedPending, RequestAt, ControlInv, RequestOK, MemoryState, Boundaries
  <2>2. CASE CloseTab(s) \/ Login(s) \/ ReadFails(s) \/ Crash(s)
    BY <1>2, <2>2 DEF CloseTab, Login, ReadFails, Crash, ControlInv, RequestOK
  <2>3. CASE ExtractionFails(s)
    <3>1. memory.pending
      BY <2>3 DEF ExtractionFails, ControlInv, JobOK, Extracting
    <3>2. memory' = memory
      BY <2>3, <3>1 DEF ExtractionFails, Retryable, MemoryState
    <3>3. QED
      BY <1>2, <3>2 DEF ControlInv, RequestOK
  <2>4. QED
    BY <2>1, <2>2, <2>3
<1>5. MessagesOK'
  BY <1>1, <1>2 DEF ControlInv, MessagesOK
<1>6. QED
  BY <1>3, <1>4, <1>5 DEF ControlInv

\* Until it finishes, an extraction works on the segment the state still asks for.
LEMMA ExtractControl ==
  ASSUME OneSession, TypeOK, ControlInv, NEW s \in Sessions, Extract(s)
  PROVE  ControlInv'
<1> USE DEF Goto
<1> \A t \in Sessions : t = s
  BY DEF OneSession
<1> /\ Len(messages) \in Nat /\ memory \in MemoryState /\ job[s] \in Job
    /\ pc \in [Sessions -> Steps] /\ job \in [Sessions -> Job]
  BY DEF TypeOK
<1> /\ RequestOK /\ MessagesOK /\ JobOK(s)
    /\ memory.watermark \in Nat /\ memory.boundary \in Nat /\ memory.pending \in BOOLEAN
  BY BoundAssumption DEF ControlInv, MemoryState, Boundaries
<1>1. CASE CheckPending(s)
  <2>1. pc'[s] = IF memory.pending THEN "load" ELSE "idle"
    BY <1>1 DEF CheckPending
  <2>2. RequestOK' /\ MessagesOK' /\ JobOK(s)'
    BY <1>1, <2>1 DEF CheckPending, RequestOK, MessagesOK, JobOK, Extracting
  <2>3. QED
    BY <2>2 DEF ControlInv
<1>2. CASE LoadMessages(s)
  <2>1. pc'[s] = "state" /\ job'[s] = [NoJob EXCEPT !.seen = Len(messages)]
    BY <1>2 DEF LoadMessages
  <2>2. memory.pending
    BY <1>2 DEF LoadMessages, JobOK
  <2>3. RequestOK' /\ MessagesOK' /\ JobOK(s)'
    BY <1>2, <2>1, <2>2
       DEF LoadMessages, RequestOK, MessagesOK, JobOK, Extracting, NoJob
  <2>4. QED
    BY <2>3 DEF ControlInv
<1>3. CASE LoadState(s)
  <2>1. memory.pending /\ job[s].seen = Len(messages)
    BY <1>3 DEF LoadState, JobOK
  <2>2. memory.boundary # 0 /\ memory.watermark < memory.boundary
        /\ memory.boundary <= Len(messages)
    BY <2>1 DEF RequestOK
  <2>3. pc'[s] = "signals"
    BY <1>3, <2>2 DEF LoadState
  <2>4. /\ job'[s].start = memory.watermark
        /\ job'[s].end = memory.boundary
        /\ job'[s].segment = Segment(Len(messages), memory.watermark, memory.boundary)
    BY <1>3, <2>1, <2>2 DEF LoadState, Job
  <2>5. job'[s].segment = (memory.watermark + 1)..memory.boundary
    BY <2>2, <2>4 DEF Segment
  <2>6. RequestOK' /\ MessagesOK'
    BY <1>3, <2>3 DEF LoadState, RequestOK, MessagesOK
  <2>7. JobOK(s)'
    BY <1>3, <2>1, <2>3, <2>4, <2>5 DEF LoadState, JobOK, Extracting
  <2>8. QED
    BY <2>6, <2>7 DEF ControlInv
<1>4. CASE LoadSignals(s)
  <2>1. pc'[s] = "start" /\ job'[s] = [job[s] EXCEPT !.hints = hinted \cap job[s].segment]
    BY <1>4 DEF LoadSignals
  <2>2. RequestOK' /\ MessagesOK'
    BY <1>4, <2>1 DEF LoadSignals, RequestOK, MessagesOK
  <2>3. JobOK(s)'
    BY <1>4, <2>1 DEF LoadSignals, JobOK, Extracting, Job
  <2>4. QED
    BY <2>2, <2>3 DEF ControlInv
<1>5. CASE StartRun(s)
  <2>1. CASE runs[RunOf(s)] = "completed"
    <3>1. pc'[s] = "idle"
      BY <1>5, <2>1 DEF StartRun
    <3>2. RequestOK' /\ MessagesOK' /\ JobOK(s)'
      BY <1>5, <3>1 DEF StartRun, RequestOK, MessagesOK, JobOK, Extracting
    <3>3. QED
      BY <3>2 DEF ControlInv
  <2>2. CASE runs[RunOf(s)] # "completed"
    <3>1. pc'[s] = "model" /\ UNCHANGED job
      BY <1>5, <2>2 DEF StartRun
    <3>2. RequestOK' /\ MessagesOK' /\ JobOK(s)'
      BY <1>5, <3>1 DEF StartRun, RequestOK, MessagesOK, JobOK, Extracting
    <3>3. QED
      BY <3>2 DEF ControlInv
  <2>3. QED
    BY <2>1, <2>2
<1>6. ASSUME NEW found \in SUBSET Facts, NEW spoilt \in SUBSET Positions,
             Propose(s, found, spoilt)
      PROVE  ControlInv'
  <2> DEFINE due == Due(job[s].segment, job[s].hints)
             proposals == found \cup {FactOf(m) : m \in due \ spoilt}
             changes == {f \in proposals : f.type \in ProfileTypes}
  <2>1. /\ pc[s] = "model" /\ pc'[s] = "persist"
        /\ job' = [job EXCEPT ![s].spoilt = spoilt, ![s].todo = proposals \ changes,
                              ![s].changes = changes]
        /\ UNCHANGED <<messages, hinted, memory, runs, items, approved, turn, faults>>
    BY <1>6 DEF Propose
  <2>2. \A m \in due \ spoilt : FactOf(m) \in (proposals \ changes) \cup changes
    OBVIOUS
  <2> HIDE DEF proposals, changes
  <2>3. /\ job'[s].start = job[s].start /\ job'[s].end = job[s].end
        /\ job'[s].segment = job[s].segment /\ job'[s].hints = job[s].hints
        /\ job'[s].spoilt = spoilt /\ job'[s].todo = proposals \ changes
        /\ job'[s].changes = changes
    BY <2>1 DEF Job
  <2>4. RequestOK' /\ MessagesOK'
    BY <2>1 DEF RequestOK, MessagesOK
  <2>5. Due(job[s].segment, job[s].hints)' = due
    BY <2>1, <2>3 DEF Due, Shown, UserMessages, LatestHints
  <2>6. \A m : FactOf(m)' = FactOf(m)
    BY <2>1 DEF FactOf
  <2>7. JobOK(s)'
    BY <2>1, <2>2, <2>3, <2>5, <2>6 DEF JobOK, Extracting
  <2>8. QED
    BY <2>4, <2>7 DEF ControlInv
<1>7. ASSUME NEW f \in Facts, PersistCandidate(s, f) PROVE ControlInv'
  <2>1. /\ pc[s] = "persist" /\ pc'[s] = "persist"
        /\ job'[s] = [job[s] EXCEPT !.todo = job[s].todo \ {f}]
        /\ UNCHANGED <<messages, hinted, memory, runs, approved, pc, turn, faults>>
    BY <1>7 DEF PersistCandidate
  <2>2. /\ job'[s].start = job[s].start /\ job'[s].end = job[s].end
        /\ job'[s].segment = job[s].segment /\ job'[s].hints = job[s].hints
        /\ job'[s].spoilt = job[s].spoilt /\ job'[s].todo = job[s].todo \ {f}
        /\ job'[s].changes = job[s].changes
    BY <2>1 DEF Job
  <2>3. Ready(s) \cup {f} \subseteq Ready(s)'
    BY <1>7, <2>2 DEF PersistCandidate, Ready, RunOf
  <2>4. RequestOK' /\ MessagesOK'
    BY <2>1 DEF RequestOK, MessagesOK
  <2>5. Due(job[s].segment, job[s].hints)' = Due(job[s].segment, job[s].hints)
    BY <2>1, <2>2 DEF Due, Shown, UserMessages, LatestHints
  <2>6. \A m : FactOf(m)' = FactOf(m)
    BY <2>1 DEF FactOf
  <2>7. \A m \in Due(job[s].segment, job[s].hints) \ job[s].spoilt :
          FactOf(m) \in job'[s].todo \cup job'[s].changes \cup Ready(s)'
    BY <2>1, <2>2, <2>3 DEF JobOK
  <2>8. JobOK(s)'
    BY <2>1, <2>2, <2>5, <2>6, <2>7 DEF JobOK, Extracting
  <2>9. QED
    BY <2>4, <2>8 DEF ControlInv
<1>8. CASE PersistDraft(s)
  <2>1. /\ pc[s] = "persist" /\ pc'[s] = "finish" /\ job[s].todo = {}
        /\ UNCHANGED <<messages, hinted, memory, runs, approved, turn, job, faults>>
        /\ items' = items \cup ({RunOf(s)} \X job[s].changes)
    BY <1>8 DEF PersistDraft
  <2>2. Ready(s) \cup job[s].changes \subseteq Ready(s)'
    <3>1. RunOf(s)' = RunOf(s) /\ Facts' = Facts
      BY <2>1 DEF RunOf, Facts
    <3>2. job[s].changes \subseteq Facts
      BY DEF Job
    <3>3. QED
      BY <2>1, <3>1, <3>2 DEF Ready
  <2>3. RequestOK' /\ MessagesOK'
    BY <2>1 DEF RequestOK, MessagesOK
  <2>4. Due(job[s].segment, job[s].hints)' = Due(job[s].segment, job[s].hints)
    BY <2>1 DEF Due, Shown, UserMessages, LatestHints
  <2>5. \A m : FactOf(m)' = FactOf(m)
    BY <2>1 DEF FactOf
  <2>6. \A m \in Due(job[s].segment, job[s].hints) \ job[s].spoilt : FactOf(m) \in Ready(s)'
    BY <2>1, <2>2 DEF JobOK
  <2>7. JobOK(s)'
    BY <2>1, <2>4, <2>5, <2>6 DEF JobOK, Extracting
  <2>8. QED
    BY <2>3, <2>7 DEF ControlInv
<1>9. CASE FinishRun(s)
  <2>1. pc'[s] = "idle" /\ UNCHANGED <<messages, hinted>>
    BY <1>9 DEF FinishRun
  <2>2. memory.pending /\ job[s].end = memory.boundary
    BY <1>9 DEF FinishRun, JobOK, Extracting
  <2>3. RequestOK'
    BY <1>9, <2>1, <2>2 DEF FinishRun, Extracted, RequestOK
  <2>4. MessagesOK' /\ JobOK(s)'
    BY <2>1 DEF MessagesOK, JobOK, Extracting
  <2>5. QED
    BY <2>3, <2>4 DEF ControlInv
<1>10. QED
  BY <1>1, <1>2, <1>3, <1>4, <1>5, <1>6, <1>7, <1>8, <1>9 DEF Extract

LEMMA ControlFrame ==
  ASSUME ControlInv, UNCHANGED <<messages, hinted, memory, items, pc, turn, job>>,
         approved \subseteq approved'
  PROVE  ControlInv'
<1>1. RequestOK'
  BY DEF ControlInv, RequestOK
<1>2. MessagesOK'
  BY DEF ControlInv, MessagesOK
<1>3. ASSUME NEW s \in Sessions PROVE JobOK(s)'
  <2>1. Due(job[s].segment, job[s].hints)' = Due(job[s].segment, job[s].hints)
    BY DEF Due, Shown, UserMessages, LatestHints
  <2>2. Ready(s) \subseteq Ready(s)' /\ \A m : FactOf(m)' = FactOf(m)
    BY DEF Ready, RunOf, FactOf, Facts
  <2>3. JobOK(s)
    BY DEF ControlInv
  <2>4. /\ pc[s] = "persist" =>
              (\A m \in Due(job[s].segment, job[s].hints) \ job[s].spoilt :
                 FactOf(m) \in job[s].todo \cup job[s].changes \cup Ready(s))'
        /\ pc[s] = "finish" =>
              (\A m \in Due(job[s].segment, job[s].hints) \ job[s].spoilt :
                 FactOf(m) \in Ready(s))'
    BY <2>1, <2>2, <2>3 DEF JobOK
  <2>5. QED
    BY <2>3, <2>4 DEF JobOK
<1>4. QED
  BY <1>1, <1>2, <1>3 DEF ControlInv

LEMMA ControlStays ==
  ASSUME OneSession, TypeOK, TurnOK, ControlInv, [Next]_vars
  PROVE  ControlInv'
<1>1. ASSUME NEW f \in Facts, Approve(f) PROVE ControlInv'
  BY <1>1, ControlFrame DEF Approve
<1>2. CASE UNCHANGED vars
  BY <1>2, ControlFrame DEF vars
<1>3. QED
  BY <1>1, <1>2, TurnControl, VisitControl, ExtractControl DEF Next

\* A failure never finds its own run completed: the completed runs end at the watermark,
\* and the run at work begins there.
LEMMA RunAtWork ==
  ASSUME TypeOK, ControlInv, CompletedRunsTile, NEW s \in Sessions, pc[s] \in Extracting
  PROVE  /\ RunOf(s) = <<memory.watermark, memory.boundary>>
         /\ RunOf(s) \in Boundaries \X Boundaries
         /\ memory.watermark < memory.boundary
         /\ RunOf(s) \notin Completed
<1>1. /\ memory.watermark \in Boundaries /\ memory.boundary \in Boundaries
      /\ memory.watermark \in Nat /\ memory.boundary \in Nat
  BY BoundAssumption DEF TypeOK, MemoryState, Boundaries
<1>2. /\ memory.pending
      /\ job[s].start = memory.watermark /\ job[s].end = memory.boundary
  BY DEF ControlInv, JobOK
<1>3. memory.watermark < memory.boundary
  BY <1>2 DEF ControlInv, RequestOK
<1>4. ASSUME RunOf(s) \in Completed PROVE FALSE
  BY <1>1, <1>2, <1>3, <1>4 DEF RunOf, CompletedRunsTile
<1>5. QED
  BY <1>1, <1>2, <1>3, <1>4 DEF RunOf

\* The set of completed runs only changes when an extraction finishes.
LEMMA CompletedStep ==
  ASSUME TypeOK, ControlInv, CompletedRunsTile, [Next]_vars
  PROVE  \/ /\ Completed' = Completed
            /\ memory'.watermark = memory.watermark
         \/ \E s \in Sessions :
              /\ FinishRun(s)
              /\ Completed' = Completed \cup {RunOf(s)}
<1> USE DEF Goto
<1>1. ASSUME NEW s \in Sessions, FinishRun(s)
      PROVE  Completed' = Completed \cup {RunOf(s)}
  <2>1. RunOf(s) \in Boundaries \X Boundaries
    BY <1>1, RunAtWork DEF FinishRun, Extracting
  <2>2. QED
    BY <1>1, <2>1 DEF FinishRun, Completed, TypeOK
<1>2. ASSUME NEW s \in Sessions, StartRun(s) \/ ExtractionFails(s)
      PROVE  Completed' = Completed /\ memory'.watermark = memory.watermark
  <2>1. CASE StartRun(s)
    <3>1. RunOf(s) \in Boundaries \X Boundaries
      BY <2>1, RunAtWork DEF StartRun, Extracting
    <3>2. QED
      BY <2>1, <3>1 DEF StartRun, Completed, TypeOK
  <2>2. CASE ExtractionFails(s)
    <3>1. RunOf(s) \in Boundaries \X Boundaries /\ RunOf(s) \notin Completed
      BY <2>2, RunAtWork DEF ExtractionFails, Extracting
    <3>2. memory'.watermark = memory.watermark
      BY <2>2 DEF ExtractionFails, Retryable, TypeOK, MemoryState
    <3>3. Completed' = Completed
      BY <2>2, <3>1 DEF ExtractionFails, Completed, TypeOK
    <3>4. QED
      BY <3>2, <3>3
  <2>3. QED
    BY <1>2, <2>1, <2>2
<1>3. ASSUME NEW s \in Sessions,
             \/ RecordSignals(s) \/ LeaveConversation(s) \/ Logout(s)
      PROVE  Completed' = Completed /\ memory'.watermark = memory.watermark
  BY <1>3 DEF RecordSignals, LeaveConversation, Logout, RequestForHint, RequestAt,
              MarkedPending, Completed, TypeOK, MemoryState
<1>4. ASSUME UNCHANGED <<runs, memory>>
      PROVE  Completed' = Completed /\ memory'.watermark = memory.watermark
  BY <1>4 DEF Completed
<1>5. ASSUME NEW s \in Sessions, Turn(s) \/ CloseTab(s) \/ Login(s) \/ ReadFails(s) \/ Crash(s)
      PROVE  RecordSignals(s) \/ UNCHANGED <<runs, memory>>
  BY <1>5 DEF Turn, UserMessage, Reply, TurnFails, CloseTab, Login, ReadFails, Crash
<1>6. ASSUME NEW s \in Sessions, Extract(s)
      PROVE  StartRun(s) \/ FinishRun(s) \/ UNCHANGED <<runs, memory>>
  BY <1>6 DEF Extract, CheckPending, LoadMessages, LoadState, LoadSignals, Propose,
              PersistCandidate, PersistDraft
<1>7. ASSUME NEW f \in Facts, Approve(f) PROVE UNCHANGED <<runs, memory>>
  BY <1>7 DEF Approve
<1>8. CASE UNCHANGED vars
  BY <1>4, <1>8 DEF vars
<1>9. QED
  BY <1>1, <1>2, <1>3, <1>4, <1>5, <1>6, <1>7, <1>8 DEF Next

LEMMA TileStays ==
  ASSUME TypeOK, ControlInv, CompletedRunsTile, [Next]_vars
  PROVE  CompletedRunsTile'
<1>1. CASE Completed' = Completed /\ memory'.watermark = memory.watermark
  BY <1>1 DEF CompletedRunsTile, Covers
<1>2. ASSUME NEW s \in Sessions, FinishRun(s), Completed' = Completed \cup {RunOf(s)}
      PROVE  CompletedRunsTile'
  <2>1. /\ RunOf(s) = <<memory.watermark, memory.boundary>>
        /\ memory.watermark < memory.boundary
    BY <1>2, RunAtWork DEF FinishRun, Goto, Extracting
  <2>2. memory'.watermark = memory.boundary
    BY <1>2, <2>1 DEF FinishRun, Extracted, RunOf
  <2>3. memory.watermark \in Nat /\ memory.boundary \in Nat
    BY BoundAssumption DEF TypeOK, MemoryState, Boundaries
  <2>4. \A r \in Completed : r[1] \in Nat /\ r[2] \in Nat /\ r[2] <= memory.watermark
    BY BoundAssumption DEF Completed, CompletedRunsTile, Boundaries
  <2>5. \A m \in 1..memory.boundary : \E r \in Completed' : Covers(r, m)
    BY <1>2, <2>1, <2>3 DEF CompletedRunsTile, Covers
  <2>6. \A r \in Completed' : r[2] <= memory.boundary
    BY <1>2, <2>1, <2>3, <2>4
  <2>7. ASSUME NEW r \in Completed', NEW q \in Completed',
               NEW m \in Positions, Covers(r, m), Covers(q, m)
        PROVE  r = q
    <3>1. m \in Nat
      BY BoundAssumption DEF Positions
    <3>2. CASE r \in Completed /\ q \in Completed
      BY <2>7, <3>2 DEF CompletedRunsTile
    <3>3. CASE r = RunOf(s) /\ q \in Completed
      BY <2>1, <2>3, <2>4, <2>7, <3>1, <3>3 DEF Covers
    <3>4. CASE r \in Completed /\ q = RunOf(s)
      BY <2>1, <2>3, <2>4, <2>7, <3>1, <3>4 DEF Covers
    <3>5. QED
      BY <1>2, <3>2, <3>3, <3>4
  <2>8. QED
    BY <2>2, <2>5, <2>6, <2>7 DEF CompletedRunsTile, Covers
<1>3. QED
  BY <1>1, <1>2, CompletedStep
LEMMA StatementsStay ==
  ASSUME OneSession, TypeOK, ControlInv, StatementsArePendingOrExtracted, [Next]_vars
  PROVE  StatementsArePendingOrExtracted'
<1> USE DEF Goto
<1> /\ Len(messages) \in Nat /\ memory \in MemoryState
    /\ memory.watermark \in Nat /\ memory.boundary \in Nat
    /\ RequestOK /\ hinted \subseteq 1..Len(messages)
  BY BoundAssumption DEF TypeOK, MemoryState, Boundaries, ControlInv, MessagesOK
<1>1. ASSUME NEW s \in Sessions, RecordSignals(s) PROVE StatementsArePendingOrExtracted'
  <2>1. turn[s] = Len(messages)
    BY <1>1 DEF RecordSignals, ControlInv, MessagesOK
  <2>2. memory'.pending /\ memory'.boundary = Len(messages)
    BY <1>1, <2>1 DEF RecordSignals, RequestForHint, RequestAt, MemoryState
  <2>3. \A m \in hinted' : m <= Len(messages)
    BY <1>1, <2>1 DEF RecordSignals
  <2>4. QED
    BY <2>2, <2>3 DEF StatementsArePendingOrExtracted
<1>2. ASSUME NEW s \in Sessions, LeaveConversation(s) \/ Logout(s)
      PROVE  StatementsArePendingOrExtracted'
  <2>1. hinted' = hinted /\ memory' = MarkedPending
    BY <1>2 DEF LeaveConversation, Logout
  <2>2. CASE Len(messages) \in {0, memory.watermark}
    BY <2>1, <2>2 DEF MarkedPending, StatementsArePendingOrExtracted
  <2>3. CASE Len(messages) \notin {0, memory.watermark}
    BY <2>1, <2>3 DEF MarkedPending, RequestAt, MemoryState, StatementsArePendingOrExtracted
  <2>4. QED
    BY <2>2, <2>3
<1>3. ASSUME NEW s \in Sessions, FinishRun(s) PROVE StatementsArePendingOrExtracted'
  <2>1. memory.pending /\ job[s].end = memory.boundary
    BY <1>3 DEF FinishRun, ControlInv, JobOK, Extracting
  <2>2. hinted' = hinted /\ memory'.watermark = memory.boundary
    BY <1>3, <2>1 DEF FinishRun, Extracted
  <2>3. \A m \in hinted : m <= memory.boundary
    BY <2>1 DEF RequestOK, StatementsArePendingOrExtracted
  <2>4. \A m \in hinted : m \in Nat
    OBVIOUS
  <2>5. QED
    BY <2>2, <2>3, <2>4 DEF StatementsArePendingOrExtracted
<1>4. ASSUME NEW s \in Sessions, ExtractionFails(s) PROVE StatementsArePendingOrExtracted'
  <2>1. memory.pending
    BY <1>4 DEF ExtractionFails, ControlInv, JobOK, Extracting
  <2>2. memory' = memory /\ hinted' = hinted
    BY <1>4, <2>1 DEF ExtractionFails, Retryable, MemoryState
  <2>3. QED
    BY <2>2 DEF StatementsArePendingOrExtracted
<1>5. ASSUME UNCHANGED <<hinted, memory>> PROVE StatementsArePendingOrExtracted'
  BY <1>5 DEF StatementsArePendingOrExtracted
<1>6. ASSUME NEW s \in Sessions, Turn(s) \/ CloseTab(s) \/ Login(s) \/ ReadFails(s) \/ Crash(s)
      PROVE  RecordSignals(s) \/ UNCHANGED <<hinted, memory>>
  BY <1>6 DEF Turn, UserMessage, Reply, TurnFails, CloseTab, Login, ReadFails, Crash
<1>7. ASSUME NEW s \in Sessions, Extract(s)
      PROVE  FinishRun(s) \/ UNCHANGED <<hinted, memory>>
  BY <1>7 DEF Extract, CheckPending, LoadMessages, LoadState, LoadSignals, StartRun,
              Propose, PersistCandidate, PersistDraft
<1>8. ASSUME NEW f \in Facts, Approve(f) PROVE UNCHANGED <<hinted, memory>>
  BY <1>8 DEF Approve
<1>9. CASE UNCHANGED vars
  BY <1>5, <1>9 DEF vars
<1>10. QED
  BY <1>1, <1>2, <1>3, <1>4, <1>5, <1>6, <1>7, <1>8, <1>9 DEF Next

LEMMA OneInvStays ==
  ASSUME OneSession, TypeOK, TurnOK, OneInv, [Next]_vars
  PROVE  OneInv'
  BY ControlStays, StatementsStay, TileStays DEF OneInv

\* For a user with one session, whatever fails or crashes and whatever the model
\* proposes: recorded statements are extracted or still requested, and completed runs cut
\* the conversation into consecutive pieces.
THEOREM SafetyOneSession ==
  ASSUME OneSession
  PROVE  Spec => [](StatementsArePendingOrExtracted /\ CompletedRunsTile)
<1>1. Init => OneInv
  BY InitOneInv
<1>2. TypeOK /\ TurnOK /\ OneInv /\ [Next]_vars => OneInv'
  BY OneInvStays
<1>3. OneInv => StatementsArePendingOrExtracted /\ CompletedRunsTile
  BY DEF OneInv
<1>4. QED
  BY <1>1, <1>2, <1>3, TypeAndTurn, PTL DEF Spec

\* For a user with one session no recorded statement is forgotten: it is behind the
\* watermark, or inside a request that the next login finds.
THEOREM KeptOneSession ==
  ASSUME OneSession
  PROVE  Spec => []StatementsArePendingOrExtracted
BY SafetyOneSession, PTL

\* For a user with one session no message is extracted by two completed runs and none is
\* passed over between them.
THEOREM TilesOneSession ==
  ASSUME OneSession
  PROVE  Spec => []CompletedRunsTile
BY SafetyOneSession, PTL

\* For a user with one session the position up to which the conversation has been
\* extracted only advances.
THEOREM AdvanceOneSession ==
  ASSUME OneSession
  PROVE  Spec => WatermarkNeverMovesBack
<1>1. TypeOK /\ OneInv /\ [Next]_vars => memory.watermark <= memory'.watermark
  <2> SUFFICES ASSUME TypeOK, OneInv, [Next]_vars
               PROVE  memory.watermark <= memory'.watermark
    OBVIOUS
  <2>1. memory.watermark \in Nat /\ memory.boundary \in Nat
    BY BoundAssumption DEF TypeOK, MemoryState, Boundaries
  <2>2. ASSUME NEW s \in Sessions, FinishRun(s)
        PROVE  memory.watermark <= memory'.watermark
    <3>1. memory.watermark < memory.boundary /\ job[s].end = memory.boundary
      BY <2>2 DEF FinishRun, Goto, OneInv, ControlInv, RequestOK, JobOK, Extracting
    <3>2. QED
      BY <2>1, <2>2, <3>1 DEF FinishRun, Extracted
  <2>3. QED
    BY <2>1, <2>2, CompletedStep DEF OneInv
<1>2. TypeOK /\ TurnOK /\ OneInv /\ [Next]_vars => OneInv'
  BY OneInvStays
<1>3. QED
  BY <1>1, <1>2, InitOneInv, TypeAndTurn, PTL DEF Spec, WatermarkNeverMovesBack
\* For a user with one session a request for an extraction is only withdrawn when the
\* extraction has reached the requested boundary.
THEOREM ServedOneSession ==
  ASSUME OneSession
  PROVE  Spec => RequestsAreServed
<1> DEFINE Served == memory.pending => \/ memory'.pending
                                       \/ memory.boundary <= memory'.watermark
<1>1. TypeOK /\ OneInv /\ [Next]_vars => Served
  <2> SUFFICES ASSUME TypeOK, OneInv, [Next]_vars, memory.pending
               PROVE  memory'.pending \/ memory.boundary <= memory'.watermark
    OBVIOUS
  <2> USE DEF Goto
  <2> memory \in MemoryState /\ memory.boundary \in Nat
    BY BoundAssumption DEF TypeOK, MemoryState, Boundaries
  <2>1. ASSUME NEW s \in Sessions,
               RecordSignals(s) \/ LeaveConversation(s) \/ Logout(s) \/ ExtractionFails(s)
        PROVE  memory'.pending
    BY <2>1 DEF RecordSignals, RequestForHint, RequestAt, LeaveConversation, Logout,
                MarkedPending, ExtractionFails, Retryable, MemoryState
  <2>2. ASSUME NEW s \in Sessions, FinishRun(s)
        PROVE  memory.boundary <= memory'.watermark
    <3>1. job[s].end = memory.boundary
      BY <2>2 DEF FinishRun, OneInv, ControlInv, JobOK, Extracting
    <3>2. QED
      BY <2>2, <3>1 DEF FinishRun, Extracted
  <2>3. ASSUME NEW s \in Sessions,
               Turn(s) \/ CloseTab(s) \/ Login(s) \/ ReadFails(s) \/ Crash(s)
        PROVE  RecordSignals(s) \/ memory' = memory
    BY <2>3 DEF Turn, UserMessage, Reply, TurnFails, CloseTab, Login, ReadFails, Crash
  <2>4. ASSUME NEW s \in Sessions, Extract(s) PROVE FinishRun(s) \/ memory' = memory
    BY <2>4 DEF Extract, CheckPending, LoadMessages, LoadState, LoadSignals, StartRun,
                Propose, PersistCandidate, PersistDraft
  <2>5. ASSUME NEW f \in Facts, Approve(f) PROVE memory' = memory
    BY <2>5 DEF Approve
  <2>6. CASE UNCHANGED vars
    BY <2>6 DEF vars
  <2>7. QED
    BY <2>1, <2>2, <2>3, <2>4, <2>5, <2>6 DEF Next
<1>2. TypeOK /\ TurnOK /\ OneInv /\ [Next]_vars => OneInv'
  BY OneInvStays
<1>3. QED
  BY <1>1, <1>2, InitOneInv, TypeAndTurn, PTL DEF Spec, RequestsAreServed

-----------------------------------------------------------------------------
(***************************************************************************)
(* The refinement of ReviewInbox.  A run that stores its proposals offers  *)
(* items, a run that finishes works the conversation off.                  *)
(***************************************************************************)

\* What is to be stored was told in the segment.
ItemsAreShown ==
  \A s \in Sessions :
    pc[s] = "persist" => job[s].todo \cup job[s].changes \subseteq FactsIn(Shown(job[s].segment))

\* A script that is not storing, or goes on storing what it had, keeps this.
LEMMA ShownKept ==
  ASSUME ItemsAreShown, UNCHANGED messages,
         \A s \in Sessions : pc'[s] = "persist" =>
           /\ pc[s] = "persist" /\ job'[s].segment = job[s].segment
           /\ job'[s].todo \subseteq job[s].todo /\ job'[s].changes = job[s].changes
  PROVE  ItemsAreShown'
<1>1. \A segment : FactsIn(Shown(segment))' = FactsIn(Shown(segment))
  BY DEF FactsIn, FactOf, Shown, UserMessages
<1>2. QED
  BY <1>1 DEF ItemsAreShown

LEMMA ItemsStep ==
  ASSUME OneSession, TypeOK, TurnOK, ItemsAreShown, [Next]_vars
  PROVE  ItemsAreShown'
<1> USE DEF Goto
<1> pc \in [Sessions -> Steps] /\ job \in [Sessions -> Job]
  BY DEF TypeOK
<1>1. ASSUME NEW s \in Sessions, pc'[s] # "persist" PROVE ItemsAreShown'
  BY <1>1 DEF OneSession, ItemsAreShown
<1>2. ASSUME NEW s \in Sessions, Turn(s) PROVE pc'[s] # "persist"
  BY <1>2 DEF Turn, UserMessage, RecordSignals, Reply, TurnFails
<1>3. ASSUME NEW s \in Sessions,
             \/ LeaveConversation(s) \/ Logout(s) \/ CloseTab(s) \/ Login(s)
             \/ ReadFails(s) \/ ExtractionFails(s) \/ Crash(s)
      PROVE  pc'[s] # "persist"
  BY <1>3 DEF LeaveConversation, Logout, CloseTab, Login, ReadFails, ExtractionFails, Crash
<1>4. ASSUME NEW s \in Sessions,
             \/ CheckPending(s) \/ LoadMessages(s) \/ LoadState(s) \/ LoadSignals(s)
             \/ StartRun(s) \/ PersistDraft(s) \/ FinishRun(s)
      PROVE  pc'[s] # "persist"
  BY <1>4 DEF CheckPending, LoadMessages, LoadState, LoadSignals, StartRun, PersistDraft, FinishRun
<1>5. ASSUME NEW s \in Sessions, NEW found, NEW spoilt, Propose(s, found, spoilt)
      PROVE  ItemsAreShown'
  <2> DEFINE due == Due(job[s].segment, job[s].hints)
             proposals == found \cup {FactOf(m) : m \in due \ spoilt}
             changes == {f \in proposals : f.type \in ProfileTypes}
  <2>1. proposals \subseteq FactsIn(Shown(job[s].segment))
    <3>1. \A m \in due : m \in Shown(job[s].segment) /\ messages[m] \in Statements
      <4>1. due \subseteq job[s].hints
        BY DueLocal
      <4>2. QED
        BY <4>1 DEF Due, TurnOK
    <3>2. QED
      BY <1>5, <3>1 DEF Propose, FactsIn
  <2>2. changes \subseteq proposals
    OBVIOUS
  <2>3. /\ job' = [job EXCEPT ![s].spoilt = spoilt, ![s].todo = proposals \ changes,
                              ![s].changes = changes]
        /\ UNCHANGED messages
    BY <1>5 DEF Propose
  <2> HIDE DEF proposals, changes
  <2>4. /\ job'[s].segment = job[s].segment /\ job'[s].todo = proposals \ changes
        /\ job'[s].changes = changes
    BY <2>3 DEF Job
  <2>5. (job[s].todo \cup job[s].changes \subseteq FactsIn(Shown(job[s].segment)))'
    <3>1. FactsIn(Shown(job[s].segment))' = FactsIn(Shown(job[s].segment))
      BY <2>3, <2>4 DEF FactsIn, FactOf, Shown, UserMessages
    <3>2. QED
      BY <2>1, <2>2, <2>4, <3>1
  <2>6. QED
    BY <2>5 DEF OneSession, ItemsAreShown
<1>6. ASSUME NEW s \in Sessions, NEW f \in Facts, PersistCandidate(s, f)
      PROVE  ItemsAreShown'
  <2>1. /\ pc[s] = "persist" /\ UNCHANGED <<pc, messages>>
        /\ job' = [job EXCEPT ![s].todo = @ \ {f}]
    BY <1>6 DEF PersistCandidate
  <2>2. /\ job'[s].segment = job[s].segment /\ job'[s].todo = job[s].todo \ {f}
        /\ job'[s].changes = job[s].changes
    BY <2>1 DEF Job
  <2>3. \A t \in Sessions : t = s
    BY DEF OneSession
  <2>4. QED
    BY <2>1, <2>2, <2>3, ShownKept
<1>7. ASSUME NEW f \in Facts, Approve(f) PROVE ItemsAreShown'
  BY <1>7, ShownKept DEF Approve
<1>8. CASE UNCHANGED vars
  BY <1>8, ShownKept DEF vars
<1>9. QED
  BY <1>1, <1>2, <1>3, <1>4, <1>5, <1>6, <1>7, <1>8 DEF Next, Extract

\* What the refinement shows of the items and of the spoilt copies.
Offers  == {<<i[1][1], i[2]>> : i \in items}
Spoiled == UNION {job[s].spoilt : s \in Sessions}

LEMMA InboxStarts ==
  ASSUME Init
  PROVE  Inbox!InboxInit
<1>1. Offers = {} /\ Spoiled = {}
  BY DEF Init, Offers, Spoiled, NoJob
<1>2. messages = <<>> /\ hinted = {} /\ memory.watermark = 0 /\ approved = {}
  BY DEF Init
<1>3. QED
  BY <1>1, <1>2 DEF Inbox!InboxInit, Offers, Spoiled

\* Storing a proposal offers it for review.
LEMMA PersistOffers ==
  ASSUME OneSession, TypeOK, ControlInv, ItemsAreShown, NEW s \in Sessions,
         (\E f \in Facts : PersistCandidate(s, f)) \/ PersistDraft(s)
  PROVE  Inbox!Offer
<1> USE DEF Goto
<1> DEFINE told == {Inbox!Fact(m) : m \in {n \in Inbox!Unread : messages[n] \in Statements}}
<1>1. /\ pc[s] = "persist" /\ UNCHANGED <<messages, hinted, memory, approved>>
      /\ job[s] \in Job /\ job \in [Sessions -> Job]
  BY DEF PersistCandidate, PersistDraft, TypeOK
<1>2. /\ job[s].segment = (memory.watermark + 1)..memory.boundary
      /\ job[s].start = memory.watermark
      /\ memory.boundary <= Len(messages) /\ Len(messages) \in Nat
      /\ memory.watermark \in Nat /\ memory.boundary \in Nat
  BY <1>1, BoundAssumption
     DEF ControlInv, JobOK, RequestOK, Extracting, TypeOK, MemoryState, Boundaries
<1>3. job[s].todo \cup job[s].changes \subseteq told
  <2>1. \A m \in Shown(job[s].segment) : m \in job[s].segment
    BY DEF Shown, UserMessages
  <2>2. job[s].segment \subseteq Inbox!Unread
    BY <1>2 DEF Inbox!Unread
  <2>3. FactsIn(Shown(job[s].segment)) \subseteq told
    BY <2>1, <2>2 DEF FactsIn, FactOf, Inbox!Fact
  <2>4. QED
    BY <1>1, <2>3 DEF ItemsAreShown
<1>4. Spoiled' = Spoiled
  <2>1. job'[s].spoilt = job[s].spoilt
    BY <1>1 DEF PersistCandidate, PersistDraft, Job
  <2>2. QED
    BY <2>1 DEF OneSession, Spoiled
<1>5. \E facts \in SUBSET told : Offers' = Offers \cup ({memory.watermark} \X facts)
  <2>1. ASSUME NEW f \in Facts, PersistCandidate(s, f)
        PROVE  \E facts \in SUBSET told : Offers' = Offers \cup ({memory.watermark} \X facts)
    <3>1. f \in told
      BY <1>3, <2>1 DEF PersistCandidate
    <3>2. CASE items' = items
      <4>1. Offers' = Offers \cup ({memory.watermark} \X {})
        BY <3>2 DEF Offers
      <4>2. QED
        BY <4>1
    <3>3. CASE items' = items \cup {<<RunOf(s), f>>}
      <4>1. RunOf(s)[1] = memory.watermark
        BY <1>2 DEF RunOf
      <4>2. Offers' = Offers \cup {<<memory.watermark, f>>}
        <5>1. /\ <<RunOf(s), f>>[1][1] = memory.watermark
              /\ <<RunOf(s), f>>[2] = f
          BY <4>1
        <5> DEFINE new == <<RunOf(s), f>>
        <5> HIDE DEF new
        <5>2. QED
          BY <3>3, <5>1 DEF Offers, new
      <4>3. {memory.watermark} \X {f} = {<<memory.watermark, f>>}
        OBVIOUS
      <4> HIDE DEF told
      <4>4. QED
        BY <3>1, <4>2, <4>3
    <3>4. QED
      BY <2>1, <3>2, <3>3 DEF PersistCandidate
  <2>2. CASE PersistDraft(s)
    <3>1. items' = items \cup ({RunOf(s)} \X job[s].changes)
      BY <2>2 DEF PersistDraft
    <3>2. RunOf(s)[1] = memory.watermark
      BY <1>2 DEF RunOf
    <3>3. Offers' = Offers \cup ({memory.watermark} \X job[s].changes)
      <4> DEFINE new == {RunOf(s)} \X job[s].changes
      <4>1. \A i \in new : <<i[1][1], i[2]>> \in {memory.watermark} \X job[s].changes
        BY <3>2
      <4>2. \A j \in {memory.watermark} \X job[s].changes :
              \E i \in new : j = <<i[1][1], i[2]>>
        <5> SUFFICES ASSUME NEW f \in job[s].changes
                     PROVE  \E i \in new : <<memory.watermark, f>> = <<i[1][1], i[2]>>
          OBVIOUS
        <5>1. <<RunOf(s), f>> \in new
          OBVIOUS
        <5>2. <<RunOf(s), f>>[1][1] = memory.watermark /\ <<RunOf(s), f>>[2] = f
          BY <3>2
        <5>3. QED
          BY <5>1, <5>2
      <4> HIDE DEF new
      <4>3. QED
        BY <3>1, <4>1, <4>2 DEF Offers, new
    <3>4. job[s].changes \in SUBSET told
      BY <1>3
    <3> HIDE DEF told
    <3>5. QED
      BY <3>3, <3>4
  <2>3. QED
    BY <2>1, <2>2
<1>6. QED
  BY <1>1, <1>4, <1>5 DEF Inbox!Offer, Offers, Spoiled

\* Every step of the extraction is a step of the inbox or leaves it as it was.
LEMMA InboxStep ==
  ASSUME OneSession, TypeOK, TurnOK, ControlInv, ItemsAreShown, [Next]_vars
  PROVE  [Inbox!InboxNext]_(Inbox!inboxVars)
<1> USE DEF Goto
<1> \A t \in Sessions : job[t] \in Job
  BY DEF TypeOK
<1>1. ASSUME UNCHANGED <<messages, hinted, items, approved>>,
             memory'.watermark = memory.watermark, Spoiled' = Spoiled
      PROVE  UNCHANGED Inbox!inboxVars
  BY <1>1 DEF Inbox!inboxVars, Spoiled
<1>2. ASSUME UNCHANGED <<messages, hinted, items, approved>>,
             memory'.watermark = memory.watermark, Spoiled' = {}
      PROVE  [Inbox!InboxNext]_(Inbox!inboxVars)
  <2>1. Inbox!Spoil
    BY <1>2 DEF Inbox!Spoil, Spoiled
  <2>2. QED
    BY <2>1 DEF Inbox!InboxNext
<1>3. ASSUME NEW s \in Sessions
      PROVE  /\ job'[s].spoilt = job[s].spoilt => Spoiled' = Spoiled
             /\ job'[s].spoilt = {} => Spoiled' = {}
  BY DEF OneSession, Spoiled
<1>4. ASSUME NEW s \in Sessions, Turn(s)
      PROVE  [Inbox!InboxNext]_(Inbox!inboxVars)
  <2>0. job' = job
    BY <1>4 DEF Turn, UserMessage, RecordSignals, Reply, TurnFails
  <2>1. CASE (\E kind \in Kinds \ {Assistant} : UserMessage(s, kind)) \/ Reply(s)
    <3>1. /\ UNCHANGED <<hinted, memory, items, approved>>
          /\ \E kind \in Kinds : messages' = Append(messages, kind)
      BY <2>1 DEF UserMessage, Reply, Kinds
    <3>2. Inbox!Say
      BY <2>0, <3>1 DEF Inbox!Say, Kinds
    <3>3. QED
      BY <3>2 DEF Inbox!InboxNext
  <2>2. CASE RecordSignals(s)
    <3>1. /\ turn[s] = Len(messages) /\ memory.watermark < Len(messages)
          /\ messages[turn[s]] \in Statements
      BY <2>2 DEF RecordSignals, ControlInv, MessagesOK, TurnOK
    <3>2. /\ UNCHANGED <<messages, items, approved>> /\ hinted' = hinted \cup {turn[s]}
          /\ memory'.watermark = memory.watermark
      BY <2>2 DEF RecordSignals, RequestForHint, RequestAt, TypeOK, MemoryState
    <3>3. turn[s] \in Inbox!Unread
      BY <3>1, BoundAssumption DEF TypeOK, MemoryState, Boundaries, Inbox!Unread
    <3>4. Inbox!Note
      BY <2>0, <3>1, <3>2, <3>3 DEF Inbox!Note
    <3>5. QED
      BY <3>4 DEF Inbox!InboxNext
  <2>3. CASE TurnFails(s)
    BY <1>1, <1>3, <2>0, <2>3 DEF TurnFails
  <2>4. QED
    BY <1>4, <2>1, <2>2, <2>3 DEF Turn
<1>5. ASSUME NEW s \in Sessions,
             \/ LeaveConversation(s) \/ Logout(s) \/ CloseTab(s) \/ Login(s)
             \/ ReadFails(s) \/ ExtractionFails(s) \/ Crash(s)
      PROVE  [Inbox!InboxNext]_(Inbox!inboxVars)
  <2>1. /\ UNCHANGED <<messages, hinted, items, approved>>
        /\ memory'.watermark = memory.watermark
    BY <1>5 DEF LeaveConversation, Logout, CloseTab, Login, ReadFails, ExtractionFails, Crash,
                MarkedPending, RequestAt, Retryable, TypeOK, MemoryState
  <2>2. job' = job \/ job'[s].spoilt = {}
    BY <1>5 DEF LeaveConversation, Logout, CloseTab, Login, ReadFails, ExtractionFails, Crash,
                TypeOK, NoJob
  <2>3. QED
    BY <1>1, <1>2, <1>3, <2>1, <2>2
<1>6. ASSUME NEW s \in Sessions,
             \/ CheckPending(s) \/ LoadMessages(s) \/ LoadState(s) \/ LoadSignals(s)
             \/ StartRun(s)
      PROVE  [Inbox!InboxNext]_(Inbox!inboxVars)
  <2>1. UNCHANGED <<messages, hinted, items, approved, memory>>
    BY <1>6 DEF CheckPending, LoadMessages, LoadState, LoadSignals, StartRun
  <2>2. job'[s].spoilt = job[s].spoilt \/ job'[s].spoilt = {}
    <3>1. NoJob.spoilt = {} /\ job[s] \in Job
      BY DEF NoJob
    <3>2. CASE CheckPending(s) \/ StartRun(s)
      BY <3>1, <3>2 DEF CheckPending, StartRun, TypeOK
    <3>3. CASE LoadMessages(s) \/ LoadSignals(s)
      BY <3>1, <3>3 DEF LoadMessages, LoadSignals, TypeOK, Job, NoJob
    <3>4. CASE LoadState(s)
      <4> DEFINE seg == Segment(job[s].seen, memory.watermark, memory.boundary)
      <4>1. job' = [job EXCEPT ![s] = IF memory.boundary = 0 THEN NoJob
                                      ELSE [job[s] EXCEPT !.start = memory.watermark,
                                              !.end = memory.boundary, !.segment = seg]]
        BY <3>4 DEF LoadState
      <4> HIDE DEF seg
      <4>2. QED
        BY <3>1, <4>1 DEF TypeOK, Job
    <3>5. QED
      BY <1>6, <3>2, <3>3, <3>4
  <2>3. QED
    BY <1>1, <1>2, <1>3, <2>1, <2>2
<1>7. ASSUME NEW s \in Sessions, NEW found, NEW spoilt, Propose(s, found, spoilt)
      PROVE  [Inbox!InboxNext]_(Inbox!inboxVars)
  <2>1. /\ UNCHANGED <<messages, hinted, items, approved, memory>>
        /\ job'[s].spoilt = spoilt /\ pc[s] = "model"
    BY <1>7 DEF Propose, TypeOK, Job
  <2>2. spoilt \subseteq job[s].segment \cap hinted
    <3>1. spoilt \subseteq Due(job[s].segment, job[s].hints)
      BY <1>7 DEF Propose
    <3>2. Due(job[s].segment, job[s].hints) \subseteq job[s].segment \cap job[s].hints
      BY DueLocal
    <3>3. QED
      BY <3>1, <3>2 DEF TurnOK
  <2>3. job[s].segment \subseteq Inbox!Unread
    <3>1. /\ job[s].segment = (memory.watermark + 1)..memory.boundary
          /\ memory.boundary <= Len(messages) /\ Len(messages) \in Nat
          /\ memory.watermark \in Nat /\ memory.boundary \in Nat
      BY <2>1, BoundAssumption
         DEF ControlInv, JobOK, RequestOK, Extracting, TypeOK, MemoryState, Boundaries
    <3>2. QED
      BY <3>1 DEF Inbox!Unread
  <2>4. Spoiled' = spoilt
    BY <2>1 DEF OneSession, Spoiled
  <2>5. Inbox!Spoil
    BY <2>1, <2>2, <2>3, <2>4 DEF Inbox!Spoil, Spoiled
  <2>6. QED
    BY <2>5 DEF Inbox!InboxNext
<1>8. ASSUME NEW s \in Sessions, FinishRun(s)
      PROVE  Inbox!WorkOff
  <2> DEFINE segment == (memory.watermark + 1)..memory.boundary
             hints == hinted \cap segment
  <2>1. /\ job[s].end = memory.boundary /\ memory.watermark < memory.boundary
        /\ memory.boundary <= Len(messages) /\ job[s].start = memory.watermark
        /\ job[s].segment = segment /\ job[s].hints = hints
        /\ \A m \in Due(segment, hints) \ job[s].spoilt : FactOf(m) \in Ready(s)
    BY <1>8 DEF FinishRun, ControlInv, JobOK, RequestOK, Extracting
  <2>2. memory.boundary \in Inbox!Unread
    BY <2>1, BoundAssumption DEF TypeOK, MemoryState, Boundaries, Inbox!Unread
  <2>3. /\ UNCHANGED <<messages, hinted, items, approved>>
        /\ memory'.watermark = memory.boundary
    BY <1>8, <2>1 DEF FinishRun, Extracted
  <2>4. Spoiled = job[s].spoilt /\ Spoiled' = {}
    <3>1. job'[s].spoilt = {}
      BY <1>8 DEF FinishRun, TypeOK, NoJob
    <3>2. QED
      BY <1>3, <3>1 DEF OneSession, Spoiled
  <2>5. Inbox!Newest(hints) = LatestHints(hints)
    BY DEF Inbox!Newest, LatestHints
  <2>6. Inbox!Readable(segment) = Shown(segment)
    <3>1. \A S : Inbox!Cardinality(S) = Cardinality(S)
      BY DEF Inbox!Cardinality, Cardinality
    <3>2. QED
      BY <3>1 DEF Inbox!Readable, Shown, UserMessages
  <2>7. ASSUME NEW n \in {m \in Inbox!Newest(hints) \cap Inbox!Readable(segment) :
                            messages[m].valid} \ Spoiled
        PROVE  <<memory.watermark, Inbox!Fact(n)>> \in Offers \/ Inbox!Fact(n) \in approved
    <3>1. n \in Due(segment, hints) \ job[s].spoilt
      BY <2>4, <2>5, <2>6 DEF Due
    <3>2. FactOf(n) \in Ready(s) /\ Inbox!Fact(n) = FactOf(n)
      BY <2>1, <3>1 DEF Inbox!Fact, FactOf
    <3>3. RunOf(s)[1] = memory.watermark
      BY <2>1 DEF RunOf
    <3>4. QED
      BY <3>2, <3>3 DEF Ready, Offers
  <2>8. QED
    BY <2>2, <2>3, <2>4, <2>7 DEF Inbox!WorkOff, Offers, Spoiled
<1>9. ASSUME NEW s \in Sessions, Extract(s)
      PROVE  [Inbox!InboxNext]_(Inbox!inboxVars)
  BY <1>6, <1>7, <1>8, <1>9, PersistOffers DEF Extract, Inbox!InboxNext
<1>10. ASSUME NEW f \in Facts, Approve(f) PROVE [Inbox!InboxNext]_(Inbox!inboxVars)
  <2>1. /\ UNCHANGED <<messages, hinted, memory, items, job>>
        /\ approved' = approved \cup {f}
    BY <1>10 DEF Approve
  <2>2. \E r \in Boundaries \X Boundaries : <<r[1], f>> \in Offers
    BY <1>10 DEF Approve, Offers
  <2>3. Inbox!Learn
    BY <2>1, <2>2 DEF Inbox!Learn, Offers
  <2>4. QED
    BY <2>3 DEF Inbox!InboxNext
<1>11. CASE UNCHANGED vars
  BY <1>1, <1>11 DEF vars, Spoiled
<1>12. QED
  BY <1>4, <1>5, <1>9, <1>10, <1>11 DEF Next

\* For a user with one session the extraction, with its runs, its request flag and its
\* transactions, implements the inbox: the conversation is worked off from front to back,
\* and no part is left behind before the newest statement of each type in it lies in the
\* user's inbox or is a memory, unless the input or the validation leaves it out.
THEOREM InboxOneSession ==
  ASSUME OneSession
  PROVE  Spec => ImplementsInbox
<1>1. Init => Inbox!InboxInit /\ OneInv /\ ItemsAreShown
  <2>1. Init => ItemsAreShown
    BY DEF Init, ItemsAreShown
  <2>2. QED
    BY <2>1, InboxStarts, InitOneInv
<1>2. TypeOK /\ TurnOK /\ OneInv /\ ItemsAreShown /\ [Next]_vars => OneInv' /\ ItemsAreShown'
  BY OneInvStays, ItemsStep
<1>3. TypeOK /\ TurnOK /\ OneInv /\ ItemsAreShown /\ [Next]_vars
        => [Inbox!InboxNext]_(Inbox!inboxVars)
  BY InboxStep DEF OneInv
<1>4. QED
  BY <1>1, <1>2, <1>3, TypeAndTurn, PTL DEF Spec, ImplementsInbox, Inbox!InboxSpec
=============================================================================
