----------------------- MODULE ConversationExtraction -----------------------
(***************************************************************************)
(* Extraction of durable facts from one conversation.                      *)
(*                                                                         *)
(* A chat turn stores the user's message, records the statements that the  *)
(* deterministic rules detect in it ("hints") and stores the reply.  When  *)
(* the user leaves the conversation its last message becomes the pending   *)
(* boundary, and an extractor reads the messages between the watermark and *)
(* the boundary, asks a model for proposals, stores them one transaction   *)
(* at a time and moves the watermark.  Every arrow between two database    *)
(* transactions is a place where another browser session may act and where *)
(* the process may die; a login finds the pending work and retries it.     *)
(*                                                                         *)
(* A message is identified by its position in the conversation; position 0 *)
(* stands for "none" (a NULL watermark or boundary).  A statement has the  *)
(* type of its signal and a value, which together are the fact that may    *)
(* reach the review list; it is valid when validation lets the proposal    *)
(* made of it pass: its message, which is the evidence, speaks of nobody   *)
(* else, and its values fit the schema.                                    *)
(***************************************************************************)
EXTENDS Integers, Sequences, FiniteSets

CONSTANTS
  Sessions,       \* browser sessions of the user; each runs one script at a time
  MemoryTypes,    \* signal types "memory.*"
  ProfileTypes,   \* signal types "profile.*"
  Values,         \* what is said
  Statements,     \* the user messages that tell a fact, by a rule of the detection
  Plain,          \* a user message that tells none
  Assistant,      \* a reply
  Budget,         \* how many user messages the model's input holds
  MaxMessages,    \* bound: messages of the conversation
  MaxFaults       \* bound: crashes and failed transactions

ASSUME StatementAssumption ==
  /\ MemoryTypes \cap ProfileTypes = {}
  /\ Statements \subseteq [type : MemoryTypes \cup ProfileTypes, value : Values, valid : BOOLEAN]
  /\ Plain \notin Statements
  /\ Assistant \notin Statements \cup {Plain}

ASSUME BoundAssumption == Budget \in Nat /\ MaxMessages \in Nat /\ MaxFaults \in Nat

VARIABLES
  messages,  \* the conversation, oldest first
  hinted,    \* positions whose statement is recorded as a memory signal
  memory,    \* the conversation's extraction state
  runs,      \* extraction runs, one per (start watermark, end boundary)
  items,     \* the review items: which run proposes which fact
  approved,  \* facts the user has approved as memories
  pc,        \* what each session is doing
  turn,      \* the user message a session is answering
  job,       \* the extraction a session is running
  faults     \* crashes and failures so far

vars == <<messages, hinted, memory, runs, items, approved, pc, turn, job, faults>>

Kinds      == Statements \cup {Plain, Assistant}
Facts      == {[type |-> k.type, value |-> k.value] : k \in Statements}
Positions  == 1..MaxMessages
Boundaries == 0..MaxMessages

MemoryState == [watermark : Boundaries, pending : BOOLEAN, boundary : Boundaries]
RunStatus   == {"absent", "processing", "completed", "failed"}
Steps       == {"out", "idle", "hint", "reply", "check", "load", "state", "signals",
                "start", "model", "persist", "finish"}
Job         == [seen : Boundaries, start : Boundaries, end : Boundaries,
                segment : SUBSET Positions, hints : SUBSET Positions,
                spoilt : SUBSET Positions,
                todo : SUBSET Facts, changes : SUBSET Facts]
NoJob       == [seen |-> 0, start |-> 0, end |-> 0,
                segment |-> {}, hints |-> {}, spoilt |-> {},
                todo |-> {}, changes |-> {}]

TypeOK ==
  /\ messages \in Seq(Kinds) /\ Len(messages) <= MaxMessages
  /\ hinted \in SUBSET Positions
  /\ memory \in MemoryState
  /\ runs \in [Boundaries \X Boundaries -> RunStatus]
  /\ items \in SUBSET ((Boundaries \X Boundaries) \X Facts)
  /\ approved \in SUBSET Facts
  /\ pc \in [Sessions -> Steps]
  /\ turn \in [Sessions -> Boundaries]
  /\ job \in [Sessions -> Job]
  /\ faults \in 0..MaxFaults

Init ==
  /\ messages = <<>>
  /\ hinted = {}
  /\ memory = [watermark |-> 0, pending |-> FALSE, boundary |-> 0]
  /\ runs = [r \in Boundaries \X Boundaries |-> "absent"]
  /\ items = {}
  /\ approved = {}
  /\ pc = [s \in Sessions |-> "out"]
  /\ turn = [s \in Sessions |-> 0]
  /\ job = [s \in Sessions |-> NoJob]
  /\ faults = 0

Goto(s, from, to) == pc[s] = from /\ pc' = [pc EXCEPT ![s] = to]

-----------------------------------------------------------------------------
(***************************************************************************)
(* The chat turn: respond_to_user and the classify_intent node.            *)
(***************************************************************************)

\* The user's message is stored in a transaction of its own.
UserMessage(s, kind) ==
  /\ Len(messages) < MaxMessages
  /\ Goto(s, "idle", IF kind \in Statements THEN "hint" ELSE "reply")
  /\ messages' = Append(messages, kind)
  /\ turn' = [turn EXCEPT ![s] = Len(messages')]
  /\ UNCHANGED <<hinted, memory, runs, items, approved, job, faults>>

RequestAt(m) == [memory EXCEPT !.pending = TRUE, !.boundary = m]

\* Mutant: the hint is stored, the request is forgotten.
HintWithoutRequest(m) == memory

\* Recording a message's signals also requests an extraction up to it.
RequestForHint(m) == RequestAt(m)

RecordSignals(s) ==
  /\ Goto(s, "hint", "reply")
  /\ hinted' = hinted \cup {turn[s]}
  /\ memory' = RequestForHint(turn[s])
  /\ UNCHANGED <<messages, runs, items, approved, turn, job, faults>>

Reply(s) ==
  /\ Len(messages) < MaxMessages
  /\ Goto(s, "reply", "idle")
  /\ messages' = Append(messages, Assistant)
  /\ turn' = [turn EXCEPT ![s] = 0]
  /\ UNCHANGED <<hinted, memory, runs, items, approved, job, faults>>

\* The agent raises: the user's message stays, without a reply and, if it
\* raised early enough, without its signals.
TurnFails(s) ==
  /\ pc[s] \in {"hint", "reply"}
  /\ pc' = [pc EXCEPT ![s] = "idle"]
  /\ turn' = [turn EXCEPT ![s] = 0]
  /\ UNCHANGED <<messages, hinted, memory, runs, items, approved, job, faults>>

-----------------------------------------------------------------------------
(***************************************************************************)
(* Requests for an extraction: leaving the conversation, logout, login.    *)
(***************************************************************************)

\* The last message becomes the boundary, unless it is the watermark.
MarkedPending ==
  IF Len(messages) \in {0, memory.watermark} THEN memory ELSE RequestAt(Len(messages))

\* "New conversation" or another conversation is selected: mark, then extract.
LeaveConversation(s) ==
  /\ Goto(s, "idle", "check")
  /\ memory' = MarkedPending
  /\ UNCHANGED <<messages, hinted, runs, items, approved, turn, job, faults>>

\* Logout only marks.
Logout(s) ==
  /\ Goto(s, "idle", "out")
  /\ memory' = MarkedPending
  /\ UNCHANGED <<messages, hinted, runs, items, approved, turn, job, faults>>

\* The tab is closed: nothing runs, so nothing is marked.
CloseTab(s) ==
  /\ Goto(s, "idle", "out")
  /\ UNCHANGED <<messages, hinted, memory, runs, items, approved, turn, job, faults>>

\* The first page after a login recovers work that is pending with a boundary.
Login(s) ==
  /\ Goto(s, "out", IF memory.pending /\ memory.boundary # 0 THEN "check" ELSE "idle")
  /\ UNCHANGED <<messages, hinted, memory, runs, items, approved, turn, job, faults>>

-----------------------------------------------------------------------------
(***************************************************************************)
(* ConversationMemoryExtractor.extract, one action per transaction.        *)
(***************************************************************************)

CheckPending(s) ==
  /\ Goto(s, "check", IF memory.pending THEN "load" ELSE "idle")
  /\ UNCHANGED <<messages, hinted, memory, runs, items, approved, turn, job, faults>>

LoadMessages(s) ==
  /\ Goto(s, "load", "state")
  /\ job' = [job EXCEPT ![s] = [NoJob EXCEPT !.seen = Len(messages)]]
  /\ UNCHANGED <<messages, hinted, memory, runs, items, approved, turn, faults>>

\* Mutant: the slice begins at the watermark's own message.
SegmentFromWatermark(seen, start, end) ==
  (IF start \in 1..seen THEN start ELSE 1) .. (IF end <= seen THEN end ELSE seen)

\* The messages after the watermark up to the boundary.  A watermark that is not
\* among the messages read means "from the first", such a boundary "to the last".
Segment(seen, start, end) ==
  (IF start <= seen THEN start + 1 ELSE 1) .. (IF end <= seen THEN end ELSE seen)

\* The state is read after the messages; without a boundary the extraction stops
\* with an error before a run exists.
LoadState(s) ==
  /\ Goto(s, "state", IF memory.boundary = 0 THEN "idle" ELSE "signals")
  /\ job' = [job EXCEPT ![s] =
                IF memory.boundary = 0 THEN NoJob
                ELSE [@ EXCEPT !.start = memory.watermark,
                               !.end = memory.boundary,
                               !.segment = Segment(job[s].seen, memory.watermark, memory.boundary)]]
  /\ UNCHANGED <<messages, hinted, memory, runs, items, approved, turn, faults>>

LoadSignals(s) ==
  /\ Goto(s, "signals", "start")
  /\ job' = [job EXCEPT ![s].hints = hinted \cap job[s].segment]
  /\ UNCHANGED <<messages, hinted, memory, runs, items, approved, turn, faults>>

RunOf(s) == <<job[s].start, job[s].end>>

\* One run per segment: a completed one is returned as it is, any other one is
\* taken up again.  Nothing excludes a second extractor of the same run.
StartRun(s) ==
  LET again == runs[RunOf(s)] = "completed" IN
  /\ Goto(s, "start", IF again THEN "idle" ELSE "model")
  /\ runs' = IF again THEN runs ELSE [runs EXCEPT ![RunOf(s)] = "processing"]
  /\ job' = IF again THEN [job EXCEPT ![s] = NoJob] ELSE job
  /\ UNCHANGED <<messages, hinted, memory, items, approved, turn, faults>>

FactOf(m)   == [type |-> messages[m].type, value |-> messages[m].value]
FactsIn(ms) == {FactOf(m) : m \in {n \in ms : messages[n] \in Statements}}

\* Of the hints of one type only the newest becomes a proposal, whatever becomes of it.
LatestHints(hints) ==
  {m \in hints : \A n \in hints : messages[n].type = messages[m].type => n <= m}

UserMessages(segment) == {m \in segment : messages[m] # Assistant}

\* The input takes the user's messages oldest first while they fit.
Shown(segment) ==
  {m \in UserMessages(segment) :
     Cardinality({n \in UserMessages(segment) : n < m}) < Budget}

\* The hints whose proposals pass the validation: the message is in the input, speaks
\* of nobody else, and its values fit the profile's schema.
Due(segment, hints) ==
  {m \in LatestHints(hints) \cap Shown(segment) : messages[m].valid}

\* The model proposes facts told in the messages it is shown (none, when the call
\* fails), to which the due hints are added: a fact that both propose counts once.
\* A hint gives way to the model's own proposal of the same fact from its message
\* before either is validated; of the spoilt ones that copy is turned down.
Propose(s, found, spoilt) ==
  LET due       == Due(job[s].segment, job[s].hints)
      proposals == found \cup {FactOf(m) : m \in due \ spoilt}
      changes   == {f \in proposals : f.type \in ProfileTypes}
  IN
  /\ found \subseteq FactsIn(Shown(job[s].segment))
  /\ spoilt \subseteq due
  /\ Goto(s, "model", "persist")
  /\ job' = [job EXCEPT ![s].spoilt = spoilt, ![s].todo = proposals \ changes,
                        ![s].changes = changes]
  /\ UNCHANGED <<messages, hinted, memory, runs, items, approved, turn, faults>>

\* A memory candidate, unless the same fact is already an approved memory.
PersistCandidate(s, f) ==
  /\ pc[s] = "persist" /\ f \in job[s].todo
  /\ items' = IF f \in approved THEN items ELSE items \cup {<<RunOf(s), f>>}
  /\ job' = [job EXCEPT ![s].todo = @ \ {f}]
  /\ UNCHANGED <<messages, hinted, memory, runs, approved, pc, turn, faults>>

\* All profile changes of the run go into one revision draft, after the candidates.
PersistDraft(s) ==
  /\ job[s].todo = {}
  /\ Goto(s, "persist", "finish")
  /\ items' = items \cup ({RunOf(s)} \X job[s].changes)
  /\ UNCHANGED <<messages, hinted, memory, runs, approved, turn, job, faults>>

\* Mutant: the conversation's last message instead of the run's end.
ExtractedToLastMessage(end) ==
  [watermark |-> Len(messages), pending |-> FALSE, boundary |-> 0]

\* Mutant: the request is withdrawn, the watermark stays.
ExtractedInPlace(end) == [memory EXCEPT !.pending = FALSE, !.boundary = 0]

\* Success moves the watermark to the run's end and withdraws the request,
\* whatever the state says by now.
Extracted(end) == [watermark |-> end, pending |-> FALSE, boundary |-> 0]

FinishRun(s) ==
  /\ Goto(s, "finish", "idle")
  /\ runs' = [runs EXCEPT ![RunOf(s)] = "completed"]
  /\ memory' = Extracted(job[s].end)
  /\ job' = [job EXCEPT ![s] = NoJob]
  /\ UNCHANGED <<messages, hinted, items, approved, turn, faults>>

\* Mutant: a failure withdraws the request.
RequestDropped == [memory EXCEPT !.pending = FALSE]

Retryable == [memory EXCEPT !.pending = TRUE]

\* An exception while proposals are stored: the run fails, the request stays.
ExtractionFails(s) ==
  /\ pc[s] \in {"persist", "finish"} /\ faults < MaxFaults
  /\ pc' = [pc EXCEPT ![s] = "idle"]
  /\ runs' = [runs EXCEPT ![RunOf(s)] = "failed"]
  /\ memory' = Retryable
  /\ faults' = faults + 1
  /\ job' = [job EXCEPT ![s] = NoJob]
  /\ UNCHANGED <<messages, hinted, items, approved, turn>>

\* An exception before the run exists: the request stays for the next login.
ReadFails(s) ==
  /\ pc[s] \in {"check", "load", "state", "signals", "start"} /\ faults < MaxFaults
  /\ pc' = [pc EXCEPT ![s] = "idle"]
  /\ faults' = faults + 1
  /\ job' = [job EXCEPT ![s] = NoJob]
  /\ UNCHANGED <<messages, hinted, memory, runs, items, approved, turn>>

-----------------------------------------------------------------------------
\* The process dies: what was committed stays, the session is gone.
Crash(s) ==
  /\ pc[s] # "out" /\ faults < MaxFaults
  /\ pc' = [pc EXCEPT ![s] = "out"]
  /\ faults' = faults + 1
  /\ turn' = [turn EXCEPT ![s] = 0]
  /\ job' = [job EXCEPT ![s] = NoJob]
  /\ UNCHANGED <<messages, hinted, memory, runs, items, approved>>

\* The user approves a candidate; its fact becomes an active memory.
Approve(f) ==
  /\ f \notin approved /\ f.type \in MemoryTypes
  /\ \E r \in Boundaries \X Boundaries : <<r, f>> \in items
  /\ approved' = approved \cup {f}
  /\ UNCHANGED <<messages, hinted, memory, runs, items, pc, turn, job, faults>>

Turn(s) ==
  \/ \E kind \in Kinds \ {Assistant} : UserMessage(s, kind)
  \/ RecordSignals(s)
  \/ Reply(s)
  \/ TurnFails(s)

Extract(s) ==
  \/ CheckPending(s)
  \/ LoadMessages(s)
  \/ LoadState(s)
  \/ LoadSignals(s)
  \/ StartRun(s)
  \/ \E found \in SUBSET Facts, spoilt \in SUBSET Positions : Propose(s, found, spoilt)
  \/ \E f \in Facts : PersistCandidate(s, f)
  \/ PersistDraft(s)
  \/ FinishRun(s)

Next ==
  \/ \E s \in Sessions :
       \/ Turn(s) \/ LeaveConversation(s) \/ Extract(s)
       \/ ReadFails(s) \/ ExtractionFails(s) \/ Logout(s) \/ CloseTab(s) \/ Login(s)
       \/ Crash(s)
  \/ \E f \in Facts : Approve(f)

Spec == Init /\ [][Next]_vars

\* A script that runs goes on, a visit ends (the user logs out or closes the tab) and
\* the user comes back.
Fairness ==
  \A s \in Sessions :
    /\ WF_vars(Extract(s))
    /\ WF_vars(RecordSignals(s) \/ Reply(s) \/ TurnFails(s))
    /\ WF_vars(Login(s))
    /\ SF_vars(Logout(s) \/ CloseTab(s))

FairSpec == Spec /\ Fairness

-----------------------------------------------------------------------------
(***************************************************************************)
(* Properties.  All but the type invariant are about a user with one       *)
(* session: Streamlit runs one script of a session at a time, and nothing  *)
(* in the code excludes a second session from the same conversation.       *)
(***************************************************************************)

Completed == {r \in Boundaries \X Boundaries : runs[r] = "completed"}
Covers(r, m) == r[1] < m /\ m <= r[2]

\* A statement recorded as a hint is either behind the watermark or inside a
\* request that the next login will find: it is never silently forgotten.
StatementsArePendingOrExtracted ==
  \A m \in hinted : memory.watermark < m => memory.pending /\ m <= memory.boundary

\* The completed runs cut the conversation into consecutive pieces up to the
\* watermark: no message is skipped and none is extracted by two completed runs.
CompletedRunsTile ==
  /\ \A m \in 1..memory.watermark : \E r \in Completed : Covers(r, m)
  /\ \A r \in Completed : r[2] <= memory.watermark
  /\ \A r, q \in Completed :
       (\E m \in Positions : Covers(r, m) /\ Covers(q, m)) => r = q

\* A request is withdrawn only when the extraction has reached its boundary: what
\* was asked for is done or still asked for.
RequestsAreServed ==
  [][memory.pending => memory'.pending \/ memory.boundary <= memory'.watermark]_vars

\* The extraction position only advances.
WatermarkNeverMovesBack == [][memory.watermark <= memory'.watermark]_vars

\* Seen through its watermark and the review items, the extraction works the
\* conversation off in order, and a part is only left behind when the newest statement
\* of each type in it reached the review list or is an approved memory already, however
\* often its run was retried.  What the code passes over besides is in Due (a message
\* beyond the input, one that speaks of somebody else, values that do not fit, an older
\* statement of the type) and in spoilt (the model's copy was turned down).  Items that a
\* retry stores once more are not told apart.
Inbox == INSTANCE ReviewInbox
           WITH said <- messages, noted <- hinted, done <- memory.watermark,
                inbox <- {<<i[1][1], i[2]>> : i \in items}, known <- approved,
                spoiled <- UNION {job[s].spoilt : s \in Sessions}
ImplementsInbox == Inbox!InboxSpec

\* A recorded statement is eventually extracted, across failures and crashes: there is
\* always a later moment at which all of them lie behind the watermark.
StatementsAreEventuallyExtracted == []<>(hinted \subseteq 1..memory.watermark)
=============================================================================
