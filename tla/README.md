# CareerTrace: TLA+ models, checks and proofs

CareerTrace is a Streamlit application around a LangGraph agent. It keeps a
user's resume profile, conversations and durable memories in CockroachDB (SQLite
in tests), proposes changes to them, and lets the user approve what becomes
durable. This directory holds TLA+ models of the parts of `src/app` whose
correctness depends on the order of steps: database transactions between which
another browser session may act or the process may die, retries, bounded
budgets, approvals and their side effects.

## 1. The system's parts

Paths are relative to `src/app`. A repository method runs in one database
transaction (`session_scope`, `database/database.py:156-170`) unless said
otherwise; that is the grain of the actions everywhere below.

| Component | State | Operations | Interacts with |
|---|---|---|---|
| Chat turn (`services/career_assistant.py`) | messages | store the request, run the agent, store the reply, link the run | agent graph, signals |
| Memory signals (`services/memory_signals.py`) | `conversation_memory_signals` | rules detect statements; stored with a request for extraction | extraction |
| Conversation extraction (`services/conversation_memory.py`, `auth/session.py`, `ui/dashboard.py`) | `conversation_memory_states` (watermark, pending, boundary), `memory_extraction_runs` | mark a boundary, build the input, start or take up a run, propose, validate, store, finish or fail, recover at login | candidates, revision drafts |
| Memory review (`database/repository.py`) | `memory_candidates`, `memories`, `semantic_memories`, `career_events` | create a candidate, accept, reject, resolve a conflict | retrieval index |
| Retrieval index (`services/retrieval.py`, `services/retrieval_corpus.py`, `database/retrieval_repository.py`) | `retrieval_documents` | deactivate a source, upsert its chunks, backfill embeddings, hybrid search | memory review, profile, agent |
| Profile and versions (`database/repository.py`, `services/profile_mutation.py`) | `profiles`, `profile_versions`, `profile_field_revisions`, `career_analysis_versions` | apply field changes, record history, refresh the index (rolling back and saving analyses exist but have no caller in `src/app`) | index, revision drafts, onboarding |
| Profile revision drafts (`database/repository.py`, `ui/dashboard.py`) | `profile_revision_drafts`, `profile_revision_changes` | create, review a change, apply | profile versions |
| Onboarding graph (`graph/profile_graph.py`, `graph/checkpoint.py`, `nodes/`) | LangGraph checkpoints | store document, extract, validate, ask, confirm, save | profile versions |
| Career agent graph (`graph/career_agent_graph.py`) | run state, `agent_runs`, `agent_steps`, `agent_tool_calls` | classify, plan, act, execute tools, observe completion, finalize | tools, search sessions |
| Search sessions (`database/agent_repository.py`, `services/job_search.py`, `services/people_search.py`) | `search_sessions`, `search_source_progress` | reuse or open a session, reserve source calls, record progress, page results | agent graph, index |
| Resume and outreach drafts (`database/agent_repository.py`, `tools/drafts.py`) | `resume_revision_drafts`, `outreach_drafts` | save a draft, review a change, change the status | agent graph, dashboard |
| Progressive memory context (`services/memory_retrieval.py`, `services/context_manager.py`) | none | project the profile, rank memories, load details, compress the conversation | memory review, index |
| Starred answers, connections | `starred_qa_pairs`, `user_connections` | add, list, remove | chat |
| Authentication (`auth/`) | Streamlit session state, users | sign in (Google, judge workspace), recover, log out | extraction |
| Documents and storage (`services/documents.py`, `storage/`) | `documents`, S3 objects | upload, extract text, delete | onboarding, index |
| Retrieval algorithms, embeddings, reranking, token accounting | none | rank fusion, chunking, budgets | index, agent |
| Public search adapters (`tools/sources/`, `services/search_providers.py`) | none | HTTP calls and parsing | search sessions |
| User interface (`ui/`, `main.py`) | Streamlit session state | rendering and buttons | everything |

### What is hard in them, and what makes them right

**Conversation extraction.** A chat turn, a boundary and an extraction are eight
to ten transactions. The process may die between any two, a step may raise, and
nothing keeps a second browser session out. Right means: a recorded statement is
never forgotten, no message is skipped, what was asked for is done or still asked
for, and in the end it is done.

**Memory review and the retrieval index.** The decision is one transaction; the
index is brought up to date after it, one transaction per row. Right means: a
decision is made once, a superseded memory stays inactive and out of the index, a
memory recorded as indexed is indexed completely, a revocation takes effect.

**Profile, versions, revision drafts.** Forms post all fields, drafts some; a
draft is read, saved and closed in three transactions, and a version is indexed
after it is current. Right means: history and versions agree, no row of a former
version is searchable, a draft never overwrites a newer value, and a change
marked "applied" was applied.

**Career agent, search sessions.** The model may answer anything. The loop must
end, decide every task of the plan, record the truth about it, and stay within
two budgets that are counted in different places.

**Onboarding graph, documents and storage.** Interrupts are replayed from
checkpoints, the page answers with the form it happens to hold, the profile is edited
elsewhere meanwhile, the upload loop
deletes what it stored when a later file fails, and an object and its row live in two
stores. Right means: the profile only ever becomes a form that was confirmed and
complete, in the analysis it was confirmed in; its facts keep their sources, and a
row keeps its original.

**One search session.** Sources are asked at once by threads, some too late; calls
are reserved by several loops; each search adds to what the last one saved, and
cursors point into it. Right means: no call without a reservation, no source asked
more often than the request names it, no fit record lost for nothing, pages without
gaps, and an end.

**Progressive memory context.** A context is put together from eight reads while
other tabs write, and summaries replace parts of what it is made from. Right means:
nothing said falls between summary and history, what the user said last counts, and
only a memory retired meanwhile stops a turn.

**Retrieval corpus.** A source is cleared and stored chunk by chunk while others
index, search and backfill. Right means: a source has the rows of its last text, a
search finds what it indexed, fusion is fair, and no vector is lost.

**Outreach and resume drafts** (partly). Right means: "sent" only after the user
said so, and nothing leaves "archived".

## 2. The plan

1. Done: `ConversationExtraction` with the abstract `ReviewInbox`; the most
   interleaved part, and the one the documents promise most about.
2. Done: `MemoryReview`, which takes up where a candidate exists; then
   `ProfileVersions`, which takes up where a revision draft exists.
3. Done: `CareerAgentRun`, the graph and the choice of search sessions together.
4. Done: `DocumentStore` and `Onboarding`, which composes it with the profile graph.
   It ends in the initial state of `ProfileVersions`.
5. Done: `SearchSession`, what `CareerAgentRun` treats as one step seen from inside.
6. Done: `ConversationContext`, what a turn knows when `CareerAgentRun` starts.
7. Done: `RetrievalCorpus`, which indexes what the other modules index, and retrieves.
8. Done, proofs: theorems state every invariant and every action property of the passing
   runs, and the refinement of `ReviewInbox` (section 5).
9. Next, proofs: what is proved for one session or one tab only, as far as it is true
   for more (the rows of a version in `ProfileVersions` while nobody else indexes;
   `FactsAreSourced` of `Onboarding` when several tabs analyse one after the other), and
   the lemmas about numbers and sequences that three modules state each for itself.
10. Not planned: a module for the status of outreach drafts and the review of resume
   changes. They are single transactions of one row whose guards are all there is to
   say.

The number of runs is kept at twelve, one per question. Where a module of the last
sections showed a deviation that another run shows as well, or that follows from one
line of code, it is described in section 7 instead of being given a run.

Each module is written to be proved about: constants with named assumptions, one
action per transaction, no RECURSIVE operator.

## 3. The modules

| Module | Models | Extended by |
|---|---|---|
| `ConversationExtraction` | chat turns, signals, boundaries, login recovery, extraction runs | `MCConversationExtraction`, `ConversationExtractionProofs` |
| `ReviewInbox` | what an extraction promises, without runs, flags and transactions | instantiated by `ConversationExtraction` |
| `MemoryReview` | decisions on memory candidates and the index steps after them | `MemoryReviewProofs` |
| `ProfileVersions` | forms, versions, history, index refresh, revision drafts | `MCProfileVersions`, `ProfileVersionsProofs` |
| `CareerAgentRun` | one run of the agent graph, and which search session a request gets | `CareerAgentRunProofs` |
| `DocumentStore` | originals in storage and their rows: upload, undo, delete | `Onboarding` |
| `Onboarding` | the profile graph, its checkpoints, the page that answers it | `OnboardingProofs` |
| `SearchSession` | one search session from inside: sources, calls, records, pages | `MCSearchSession`, `SearchSessionProofs` |
| `ConversationContext` | hints, summaries and memories a turn makes its context from | `MCConversationContext`, `ConversationContextProofs` |
| `RetrievalCorpus` | the rows of the index, batches, retrieval and backfill | `MCRetrievalCorpus`, `RetrievalCorpusProofs` |
| `Selection` | a selection from a sequence and the sorting of a set, without recursion | the three above |

An operator whose comment begins with "Mutant:" is a plausible mistake in the
operator below it. No specification uses it; it is there to show that the named
property notices the mistake.

### 3.1 ConversationExtraction

`messages` is the conversation; a message is its position and what it is: a statement
that a rule of `memory_signals.py` detects (its type, its value, and whether the
extraction takes it), plain, or a reply. `hinted` is
`conversation_memory_signals`; `memory` is the row of
`conversation_memory_states` (watermark, pending, boundary; position 0 is NULL);
`runs` is `memory_extraction_runs`, unique per (start, end); `items` says which run has
put which fact up for review, and `approved` are the approved memories.
`pc`, `turn` and `job` are the local variables of the script a session runs.

| Action | Code |
|---|---|
| UserMessage, RecordSignals, Reply, TurnFails | `respond_to_user`, `classify_intent` (recording signals also requests an extraction) |
| LeaveConversation, Logout, CloseTab, Login | dashboard buttons, `log_out`, the recovery at the first page after a login |
| CheckPending, LoadMessages, LoadState, LoadSignals, StartRun, Propose, PersistCandidate, PersistDraft, FinishRun | `ConversationMemoryExtractor.extract`, one action per transaction |
| ReadFails, ExtractionFails | an exception before or after the run exists |
| Crash, Approve | the process dies; the user approves a candidate |

`Due` is what the code adds whatever the model says: of each type the newest statement
of the segment (`LatestHints`; it shadows the older ones even when it is turned down
itself), if it is in the model's input (`Shown`) and valid. A statement is not valid when
its message also speaks of somebody else (`conversation_memory.py:264-268`) or its values
do not fit the schema of a proposal. The watermark passes all of them. The model may
propose facts of any message it is shown. `spoilt` are the due statements for which the
model sends a copy of its own that is turned down, malformed or without a topic: the copy
takes the statement's place, and both are gone.

Abstractions: one fact per message; one conversation per model; all user messages
weigh the same in the input's budget; `items` is a set, so a second copy stored by a retry
of the same run is not told from the first.

### 3.2 MemoryReview

A candidate creates at most one memory, so a memory has its candidate's name.
`candidates`, `memories` and `rows` are the tables `memory_candidates`,
`semantic_memories` and `career_events`, and the active `retrieval_documents` of a
memory by chunk. A `Memory` has the `state`, the index status in its metadata and
`supersedes_id`.

| Action | Code |
|---|---|
| Propose | `_persist_memory_candidate`: the target is an active memory at that moment |
| Reject, AcceptRevocation, AcceptReplacement, AcceptAddition | `_review_structured_memory_candidate`, one transaction each |
| ClearRows, StoreChunk, RecordOutcome | `index_text`: `deactivate_source`, `upsert_document` per chunk; the last transaction of the review |
| IndexStepFails, Crash | a step raises and the outcome is "failed"; the process dies |

Left out: rows of the legacy table `memories`, which the current code does not
create. A REVOKE aimed at one could not be accepted at all: it has no
`existing_entity_id`, and the transaction raises.

### 3.3 ProfileVersions

`versions` are the snapshots of `profile_versions` with their index status, the
last one being current; `revisions` is `profile_field_revisions`; `rows` the active
rows of the index by version; `drafts` the revision drafts with their changes. `Locked`
are the fields that belong to the account: for a user of Google the name and the email,
which every save sets to what `account` says, whatever was posted
(`repository.py:252-254`). With `Locked = {}` the user is one of another kind.

| Action | Code |
|---|---|
| OpenForm, LeaveForm, SubmitForm, SubmitUnchanged | the profile form and `apply_profile_field_changes` |
| Purge, StorePart, RecordOutcome, IndexStepFails | `refresh_profile_retrieval` |
| SignIn | a sign-in brings the account's name and email up to date |
| Propose, Review | a draft from an extraction, and its review in the dashboard |
| StartApply, SaveDraft, CloseDraft | `apply_profile_revision_draft`: three transactions |
| Crash | the process dies |

Abstractions: `Values` are valid values, so validation is not modelled; the status
"sparse_only" counts as "ready"; in one session a form is rendered anew before it
is edited; the first snapshot is the one the onboarding saved, which `MCProfileVersions`
fixes to one value per field, since values are interchangeable. Visible in the model: a
change of a locked field is marked applied without effect, and the account's new value is
recorded at the next save, even when that is a draft about something else; applying a
draft does not refresh the index, so its version stays "pending" until a form is saved;
applying closes a draft whose other changes are still pending; a crash between the three
transactions leaves the draft open although its fields are written.

### 3.4 CareerAgentRun

`node` is the LangGraph node that runs next. `plan` has the status of the one
action a plan may have and of its guidance; `last` and `calls` are the last message
and the tool calls in it that are not executed yet; `flags` holds the state fields
that steer the loop (`is_sufficient`, `stop_after_tools`, `current_error` and so
on, named at their definition); `session` is the latest row of `search_sessions`,
`counted` is `total_source_calls`, `spent` all the calls reserved in any session,
`status` the run's row.

| Action | Code |
|---|---|
| InitializeRun, Clarify, Classify, Prepare, PlanAction | the nodes up to the first message |
| Answer, AnswerNothing, CallTools, ModelFails | `agent_model`, with any answer |
| RefuseForeign, RefuseStray, RefuseOwn, CallOther, SaveDraft, Search, SearchFails, ToolsDone | `execute_tools`, one action per call, and what follows the last one |
| Observe, Finalize | `observe_completion` with `_route_after_completion`; `finalize` |
| Raise | an exception, LangGraph's step limit, or the process dies |

Abstractions: all guidance tasks of a plan are judged alike and share one status;
job and people searches are alike, as are resume and outreach drafts; a page from a
session's cache is a search without source calls; a tool beside the action's own
(details, evidence, skill files, the status of an outreach draft) is "other".

Visible in the model, and forbidden by no document: a refused search resets
`is_sufficient` and counts as a search without new results, so a run that did
everything may be recorded "partial"; the second search of one message may
overwrite what the first one found; after `Raise` the run's row stays "running".
`max_iterations` of a search session is stored and enforced nowhere.

### 3.5 DocumentStore and Onboarding

`objects` and `rows` are the S3 bucket and the table `documents`; `sources` are the
documents the profile history names, `chunks` those with active retrieval rows. `desk`
is the upload or delete a session runs. `lost` and `leaked` name the documents whose
compensation failed or whose process died half way: exactly what the properties may
not promise. `thread` is the user's LangGraph checkpoint, `run` the state an
invocation works on, `page` the result the dashboard holds, `approved` the forms
that were confirmed. `result` is what an invocation has returned and the page has not
got yet, `missed` the tabs whose page never got one, `astray` the facts of a form that
was confirmed for a later analysis than its own, and `edits` the versions that were saved
elsewhere.

| Action | Code |
|---|---|
| PutObject, CreateRow, TakeBack | `DocumentService.upload`: object, row, and the object away again |
| UndoNext, RemoveObject, RemoveRow, PutBack | `delete_document`, by the user or by the except clause of `store_document` |
| StoreOnly, Delete | the dashboard's buttons |
| Analyze, Stored, Extract, Propose, Validate, Save, Finish | the nodes of `profile_graph.py` and what `invoke` does around them |
| Ask, Return | LangGraph saves the interrupt and `invoke` returns; the dashboard assigns `workflow_result`, unless a click ended the script before |
| Answer, Restore | `_resume_graph` with the page's form; a page without result takes up a waiting thread |
| EditProfile | the Profile page, or an applied draft, saves a version of its own |
| Die | the process of a session dies |

Abstractions: a required field is absent, present or (the year) out of range; the
model proposes any values, and facts come from the documents they were read in. A Google
user's name and email in a form are the account's anyway (section 3.3); only the presence
of required fields is modelled. A call to S3 takes effect or raises; one that takes effect
and raises all the same (`documents.py:159`) is not modelled.

### 3.6 SearchSession

`session` is the row of `search_sessions` with its `search_source_progress`; `search`
holds the local variables of a search. `made` counts requests to providers, `counted`
the calls reported to the run, `asked` the fetches of each source. `setting` says
whether jobs or people are searched, for a judge or not, with which optional providers.

| Action | Code |
|---|---|
| TurnPage | a cursor into saved records |
| StartJobSearch, StartPeopleSearch, SkipClosed, PlanSource, PlanRegister | the plan: sources not on record, a reserved call each |
| Fetch, ReadAnswer, ReadRegister, ReadNothing | `run_provider_fetches` and what is read with further calls |
| RecordSource, KeepEvidence | `record_source_progress`; evidence |
| DiscoverJobs, DiscoverPeople, NoDiscovery | web discovery |
| Rank | merge, hard requirements, ranking, demo records for a judge, save and page |
| Raise | any write that raises |

`Catalog` is the plan of a request, and may name a company more than once: nothing removes
a repetition from `preferred_companies` (`job_search.py:338`). Both entries are planned
and paid, and one answer counts. `Named(s)` is how often the request names a source, and
`CallsAreReserved` allows it so many calls for each search that may ask it: the one that
records it, and those that raised (`AskedWithin`).

Abstractions: what an adapter parses is any part of what its source offers; an entry
without an address (`job_search.py:403-405`) does not occur in the present catalog; the
retrieval ranking is any order (`RetrievalCorpus` has it); titles, places and their
match are the verdict of a candidate.

### 3.7 ConversationContext

`messages`, `hints`, `profile`, `memory` and `summaries` are tables; `written` is the
time of each field's last revision, counted in hints recorded before it; `turn` is
what a tab has read so far. Two variables are kept beside the model, to compare the
overlay with. `replayed` is each topic after all that the user has said and saved, the
later over the earlier: a save has the last word on every field until the user says
something new. `doubtful` are the topics of which something was not recorded in the order
or the way it happened: a hint that was overtaken before it was recorded (`Overtaken`), and
a save that left a field as it was although a hint said otherwise, which writes no
revision (`Unsaid`).

| Action | Code |
|---|---|
| Ask, Classify, Answer, GiveUp | `respond_to_user`; the hints of a request replace those of the same message |
| CallTools | the agent is asked again after its tools, with a context built anew (`career_agent_graph.py:838`) |
| ReadConversation, ReadSummary, ReadProfile, ReadRevisions, ReadHints | `build_messages`, `get_effective_conversation_context` |
| ReadCatalog, ReadDetails, ReadSources | `build_context`, `get_memory_details`, source messages |
| Fit, Unfit, Compress | `_compress_if_needed` |
| Clarify | a request answered without context |
| SaveProfile, Review | the Profile page; `_review_structured_memory_candidate` |

Abstractions: the selection of memories is any set within the limits (the score is
not modelled); a token estimate is a number of messages; the three tables of the
catalog are read in one step. The routing agent reads the same tables again when it
plans; these reads are not separate here.

### 3.8 RetrievalCorpus

`rows` are `retrieval_documents` in the order they were made: active, with or without
vector. `work` is a call, `backfill` the embedding backfill. `last` remembers what
the last undisturbed call put into each source.

| Action | Code |
|---|---|
| StartText, ReadChunk, PlaceChunk | `index_text`: deactivate, embed (a chunk too long is halved), upsert |
| StartBatch, Gather, EmbedAll, StoreUnit | `index_text_batch` |
| StartRetrieval, EmbedQuery, SearchWords, SearchVectors, Fuse, Return | `retrieve`, with the rows of this search or all |
| StartBackfill, FindVector, SetVector | `EmbeddingBackfill` |
| BreakOff | a database call raises |

Abstractions: a text is one of a few ways to be cut; scores are numbers; rows that
tie are ordered by age where the code has random ids. An embedding may fail, and so may
the lookup of a cached vector (`retrieval.py:95`): both leave the row without vector.

## 4. The runs

Passing runs show that the properties hold on the instance; a run that expects a
violation shows, with one trace, where the code does not do what a document, a
comment or a label says.

| Run | Instance | Shows |
|---|---|---|
| `extraction_one_session` | one session; a preference, a major, and the same major in a message that also speaks of someone else; input of two user messages, 3 messages, 1 fault; fair; 584 000 states | no recorded statement is forgotten, no message is skipped or extracted by two completed runs, requests are served, whatever fails; the detailed module implements `ReviewInbox`; everything recorded is extracted in the end |
| `review_two_sessions` | 2 sessions, 3 candidates, 2 chunks, 1 failure, 1 crash; 609 000 states | decisions are final, superseded and revoked memories inactive, "synced" means complete |
| `review_one_session` | 1 session, 3 candidates, 2 chunks, 2 failures, 1 crash; fair; 93 000 states | a retired memory has no active row; every outcome is recorded |
| `profile_one_session` | 2 fields, one of them the account's, 2 values, a draft of 2 changes, 2 index rows, 3 versions, 1 failure, 1 crash; fair; 1 193 000 states | history and versions agree, the index tells of the current version only, drafts write what was due and what they mark applied (the account's fields excepted), a refresh ends |
| `profile_late_index` | 2 sessions save | expects a violation: rows of an older version become active again |
| `profile_lost_change` | a draft with two changes of one field | expects a violation: both are marked applied, one is written |
| `agent_run` | 3 turns, 3 source calls, 2 requests, messages of up to 2 calls, 1 failing search, 2 wasted turns; fair; 237 000 states | the plan is decided and truthfully recorded, done is done, budgets are exceeded only by failed searches and wasted turns, the run ends |
| `onboarding_one_tab` | 1 tab that analyses, 1 that stores and deletes; 2 documents, 2 analyses of up to 2 files, 1 edit elsewhere, 2 faults (failing steps, deaths, lost results); fair; 702 000 states | the onboarding saves only what was confirmed, once unless the profile was edited meanwhile, facts keep sources, the page has the form its thread waits for, rows keep originals, every call returns |
| `search_one_session` | a request that names a board twice, a closed entry and a careers page, 2 registers, 6 calls, 3 an iteration, 4 searches, pages of 1, 2 searches that raise; 378 000 states | reservations, sources and records are kept right; pages have no gaps; searching again gets to new sources |
| `context_two_tabs` | 2 tabs, 4 old messages, 10 in all, 1 round of tools a turn; fair; 340 000 states | no message is lost between two tabs' summaries; every turn ends |
| `context_one_tab` | 1 tab, 2 texts with two hints each, 3 topics, 2 memories, 2 saves, 1 round of tools a turn; 4 399 000 states | the overlay is what was said and saved, the later over the earlier; only a retirement during the turn stops it |
| `corpus_two_calls` | 2 calls at a time, 3 in all, 3 sources, 3 texts, 1 call that breaks off, a backfill; 2 282 000 states | sources are whole, own rows are found, fusion is fair, vectors stay |

### Bounds, and why they are enough

- Three messages are the least with which a segment begins after a watermark and
  ends before the last message, and with which a statement is repeated. Two
  extractions of one conversation, the second beginning in the middle, fit.
- An input of two user messages leaves the third one out. The third statement is the
  second one in a message that is turned down, so that it can shadow a good one.
- Three candidates are the least for a memory, its successor and a second
  decision about either. Two chunks are the least with a state in which a text is
  indexed in part.
- Three versions: a save, and a second one by the draft or the form on top of it.
  Two fields are the least to see a form write back a field it did not mean to
  change; two slots, to see two changes of one field.
- In the agent's run the budgets are small so that each is met exactly, one short
  of it, and passed over, in one run of 36 steps. Two requests are the least with
  which a session is left and never found again.
- Onboarding: two analyses are the least with which a form, a thread and an
  invocation can belong to different ones; two documents, with which an upload fails
  after it stored something, and with which one is deleted while another is a source.
  One required field that may be out of range gives every route of the validation. One
  edit elsewhere is enough to come between a confirmation and a save that runs again.
- A search: two records shown of three ranked, of five known, so that both cuts bite;
  six calls are used up in the middle of a plan, of a careers page and of discovery, and
  pay twice for the company that is named twice; two searches raise, and a fourth one
  finds every source on record.
- A context: a history of more than two messages, which a summary halves, is the least
  that is summarised twice. Two saves put one before and one after a hint; each may
  rewrite the single value, the list, both or neither. One text replaces the single value
  and takes a word off the list, the other adds to the list and sets a topic that is no
  field.
- The corpus: a text with one chunk, one with two, one that is too long and is halved;
  two batches that share a candidate; three calls are the least for a source that is
  indexed, changed and changed back, or changed while it is searched. Rankings have
  room for four rows, hits for two.
- Faults are bounded by one or two. More of them repeat the same recovery from a
  state that one fault reaches. The theorems hold for every bound.

### Fairness

- `ConversationExtraction`: a script that runs goes on (the steps of an extraction wait for
  nothing; a click ends a script only at its next Streamlit call, and there is none
  between these steps), the user comes back, and a
  visit ends. The last one is strong fairness: a visit is idle between any two
  chat turns, and sooner or later the user leaves in such a moment. Nobody is
  assumed to log out properly; closing the tab is enough, and faults are finite.
- `MemoryReview`, `ProfileVersions`: a script that indexes goes on. A user who
  never reviews or never saves is allowed.
- `Onboarding`, `ConversationContext`: a call that runs goes on, tab by tab. The nodes of
  the graph make no Streamlit call; where a click may end the script, between the
  graph's return and the page, the result is lost and the call is over. Nobody has
  to answer a form, ask, save or review. Faults and messages are finite.
- `SearchSession`, `RetrievalCorpus`: safety only; no fairness.
- `CareerAgentRun`: the graph runs in one thread that goes on until it ends or
  raises. The run ends because the model wastes its turns only finitely often: the
  bound `MaxWasted` stands for LangGraph's own step limit, which raises.

## 5. What is proved

Eight modules have theorems for every value of their constants. The constants
are assumed to be what their comments say (disjoint topics, `None` outside the
sets, natural numbers); these are the ASSUMEs, and every passing run evaluates
those of its module. Two of them say more. `BatchAssumption`: the candidates of a batch have
different identifiers. `QueryAssumption` says of the fusion what its proof needs: a
ranking has no more rows than the fusion's constant (30 and 60 in the code), and a
retrieval returns no more than a ranking has.

The runs of `ConversationExtraction`, `MemoryReview`, `ProfileVersions` and
`CareerAgentRun` do not repeat the type invariants, which are proved; nor
`WatermarkNeverMovesBack` (which `ImplementsInbox` shows on the instance) and `HistoryIsKept` (which follows
from `RetirementsLast` on the instance).

**`ConversationExtractionProofs`.** Type correctness without restriction. With one
session (`OneSession`): `StatementsArePendingOrExtracted` and `CompletedRunsTile`, the watermark never moves back,
requests are served. The properties are not inductive: between reading the state and finishing,
an extraction acts on what it read. `ControlInv` says that it is still true:
the watermark is where it started, the boundary where it ends, its hints are all
the recorded ones of its segment, and while it stores, every due statement is
stored, still to be stored, or spoilt by a copy of the model's (`Spoiled`). This needs one session. With two, a request may
come in between; section 7 says what happens then.

`ImplementsInbox`: with one session the module implements `ReviewInbox`. Beside `OneInv`
this needs that what is being stored comes from messages the extraction was shown
(`ItemsAreShown`). The inbox promises what `Due` says and no more: the newest statement of
each type that was shown and is valid, unless its copy was turned down. Each transaction is then a step of the inbox or none: storing a
candidate or a draft adds items, finishing works the conversation off, and the steps in
between change nothing the inbox has.

**`MemoryReviewProofs`.** For any number of sessions: type correctness,
`HistoryIsKept`, `SyncedIsComplete`, `RetirementsLast`, `DecisionsAreFinal`. The
inductive invariant
adds that a memory exists only for an accepted candidate and a target exists
(`MemoriesAreAccepted`), that no two sessions index one memory and the outcome of
the one a session indexes is open (`WorkIsExclusive`), and that the chunks counted
as stored are in the index (`StoredIsThere`). With one session:
`RetiredIsUnsearchable`, since nothing is retired while it is being indexed.

**`ProfileVersionsProofs`.** For any number of sessions: type correctness and
`HistoryIsComplete`, with the help of `RevisionsAreWritten` (no revision is ahead
of the versions), `FormsAreFull` and `WorkIsKnown`. With one session:
`RowsAreCurrent` and `ReadyIsSearchable`, together `IndexTellsCurrent`, because the
version being indexed is the current one (`CurrentIsIndexed`). `DraftsMatchHistory`,
also with one session, is about a draft that is read, saved and closed in three
transactions: what a session is about to write was accepted over the value the profile
has, and once written it is what the profile has until the draft is closed
(`PostedIsDue`); what a draft wrote belongs to a draft that is applied, being closed, or
left unclosed by a crash (`WritesAreKnown`); a draft that was not proposed has nothing
applied (`NewDraftsAreBlank`). So a draft writes only what was due, and a field with an
applied change did get the value of one of them. All this is about the fields the account
does not lock; the others get the account's value whatever was accepted.

**`CareerAgentRunProofs`.** For every budget, and whatever the model answers: type
correctness, `PlanIsSettled` (`NoOpenTaskAtTheEnd` and `StatusTellsThePlan`),
`CompletedActionsDelivered`, `OverrunsAreExplained` (`FailuresExplainOverspending`
and `WasteExplainsTurns`), `ActionEndsOnce`. The inductive invariant follows a message through the nodes:

- `PlanFitsNode`: some task is open while the graph works and none when it
  finalizes; `MessageFitsNode`: the model is never asked after tool calls that are
  not executed, or after an answer.
- `BlocksHaveReasons`: tasks are blocked by an error or a question only, and an
  error blocks one.
- `ActionIsPursued`: the model is asked about an open action only after a call
  that did not deliver; no tool runs once the action is decided.
- `SourcesAreCounted`: what is counted and what the latest session has left stay
  within the budget together; calls that are not counted are at most one budget
  for each failed search.
- `TurnsAreBounded`: turns minus wasted turns. A useful turn brings a call that
  execute_tools either runs, so there are turns left, or refuses, which stops the
  run.

**`OnboardingProofs`.** For any number of sessions and deaths: type correctness,
`SourcesAreKept`, and that a save writes only what is complete and confirmed in its
analysis (`SavesOnlyConfirmed`). Of the store (`StoreInv`), a document whose row is not
written yet is nobody else's and has its object (`FreshIsOwn`): a row without an object
is then always one that a delete under way still accounts for. Of the graph
(`GraphInv`), whatever an invocation or the checkpoint has at the save node was confirmed
(`SavesTheConfirmed`).
With one tab that analyses (`OneTab`; others may store and delete): `FactsAreSourced`,
`PageIsCurrent`, `SavedAsConfirmed`. `TabInv` adds that nothing is under way in the other
sessions (`OthersIdle`), that the invocation works on the checkpoint (`RunIsThread`), that a
result on its way to the page is the question the thread waits for (`WaitsWhenAsked`), that
a form has facts of documents on record, of its own analysis, or astray (`FormsAreSourced`),
and that there is a confirmation for each version, two more for each edit elsewhere, and
one to spare when a save is ahead (`VersionsAreConfirmed`): an edit makes a version itself,
and lets a save that runs again make another one. `PageIsCurrent` is about tabs that never
lost a result, and `FactsAreSourced` leaves out the facts of a form that was confirmed for a
later analysis; both are what a lost result costs (section 7). With two tabs a form left
open answers another analysis, and none of the three holds in this form.

**`SearchSessionProofs`.** For every catalog, budget and page size: type correctness,
`CallsAreReserved`, `WalkShowsAll`, `SearchProgresses`, `SavesTheBest`. The inductive
invariant follows a source through a search: it is planned only if it is not on record
(`PlannedIsNew`) and as often as the request names it (`PlannedAsNamed`), it is asked
that often once more than searches have raised only while its answer is being read
(`AskedUnrecorded`), and a search has recorded a new source or still will,
unless none is left or none can be paid (`Progress`). `WalkIsWindow` says which part of
the saved records a walk of pages has shown. The ranking is sorted and cut; that a sorted
set has each element once, and the first ones before the others, are lemmas here.

**`ConversationContextProofs`.** For any number of tabs: type correctness,
`NothingSkipped`, `FailsOnlyByRetirement`, `OverlayIsReplay`. Each summary covers
everything up to its end, with earlier ones (`SummariesCover`), although tabs write them in
any order; what a turn has selected was active when it did (`CardsWereActive`), so a
detail that is missing was retired since; a message has given no hint before it is
classified (`HintsAreHeard`), and the overlay computed from the tables is, for every topic
that is not doubtful, what the user has said and saved one after the other
(`OverlayIsCurrent`). A turn reads the tables one
after another; `ReadsArePast` says what it knows of each while others write.

**`RetrievalCorpusProofs`.** For any number of calls, texts and failures: type
correctness, `SourceIsWhole`, `OwnRowsRetrieved`, `FairFusion`, `VectorsStay`. A source
that a call has for itself has, at each moment of the call, exactly the rows stored so far,
all of its version (`RowsAreMine`); two calls on one source both know it
(`CrossingsSeen`), and nobody indexes a source whose last call ended undisturbed
(`AloneIsQuiet`). The rows of a search stay active unless another call worked on their
source (`OwnIsThere`), so a ranking that is not full has them (`WordsAreFound`), and the
hits are the first of the fused rows (`HitsFit`). Scores of the fusion are fractions and
are compared by cross multiplication; that a row found by both searches comes before one
found by one is where the constant of the fusion is needed.

## 6. What is only model-checked

Liveness (`StatementsAreEventuallyExtracted`, `OutcomeIsRecorded`, `RefreshEnds`,
`RunsEnd`, `CallEnds`, `TurnEnds`) is out of the prover's reach. Every other property of
the passing runs is proved.

Proved for one session, as the runs check them: everything of `ConversationExtraction` but
type correctness, `RetiredIsUnsearchable`, `IndexTellsCurrent`, `DraftsMatchHistory`; for
one tab that analyses, three of `Onboarding`. With more, somebody else acts between the
transactions of one call, and section 7 says what becomes of them.

The prover has no induction over data. Where a proof needs one, it is made with sets: a
set of numbers has a least one because < is well-founded, and sorting and selecting
(`Selection`) are defined by how many elements come before. What the folds and sorts of
the code return is therefore proved where a property needs it, not their equality with a
recursive definition.

## 7. What the models say about the code

Two runs expect a violation; each shows one trace.

1. **An old profile version becomes searchable again** (`profile_late_index`).
   `upsert_document` activates rows without looking at their source's state. By the same
   cause, with two sessions, a memory retired while another session indexes it becomes
   searchable again: `RetiredIsUnsearchable` is claimed for one session only.
2. **Two accepted changes of one field** (`profile_lost_change`). Both are marked
   applied; the draft's fields are collected by name, so one of them is lost.

The following is in the models too, visible in their actions, without a run of its own.

**Extraction.** After a failure the same run stores its candidates and its draft again,
each in a transaction of its own and compared with approved memories only
(`conversation_memory.py:361`); `docs/ARCHITECTURE.md:94` says it can "retry after login
without duplicating candidates". With two sessions `finish_memory_extraction_run`
clears a request that another session made meanwhile (`repository.py:1477`), so the
properties are claimed for one session. A retry's second copy is not told from the first in the
model. The watermark passes statements that never reach a review: a marked one that does
not fit into the input (`conversation_memory.py:93`, against the comment at line 106); one
whose message mentions "he", "she", "they", "my friend" or "my manager" (lines 264-268);
graduation years, projects and experience found by the rules, which do not fit the schema
of a proposal (line 273); every statement but the newest of its type (line 184), even when
the newest is turned down; and one that the model proposes as well, malformed or with an
empty topic, because its copy takes the place of the detected one (line 246).

**Review.** Accepting the revocation of a career event inserts a second event and leaves
the first active (`repository.py:1005`; the button says "Approve revoke",
`dashboard.py:1039`): the exception in `RetirementsLast`. A revocation of a legacy memory
always raises (`repository.py:971`). Two updates of one memory, accepted one after the
other, leave both successors active.

**Profile.** An accepted change of a Google user's name or email is marked applied
(`repository.py:1183-1185`) although the save puts the account's value back
(`repository.py:252-254`): the exception in `DraftsMatchHistory`. A new name of the account
is recorded at the next save, even one that applies a draft about something else. Applying a
draft does not refresh the index (`dashboard.py:717`). Closing a
draft leaves its other changes pending for ever (`repository.py:1186`). Two sessions
that save forms overwrite each other's fields.

**Agent.** A search that raises hides its source calls from the run's count
(`tools/jobs.py:33`), so that a request that differs opens a session with too much left;
the iteration budget is looked at only when an allowed tool is called
(`career_agent_graph.py:1026`). `OverrunsAreExplained` says by how much each budget may be
exceeded; `README.md:57` and `README.md:132` of the repository promise fixed budgets.
After an exception the run's row stays "running" (`career_assistant.py:44`).

**Onboarding and documents.** With two tabs a form left open answers the thread of a newer
analysis. With one tab this takes a click between the graph's return and the assignment of
the result (`dashboard.py:435-440`, `656-658`): the page keeps the former form, and its
answer goes to the newer thread. An edit on the Profile page, made while a thread waits or
before a save node runs again, is overwritten by the form of the thread
(`nodes/memory.py:26`); in the second case one confirmation makes two versions. After a save
failed, Cancel runs the save again; Cancel with a required field
missing asks again. Of two deletes of one document at the same time, the one that comes
too late puts the object back without a row. A deleted document's text may become
searchable again when an analysis is still indexing it (`nodes/resume.py:84`).

**Search.** A source that failed or timed out is recorded as exhausted and never asked
again (`job_search.py:490`). A catalog entry that must not be asked is put on record as
soon as it is planned and takes a place in that search. A company named twice in
`preferred_companies` (`agent_schema.py:178`) is asked and paid twice in one search, and
`search_providers.py:29` keeps one of the answers. What a source said to a search
that later raises is lost, and the source is not asked again: `SearchProgresses` is about
searches that complete. A cursor of a session without records starts a search and skips
its first records. When more than the shortlist is fit, a verified job may give way to
one that is not; beyond the saved page, records are dropped. A demo record saved by one
search is relabelled as an ordinary one by the next (`job_search.py:688`, against
`docs/JUDGE_TESTING_INSTRUCTIONS.md:88-91`).

**Context.** A hint has the time it was recorded, after classification: a profile save made
between the message and its classification is overridden by what was said before it, and of
two tabs the older message may have the last word. A save that leaves a field as it was
writes no revision, so an older hint still counts (`repository.py:1511`, against the comment
in the next lines that a later explicit save is authoritative). A save between the reads of
the profile and of its revisions drops a hint for a value the context does not have.
`OverlayIsReplay` excludes these three, each by name: `Overtaken`, `Unsaid`, and a save since
the profile was read. A summary covers
what came after the former one and takes its place, so that what the former one said is
gone. Of two tabs the slower may move the boundary back, which costs a longer history and
loses nothing (`NothingSkipped`). A memory retired during a turn fails the whole turn.

**Corpus.** `dense_search` compares vectors of whatever embedding model. Another tab's
search for the same candidate deactivates rows between the indexing and the ranking of
this one: the exception in `OwnRowsRetrieved`. A call that breaks off leaves its source
partly indexed. That rows found by both searches come before rows found by one relies on
the constant 60 and on rankings of 30 rows.

## 8. What is not modelled

- Single-transaction updates without an order that matters: starred answers,
  connections, the status of outreach drafts, the review of resume changes, renaming
  and deleting conversations.
- Not worth a model: rendering, parsing of documents, where a text is cut, telemetry,
  token estimates, the score by which memories are selected.
- External: the language model (any answer), the search services (any part of what they
  offer), embeddings and reranking, S3, the identity providers, LangGraph's and Streamlit's
  own machinery. Serialization failures are retried inside
  `run_retryable_transaction`; a transaction here happens or raises.
- Without a caller in `src/app`: `rollback_profile`, `save_analysis`,
  `rollback_analysis`, `retrieve_iteratively`, and the embedding backfill, which is modelled
  all the same because it writes what the others write. The command line in `main.py`
  drives the onboarding graph and reads a result it does not produce.

## 9. Running it

    tlc -workers 2 -config AgentRun.cfg CareerAgentRun.tla
    tlapm CareerAgentRunProofs.tla

`RetrievalCorpusProofs` is the longest, with a few minutes.

`PROJECT.json` lists components, runs, mutants, the map from definitions to source
lines, findings, hazards and theorems.
