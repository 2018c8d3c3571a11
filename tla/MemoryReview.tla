---------------------------- MODULE MemoryReview ----------------------------
(***************************************************************************)
(* Review of proposed memories and the search index behind them.           *)
(*                                                                         *)
(* An accepted candidate creates at most one durable memory (a semantic    *)
(* memory or a career event), so the memory carries its candidate's name.  *)
(* The decision is one transaction.  The new memory is indexed after it,   *)
(* in a transaction per step: the old rows are switched off, every chunk   *)
(* is stored, the outcome is recorded.  Other sessions act in between, any *)
(* step may fail, and the process may die.                                 *)
(***************************************************************************)
EXTENDS Integers, FiniteSets

CONSTANTS
  Sessions,    \* browser sessions of the user; each runs one script at a time
  Candidates,  \* proposed memories
  None,        \* no candidate
  Chunks,      \* how many chunks the text of a memory has
  MaxFailures, \* bound: index steps that raise
  MaxCrashes   \* bound: crashes

ASSUME NoneAssumption == None \notin Candidates
ASSUME CountAssumption == Chunks \in Nat \ {0} /\ MaxFailures \in Nat /\ MaxCrashes \in Nat

VARIABLES
  candidates,  \* the review list
  memories,    \* the durable memories, by candidate
  rows,        \* the active rows of the search index, by memory
  pc,          \* what each session is doing
  job,         \* the memory a session indexes, the chunks stored, whether a step raised
  failures,    \* steps that raised so far
  crashes      \* crashes so far

vars == <<candidates, memories, rows, pc, job, failures, crashes>>

Kinds      == {"semantic", "episodic"}
Operations == {"ADD", "UPDATE", "REVOKE", "CONFLICT"}
Candidate  == [status : {"none", "pending", "accepted", "rejected"},
               kind : Kinds, operation : Operations, target : Candidates \cup {None}]
Memory     == [state : {"none", "active", "inactive"},
               index : {"none", "pending", "synced", "failed", "inactive"},
               supersedes : Candidates \cup {None}]
Job        == [memory : Candidates \cup {None}, stored : 0..Chunks, error : BOOLEAN]
NewJob(c)  == [memory |-> c, stored |-> 0, error |-> FALSE]
NoJob      == NewJob(None)
AllChunks  == 1..Chunks

TypeOK ==
  /\ candidates \in [Candidates -> Candidate]
  /\ memories \in [Candidates -> Memory]
  /\ rows \in [Candidates -> SUBSET AllChunks]
  /\ pc \in [Sessions -> {"idle", "clear", "store", "record"}]
  /\ job \in [Sessions -> Job]
  /\ failures \in 0..MaxFailures
  /\ crashes \in 0..MaxCrashes

Init ==
  /\ candidates = [c \in Candidates |-> [status |-> "none", kind |-> "semantic",
                                         operation |-> "ADD", target |-> None]]
  /\ memories = [c \in Candidates |-> [state |-> "none", index |-> "none",
                                       supersedes |-> None]]
  /\ rows = [c \in Candidates |-> {}]
  /\ pc = [s \in Sessions |-> "idle"]
  /\ job = [s \in Sessions |-> NoJob]
  /\ failures = 0
  /\ crashes = 0

Active == {c \in Candidates : memories[c].state = "active"}

-----------------------------------------------------------------------------
(***************************************************************************)
(* The extractor proposes.                                                 *)
(***************************************************************************)

\* An operation other than ADD aims at a memory that is active when the extractor
\* looks; of the career events only the exact one is aimed at, by a revocation.
\* The candidate is stored in a transaction of its own, but nothing reads it in
\* between, so looking and storing are one step.
Propose(c, kind, operation, target) ==
  /\ candidates[c].status = "none"
  /\ operation = "ADD" <=> target = None
  /\ operation # "ADD" => target \in Active /\ candidates[target].kind = kind
  /\ kind = "episodic" => operation \in {"ADD", "REVOKE"}
  /\ candidates' = [candidates EXCEPT ![c] = [status |-> "pending", kind |-> kind,
                                              operation |-> operation, target |-> target]]
  /\ UNCHANGED <<memories, rows, pc, job, failures, crashes>>

-----------------------------------------------------------------------------
(***************************************************************************)
(* The user decides: one transaction, refused unless the candidate is      *)
(* still pending.                                                          *)
(***************************************************************************)

\* Mutant: the status is checked on the page only.
ReviewableOnPage(c) == candidates[c].status # "none"

Reviewable(c) == candidates[c].status = "pending"

Decide(s, c, status) ==
  /\ pc[s] = "idle" /\ Reviewable(c)
  /\ candidates' = [candidates EXCEPT ![c].status = status]

\* "Reject", and "Keep existing" of a conflict.
Reject(s, c) ==
  /\ Decide(s, c, "rejected")
  /\ UNCHANGED <<memories, rows, pc, job, failures, crashes>>

\* Mutant: the rows of the retired memory stay on.
RetiredRowsKept(c) == rows

\* The rows of a retired memory are switched off with it.
RetiredRows(c) == [rows EXCEPT ![c] = {}]

\* Mutant: the index is told, and the memory stays active.
RetiredFromIndex(c) == [memories EXCEPT ![c].index = "inactive"]

Retired(c) == [memories EXCEPT ![c].state = "inactive", ![c].index = "inactive"]

\* The new memory is active at once and waits for the index.
Created(ms, c, supersedes) ==
  [ms EXCEPT ![c] = [state |-> "active", index |-> "pending", supersedes |-> supersedes]]

StartIndexing(s, c) ==
  /\ pc' = [pc EXCEPT ![s] = "clear"]
  /\ job' = [job EXCEPT ![s] = NewJob(c)]

\* A revocation only retires: there is nothing to index.
AcceptRevocation(s, c) ==
  LET target == candidates[c].target IN
  /\ Decide(s, c, "accepted")
  /\ candidates[c].kind = "semantic" /\ candidates[c].operation = "REVOKE"
  /\ memories' = Retired(target)
  /\ rows' = RetiredRows(target)
  /\ UNCHANGED <<pc, job, failures, crashes>>

\* An update, or a conflict decided for the new value, retires the target, whether or
\* not it is still active.
Replacement(c) == Created(Retired(candidates[c].target), c, candidates[c].target)

AcceptReplacement(s, c) ==
  /\ Decide(s, c, "accepted")
  /\ candidates[c].kind = "semantic" /\ candidates[c].operation \in {"UPDATE", "CONFLICT"}
  /\ memories' = Replacement(c)
  /\ rows' = RetiredRows(candidates[c].target)
  /\ StartIndexing(s, c)
  /\ UNCHANGED <<failures, crashes>>

\* An addition, "Keep both" of a conflict, and a career event whatever its operation.
AcceptAddition(s, c) ==
  /\ Decide(s, c, "accepted")
  /\ candidates[c].kind = "episodic" \/ candidates[c].operation \in {"ADD", "CONFLICT"}
  /\ memories' = Created(memories, c, None)
  /\ StartIndexing(s, c)
  /\ UNCHANGED <<rows, failures, crashes>>

-----------------------------------------------------------------------------
(***************************************************************************)
(* Indexing the new memory, after the decision.                            *)
(***************************************************************************)

ClearRows(s) ==
  /\ pc[s] = "clear"
  /\ rows' = [rows EXCEPT ![job[s].memory] = {}]
  /\ pc' = [pc EXCEPT ![s] = "store"]
  /\ UNCHANGED <<candidates, memories, job, failures, crashes>>

\* The text is stored when every chunk is.
Stored(j) == j.stored + 1 = Chunks

\* A row is switched on without a look at its memory.
StoreChunk(s) ==
  LET j == job[s] IN
  /\ pc[s] = "store"
  /\ rows' = [rows EXCEPT ![j.memory] = @ \cup {j.stored + 1}]
  /\ job' = [job EXCEPT ![s].stored = @ + 1]
  /\ pc' = [pc EXCEPT ![s] = IF Stored(j) THEN "record" ELSE "store"]
  /\ UNCHANGED <<candidates, memories, failures, crashes>>

IndexStepFails(s) ==
  /\ pc[s] \in {"clear", "store"} /\ failures < MaxFailures
  /\ job' = [job EXCEPT ![s].error = TRUE]
  /\ pc' = [pc EXCEPT ![s] = "record"]
  /\ failures' = failures + 1
  /\ UNCHANGED <<candidates, memories, rows, crashes>>

\* Mutant: an error is not passed on.
OutcomeAlwaysSynced(j) == "synced"

\* Mutant: only success is recorded.
SuccessOnly(j) == IF j.error THEN "pending" ELSE "synced"

Outcome(j) == IF j.error THEN "failed" ELSE "synced"

\* The outcome is recorded without a look at the memory's state.
RecordOutcome(s) ==
  /\ pc[s] = "record"
  /\ memories' = [memories EXCEPT ![job[s].memory].index = Outcome(job[s])]
  /\ pc' = [pc EXCEPT ![s] = "idle"]
  /\ job' = [job EXCEPT ![s] = NoJob]
  /\ UNCHANGED <<candidates, rows, failures, crashes>>

\* The process dies, or recording the outcome raises.
Crash(s) ==
  /\ pc[s] # "idle" /\ crashes < MaxCrashes
  /\ pc' = [pc EXCEPT ![s] = "idle"]
  /\ job' = [job EXCEPT ![s] = NoJob]
  /\ crashes' = crashes + 1
  /\ UNCHANGED <<candidates, memories, rows, failures>>

Review(s) ==
  \E c \in Candidates :
    Reject(s, c) \/ AcceptRevocation(s, c) \/ AcceptReplacement(s, c) \/ AcceptAddition(s, c)

Index(s) == ClearRows(s) \/ StoreChunk(s) \/ RecordOutcome(s)

Next ==
  \/ \E c \in Candidates, kind \in Kinds, operation \in Operations,
        target \in Candidates \cup {None} : Propose(c, kind, operation, target)
  \/ \E s \in Sessions : Review(s) \/ Index(s) \/ IndexStepFails(s) \/ Crash(s)

Spec == Init /\ [][Next]_vars

\* A script that indexes goes on: nothing in it waits for another one.
FairSpec == Spec /\ \A s \in Sessions : WF_vars(Index(s))

-----------------------------------------------------------------------------
(***************************************************************************)
(* Properties.                                                             *)
(***************************************************************************)

\* A decision is final: no second click, and no second session, revises it.
DecisionsAreFinal ==
  [][\A c \in Candidates :
       candidates[c].status \in {"accepted", "rejected"} =>
         candidates'[c] = candidates[c]]_vars

\* What retired stays retired, and what replaced it names it: the history of a topic
\* is a chain of inactive memories, whatever is accepted in whatever order.
HistoryIsKept ==
  \A c \in Candidates :
    memories[c].supersedes # None => memories[memories[c].supersedes].state = "inactive"

\* An active memory recorded as indexed can be found by every part of its text,
\* whatever failed or crashed on the way and whatever other sessions accept.
SyncedIsComplete ==
  \A c \in Active : memories[c].index = "synced" => rows[c] = AllChunks

\* A retired memory is out of the index (one session).
RetiredIsUnsearchable ==
  \A c \in Candidates : memories[c].state = "inactive" => rows[c] = {}

\* What the user approved to be revoked or replaced stays out of use, whatever any session
\* accepts afterwards.  The exception is the revocation of a career event, which the code
\* takes for an addition (repository.py:1005).
RetirementsLast ==
  \A c \in Candidates :
    /\ candidates[c].status = "accepted" /\ candidates[c].operation \in {"UPDATE", "REVOKE"}
    /\ candidates[c].target \in Active
    => candidates[c].kind = "episodic"

\* Indexing an approved memory ends in a recorded outcome, failures included, unless the
\* process dies ("Index failures are recorded", docs/ARCHITECTURE.md:114).
OutcomeIsRecorded ==
  \A c \in Candidates :
    (memories[c].state = "active" /\ memories[c].index = "pending")
      ~> (crashes > 0 \/ memories[c].index # "pending")
=============================================================================
