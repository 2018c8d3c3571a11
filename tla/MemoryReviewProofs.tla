------------------------- MODULE MemoryReviewProofs -------------------------
(***************************************************************************)
(* Theorems about MemoryReview, for every number of sessions, candidates,  *)
(* chunks, failures and crashes.                                           *)
(***************************************************************************)
EXTENDS MemoryReview, TLAPS

(***************************************************************************)
(* The inductive invariant.                                                *)
(***************************************************************************)

Working(s) == pc[s] # "idle"

\* A memory exists only for an accepted candidate, and a candidate aims at a memory.
MemoriesAreAccepted ==
  /\ \A c \in Candidates :
       memories[c].state # "none" => candidates[c].status = "accepted"
  /\ \A c \in Candidates :
       candidates[c].operation # "ADD" =>
         /\ candidates[c].target \in Candidates
         /\ memories[candidates[c].target].state # "none"

\* Each session at work has a memory of its own, whose outcome is still open.
WorkIsExclusive ==
  /\ \A s \in Sessions : Working(s) =>
       /\ job[s].memory \in Candidates
       /\ memories[job[s].memory].state # "none"
       /\ job[s].memory \in Active => memories[job[s].memory].index = "pending"
  /\ \A s, t \in Sessions :
       Working(s) /\ Working(t) /\ job[s].memory = job[t].memory => s = t

\* The chunks a session has stored are there, up to the one it stores next.
StoredIsThere ==
  \A s \in Sessions :
    /\ pc[s] \in {"store", "record"} /\ job[s].memory \in Active =>
         1..job[s].stored \subseteq rows[job[s].memory]
    /\ pc[s] = "clear" => job[s].stored = 0 /\ ~job[s].error
    /\ pc[s] = "store" => job[s].stored < Chunks /\ ~job[s].error
    /\ pc[s] = "record" /\ ~job[s].error => job[s].stored = Chunks

IInv ==
  /\ TypeOK
  /\ MemoriesAreAccepted
  /\ WorkIsExclusive
  /\ StoredIsThere
  /\ HistoryIsKept
  /\ SyncedIsComplete

\* With one session a memory is not retired while it is indexed.
OneSession == \E s \in Sessions : Sessions = {s}

IndexedIsActive == \A s \in Sessions : Working(s) => job[s].memory \in Active

OneInv == IInv /\ IndexedIsActive /\ RetiredIsUnsearchable

(***************************************************************************)
(* What the operators on memories and rows return.                         *)
(***************************************************************************)

LEMMA RetiredIs ==
  ASSUME TypeOK, NEW t \in Candidates
  PROVE  /\ Retired(t) \in [Candidates -> Memory]
         /\ Retired(t)[t].state = "inactive" /\ Retired(t)[t].index = "inactive"
         /\ Retired(t)[t].supersedes = memories[t].supersedes
         /\ \A c \in Candidates \ {t} : Retired(t)[c] = memories[c]
  BY DEF TypeOK, Retired, Memory

LEMMA CreatedIs ==
  ASSUME NEW ms \in [Candidates -> Memory], NEW c \in Candidates,
         NEW old \in Candidates \cup {None}
  PROVE  /\ Created(ms, c, old) \in [Candidates -> Memory]
         /\ Created(ms, c, old)[c].state = "active"
         /\ Created(ms, c, old)[c].index = "pending"
         /\ Created(ms, c, old)[c].supersedes = old
         /\ \A d \in Candidates \ {c} : Created(ms, c, old)[d] = ms[d]
  BY DEF Created, Memory

LEMMA RetiredRowsAre ==
  ASSUME TypeOK, NEW t \in Candidates
  PROVE  /\ RetiredRows(t) \in [Candidates -> SUBSET AllChunks]
         /\ RetiredRows(t)[t] = {}
         /\ \A c \in Candidates \ {t} : RetiredRows(t)[c] = rows[c]
  BY DEF TypeOK, RetiredRows

LEMMA DecideIs ==
  ASSUME TypeOK, NEW s \in Sessions, NEW c \in Candidates,
         NEW status \in {"accepted", "rejected"}, Decide(s, c, status)
  PROVE  /\ pc[s] = "idle" /\ candidates[c].status = "pending"
         /\ candidates' \in [Candidates -> Candidate]
         /\ candidates'[c].status = status
         /\ \A d \in Candidates \ {c} : candidates'[d] = candidates[d]
         /\ \A d \in Candidates : /\ candidates'[d].operation = candidates[d].operation
                                  /\ candidates'[d].target = candidates[d].target
                                  /\ candidates'[d].kind = candidates[d].kind
  BY DEF TypeOK, Decide, Reviewable, Candidate

LEMMA StartIndexingIs ==
  ASSUME TypeOK, NEW s \in Sessions, NEW c \in Candidates, StartIndexing(s, c)
  PROVE  /\ pc' \in [Sessions -> {"idle", "clear", "store", "record"}]
         /\ job' \in [Sessions -> Job]
         /\ pc'[s] = "clear"
         /\ job'[s].memory = c /\ job'[s].stored = 0 /\ ~job'[s].error
         /\ \A t \in Sessions \ {s} : pc'[t] = pc[t] /\ job'[t] = job[t]
<1>1. /\ NewJob(c) \in Job /\ NewJob(c).memory = c
      /\ NewJob(c).stored = 0 /\ ~NewJob(c).error
  BY CountAssumption DEF Job, NewJob
<1>2. QED
  BY <1>1 DEF TypeOK, StartIndexing

(***************************************************************************)
(* Decisions.                                                              *)
(***************************************************************************)

LEMMA ProposeStep ==
  ASSUME IInv, NEW c \in Candidates, NEW kind \in Kinds, NEW operation \in Operations,
         NEW target \in Candidates \cup {None}, Propose(c, kind, operation, target)
  PROVE  IInv'
<1>1. /\ candidates' \in [Candidates -> Candidate]
      /\ candidates'[c].status = "pending" /\ candidates'[c].operation = operation
      /\ candidates'[c].target = target
      /\ \A d \in Candidates \ {c} : candidates'[d] = candidates[d]
  BY DEF IInv, TypeOK, Propose, Candidate
<1>2. TypeOK'
  BY <1>1 DEF IInv, TypeOK, Propose
<1>3. MemoriesAreAccepted'
  BY <1>1 DEF IInv, MemoriesAreAccepted, Propose, Active
<1>4. WorkIsExclusive' /\ StoredIsThere' /\ HistoryIsKept' /\ SyncedIsComplete'
  BY DEF IInv, WorkIsExclusive, StoredIsThere, HistoryIsKept, SyncedIsComplete, Propose,
         Active, Working
<1>5. QED
  BY <1>2, <1>3, <1>4 DEF IInv

LEMMA RejectStep ==
  ASSUME IInv, NEW s \in Sessions, NEW c \in Candidates, Reject(s, c)
  PROVE  IInv'
<1>1. TypeOK'
  BY DecideIs DEF IInv, TypeOK, Reject
<1>2. MemoriesAreAccepted'
  BY DecideIs DEF IInv, MemoriesAreAccepted, Reject
<1>3. WorkIsExclusive' /\ StoredIsThere' /\ HistoryIsKept' /\ SyncedIsComplete'
  BY DEF IInv, WorkIsExclusive, StoredIsThere, HistoryIsKept, SyncedIsComplete, Reject,
         Active, Working
<1>4. QED
  BY <1>1, <1>2, <1>3 DEF IInv

LEMMA AcceptRevocationStep ==
  ASSUME IInv, NEW s \in Sessions, NEW c \in Candidates, AcceptRevocation(s, c)
  PROVE  IInv'
<1> DEFINE t == candidates[c].target
<1>1. t \in Candidates /\ memories[t].state # "none"
  BY DEF IInv, MemoriesAreAccepted, AcceptRevocation
<1>2. /\ memories' = Retired(t) /\ rows' = RetiredRows(t)
      /\ UNCHANGED <<pc, job, failures, crashes>>
      /\ Decide(s, c, "accepted")
  BY DEF AcceptRevocation
<1> HIDE DEF t
<1>3. TypeOK'
  BY <1>1, <1>2, DecideIs, RetiredIs, RetiredRowsAre DEF IInv, TypeOK
<1>4. MemoriesAreAccepted'
  <2>1. \A d \in Candidates : memories'[d].state # "none" <=> memories[d].state # "none"
    BY <1>1, <1>2, RetiredIs DEF IInv
  <2>2. QED
    BY <1>2, <2>1, DecideIs DEF IInv, MemoriesAreAccepted
<1>5. WorkIsExclusive'
  BY <1>1, <1>2, RetiredIs DEF IInv, WorkIsExclusive, Active, Working
<1>6. StoredIsThere'
  BY <1>1, <1>2, RetiredIs, RetiredRowsAre DEF IInv, StoredIsThere, Active
<1>7. HistoryIsKept'
  <2>1. \A d \in Candidates :
          /\ memories'[d].supersedes = memories[d].supersedes
          /\ memories[d].supersedes \in Candidates \cup {None}
          /\ memories[d].state = "inactive" => memories'[d].state = "inactive"
    BY <1>1, <1>2, RetiredIs DEF IInv, TypeOK, Memory
  <2>2. QED
    BY <2>1 DEF IInv, HistoryIsKept
<1>8. SyncedIsComplete'
  BY <1>1, <1>2, RetiredIs, RetiredRowsAre DEF IInv, SyncedIsComplete, Active
<1>9. QED
  BY <1>3, <1>4, <1>5, <1>6, <1>7, <1>8 DEF IInv

LEMMA AcceptReplacementStep ==
  ASSUME IInv, NEW s \in Sessions, NEW c \in Candidates, AcceptReplacement(s, c)
  PROVE  IInv'
<1> DEFINE t == candidates[c].target
<1>1. t \in Candidates /\ memories[t].state # "none"
  BY DEF IInv, MemoriesAreAccepted, AcceptReplacement
<1>2. /\ memories' = Created(Retired(t), c, t) /\ rows' = RetiredRows(t)
      /\ UNCHANGED <<failures, crashes>>
      /\ Decide(s, c, "accepted") /\ StartIndexing(s, c)
  BY DEF AcceptReplacement, Replacement
<1> HIDE DEF t
<1>3. memories[c].state = "none" /\ c # t
  BY <1>1, <1>2, DecideIs DEF IInv, MemoriesAreAccepted
<1>4. /\ memories' \in [Candidates -> Memory]
      /\ memories'[c].state = "active" /\ memories'[c].index = "pending"
      /\ memories'[c].supersedes = t
      /\ memories'[t].state = "inactive" /\ memories'[t].supersedes = memories[t].supersedes
      /\ \A d \in Candidates \ {c, t} : memories'[d] = memories[d]
  BY <1>1, <1>2, <1>3, RetiredIs, CreatedIs DEF IInv
<1>5. TypeOK'
  BY <1>1, <1>2, <1>4, DecideIs, RetiredRowsAre, StartIndexingIs DEF IInv, TypeOK
<1>6. MemoriesAreAccepted'
  BY <1>1, <1>2, <1>4, DecideIs DEF IInv, MemoriesAreAccepted
<1>7. WorkIsExclusive'
  <2>1. \A u \in Sessions : Working(u) => job[u].memory # c
    BY <1>3 DEF IInv, WorkIsExclusive
  <2>2. \A u \in Sessions \ {s} : /\ Working(u)' <=> Working(u)
                                  /\ job'[u] = job[u]
    BY <1>2, StartIndexingIs DEF IInv, Working
  <2>3. job'[s].memory = c /\ ~Working(s)
    BY <1>2, StartIndexingIs, DecideIs DEF IInv, Working
  <2>4. \A d \in Candidates \ {c} :
          /\ memories[d].state # "none" => memories'[d].state # "none"
          /\ memories'[d].state = "active" => memories'[d] = memories[d]
    BY <1>4
  <2>5. QED
    BY <1>4, <2>1, <2>2, <2>3, <2>4 DEF IInv, WorkIsExclusive, Active
<1>8. StoredIsThere'
  <2>1. \A u \in Sessions \ {s} : pc'[u] = pc[u] /\ job'[u] = job[u]
    BY <1>2, StartIndexingIs DEF IInv
  <2>2. pc'[s] = "clear" /\ job'[s].stored = 0 /\ ~job'[s].error
    BY <1>2, StartIndexingIs DEF IInv
  <2>3. \A u \in Sessions : pc[u] \in {"store", "record"} =>
          job[u].memory \in Candidates \ {c}
    BY <1>3 DEF IInv, WorkIsExclusive, Working
  <2>4. \A d \in Candidates \ {c} : memories'[d].state = "active" =>
          memories[d].state = "active" /\ rows'[d] = rows[d]
    BY <1>1, <1>2, <1>4, RetiredRowsAre DEF IInv
  <2>5. QED
    BY <2>1, <2>2, <2>3, <2>4 DEF IInv, StoredIsThere, Active
<1>9. HistoryIsKept'
  BY <1>1, <1>3, <1>4, NoneAssumption DEF IInv, TypeOK, Memory, HistoryIsKept
<1>10. SyncedIsComplete'
  BY <1>1, <1>2, <1>4, RetiredRowsAre DEF IInv, SyncedIsComplete, Active
<1>11. QED
  BY <1>5, <1>6, <1>7, <1>8, <1>9, <1>10 DEF IInv

LEMMA AcceptAdditionStep ==
  ASSUME IInv, NEW s \in Sessions, NEW c \in Candidates, AcceptAddition(s, c)
  PROVE  IInv'
<1>1. /\ memories' = Created(memories, c, None)
      /\ UNCHANGED <<rows, failures, crashes>>
      /\ Decide(s, c, "accepted") /\ StartIndexing(s, c)
  BY DEF AcceptAddition
<1>2. memories[c].state = "none"
  BY <1>1, DecideIs DEF IInv, MemoriesAreAccepted
<1>3. /\ memories' \in [Candidates -> Memory]
      /\ memories'[c].state = "active" /\ memories'[c].index = "pending"
      /\ memories'[c].supersedes = None
      /\ \A d \in Candidates \ {c} : memories'[d] = memories[d]
  <2>1. memories \in [Candidates -> Memory] /\ None \in Candidates \cup {None}
    BY DEF IInv, TypeOK
  <2>2. QED
    BY <1>1, <2>1, CreatedIs
<1>4. TypeOK'
  BY <1>1, <1>3, DecideIs, StartIndexingIs DEF IInv, TypeOK
<1>5. MemoriesAreAccepted'
  BY <1>1, <1>3, DecideIs DEF IInv, MemoriesAreAccepted
<1>6. WorkIsExclusive'
  <2>1. \A u \in Sessions : Working(u) => job[u].memory # c
    BY <1>2 DEF IInv, WorkIsExclusive
  <2>2. \A u \in Sessions \ {s} : /\ Working(u)' <=> Working(u)
                                  /\ job'[u] = job[u]
    BY <1>1, StartIndexingIs DEF IInv, Working
  <2>3. job'[s].memory = c /\ ~Working(s)
    BY <1>1, StartIndexingIs, DecideIs DEF IInv, Working
  <2>4. \A d \in Candidates \ {c} :
          /\ memories[d].state # "none" => memories'[d].state # "none"
          /\ memories'[d].state = "active" => memories'[d] = memories[d]
    BY <1>3
  <2>5. QED
    BY <1>3, <2>1, <2>2, <2>3, <2>4 DEF IInv, WorkIsExclusive, Active
<1>7. StoredIsThere'
  <2>1. \A u \in Sessions \ {s} : pc'[u] = pc[u] /\ job'[u] = job[u]
    BY <1>1, StartIndexingIs DEF IInv
  <2>2. pc'[s] = "clear" /\ job'[s].stored = 0 /\ ~job'[s].error
    BY <1>1, StartIndexingIs DEF IInv
  <2>3. \A u \in Sessions : pc[u] \in {"store", "record"} =>
          job[u].memory \in Candidates \ {c}
    BY <1>2 DEF IInv, WorkIsExclusive, Working
  <2>4. QED
    BY <1>1, <1>3, <2>1, <2>2, <2>3 DEF IInv, StoredIsThere, Active
<1>8. HistoryIsKept'
  BY <1>2, <1>3, NoneAssumption DEF IInv, TypeOK, Memory, HistoryIsKept
<1>9. SyncedIsComplete'
  BY <1>1, <1>3 DEF IInv, SyncedIsComplete, Active
<1>10. QED
  BY <1>4, <1>5, <1>6, <1>7, <1>8, <1>9 DEF IInv

(***************************************************************************)
(* Indexing.                                                               *)
(***************************************************************************)

LEMMA ClearRowsStep ==
  ASSUME IInv, NEW s \in Sessions, ClearRows(s)
  PROVE  IInv'
<1>1. /\ pc[s] = "clear" /\ Working(s) /\ job[s].memory \in Candidates
      /\ UNCHANGED <<candidates, memories, job, failures, crashes>>
      /\ rows' = RetiredRows(job[s].memory) /\ pc' = [pc EXCEPT ![s] = "store"]
  BY DEF IInv, ClearRows, RetiredRows, WorkIsExclusive, Working
<1>2. /\ pc'[s] = "store" /\ \A u \in Sessions \ {s} : pc'[u] = pc[u]
      /\ \A u \in Sessions : Working(u)' <=> Working(u)
  BY <1>1 DEF IInv, TypeOK, Working
<1>3. TypeOK'
  BY <1>1, RetiredRowsAre DEF IInv, TypeOK
<1>4. MemoriesAreAccepted' /\ HistoryIsKept'
  BY <1>1 DEF IInv, MemoriesAreAccepted, HistoryIsKept
<1>5. WorkIsExclusive'
  BY <1>1, <1>2 DEF IInv, WorkIsExclusive, Active
<1>6. StoredIsThere'
  <2>1. \A u \in Sessions \ {s} : Working(u) => job[u].memory # job[s].memory
    BY <1>1 DEF IInv, WorkIsExclusive
  <2>2. \A u \in Sessions \ {s} : Working(u) => rows'[job[u].memory] = rows[job[u].memory]
    BY <1>1, <2>1, RetiredRowsAre DEF IInv, WorkIsExclusive
  <2>3. job[s].stored = 0 /\ ~job[s].error /\ 1..job[s].stored = {}
    BY <1>1 DEF IInv, StoredIsThere
  <2>4. ASSUME NEW u \in Sessions \ {s}
        PROVE  pc[u] \in {"store", "record"} /\ job[u].memory \in Active =>
                 1..job[u].stored \subseteq rows'[job[u].memory]
    BY <2>2 DEF IInv, StoredIsThere, Working
  <2>5. QED
    BY <1>1, <1>2, <2>3, <2>4, CountAssumption DEF IInv, StoredIsThere, Active
<1>7. SyncedIsComplete'
  BY <1>1, RetiredRowsAre DEF IInv, SyncedIsComplete, WorkIsExclusive, Active
<1>8. QED
  BY <1>3, <1>4, <1>5, <1>6, <1>7 DEF IInv

LEMMA StoreChunkStep ==
  ASSUME IInv, NEW s \in Sessions, StoreChunk(s)
  PROVE  IInv'
<1> DEFINE m == job[s].memory
           k == job[s].stored
<1>1. /\ pc[s] = "store" /\ Working(s) /\ m \in Candidates
      /\ k \in 0..Chunks /\ k < Chunks /\ ~job[s].error
      /\ UNCHANGED <<candidates, memories, failures, crashes>>
  BY DEF IInv, TypeOK, Job, StoreChunk, WorkIsExclusive, Working, StoredIsThere
<1>2. /\ rows' \in [Candidates -> SUBSET AllChunks]
      /\ rows'[m] = rows[m] \cup {k + 1}
      /\ \A c \in Candidates \ {m} : rows'[c] = rows[c]
  <2>1. rows' = [rows EXCEPT ![m] = rows[m] \cup {k + 1}]
    BY DEF StoreChunk
  <2>2. k + 1 \in AllChunks /\ rows \in [Candidates -> SUBSET AllChunks]
    BY <1>1, CountAssumption DEF AllChunks, IInv, TypeOK
  <2>3. rows[m] \cup {k + 1} \in SUBSET AllChunks
    BY <1>1, <2>2
  <2> HIDE DEF m, k
  <2>4. QED
    BY <1>1, <2>1, <2>2, <2>3
<1>3. /\ job' \in [Sessions -> Job]
      /\ job'[s].memory = m /\ job'[s].stored = k + 1 /\ ~job'[s].error
      /\ \A u \in Sessions \ {s} : job'[u] = job[u]
  BY <1>1, CountAssumption DEF IInv, TypeOK, StoreChunk, Job
<1>4. /\ pc' \in [Sessions -> {"idle", "clear", "store", "record"}]
      /\ pc'[s] = (IF k + 1 = Chunks THEN "record" ELSE "store")
      /\ \A u \in Sessions \ {s} : pc'[u] = pc[u]
      /\ \A u \in Sessions : Working(u)' <=> Working(u)
  <2>1. /\ pc \in [Sessions -> {"idle", "clear", "store", "record"}]
        /\ pc' = [pc EXCEPT ![s] = IF k + 1 = Chunks THEN "record" ELSE "store"]
    BY DEF IInv, TypeOK, StoreChunk, Stored
  <2>2. /\ pc'[s] = (IF k + 1 = Chunks THEN "record" ELSE "store")
        /\ \A u \in Sessions \ {s} : pc'[u] = pc[u]
        /\ pc' \in [Sessions -> {"idle", "clear", "store", "record"}]
    <3> HIDE DEF k
    <3>1. QED
      BY <2>1
  <2> HIDE DEF k
  <2>3. \A u \in Sessions : Working(u)' <=> Working(u)
    BY <1>1, <2>2 DEF Working
  <2>4. QED
    BY <2>2, <2>3
<1> HIDE DEF m, k
<1>5. TypeOK'
  BY <1>1, <1>2, <1>3, <1>4 DEF IInv, TypeOK
<1>6. MemoriesAreAccepted' /\ HistoryIsKept'
  BY <1>1 DEF IInv, MemoriesAreAccepted, HistoryIsKept
<1>7. WorkIsExclusive'
  <2>1. \A u \in Sessions : job'[u].memory = job[u].memory
    BY <1>3 DEF m
  <2>2. QED
    BY <1>1, <1>4, <2>1 DEF IInv, WorkIsExclusive, Active
<1>8. StoredIsThere'
  <2>1. m \in Active => 1..(k + 1) \subseteq rows'[m]
    <3>1. m \in Active => 1..k \subseteq rows[m]
      BY <1>1 DEF IInv, StoredIsThere, m, k
    <3>2. 1..(k + 1) = (1..k) \cup {k + 1}
      BY <1>1
    <3>3. QED
      BY <1>2, <3>1, <3>2
  <2>2. k + 1 # Chunks => k + 1 < Chunks
    BY <1>1, CountAssumption
  <2>3. \A u \in Sessions \ {s} : Working(u) => rows'[job[u].memory] = rows[job[u].memory]
    BY <1>1, <1>2 DEF IInv, WorkIsExclusive, m
  <2>4. ASSUME NEW u \in Sessions \ {s}
        PROVE  pc[u] \in {"store", "record"} /\ job[u].memory \in Active =>
                 1..job[u].stored \subseteq rows'[job[u].memory]
    BY <2>3 DEF IInv, StoredIsThere, Working
  <2>5. QED
    BY <1>1, <1>3, <1>4, <2>1, <2>2, <2>4 DEF IInv, StoredIsThere, Active
<1>9. SyncedIsComplete'
  BY <1>1, <1>2 DEF IInv, SyncedIsComplete, WorkIsExclusive, Active, m
<1>10. QED
  BY <1>5, <1>6, <1>7, <1>8, <1>9 DEF IInv

LEMMA IndexStepFailsStep ==
  ASSUME IInv, NEW s \in Sessions, IndexStepFails(s)
  PROVE  IInv'
<1>1. /\ pc[s] \in {"clear", "store"} /\ failures' \in 0..MaxFailures
      /\ UNCHANGED <<candidates, memories, rows, crashes>>
  BY CountAssumption DEF IInv, TypeOK, IndexStepFails
<1>2. /\ job' \in [Sessions -> Job]
      /\ job'[s].memory = job[s].memory /\ job'[s].stored = job[s].stored /\ job'[s].error
      /\ \A u \in Sessions \ {s} : job'[u] = job[u]
  BY DEF IInv, TypeOK, IndexStepFails, Job
<1>3. /\ pc' \in [Sessions -> {"idle", "clear", "store", "record"}]
      /\ pc'[s] = "record" /\ \A u \in Sessions \ {s} : pc'[u] = pc[u]
      /\ \A u \in Sessions : Working(u)' <=> Working(u)
  BY DEF IInv, TypeOK, IndexStepFails, Working
<1>4. TypeOK'
  BY <1>1, <1>2, <1>3 DEF IInv, TypeOK
<1>5. MemoriesAreAccepted' /\ HistoryIsKept' /\ SyncedIsComplete'
  BY <1>1 DEF IInv, MemoriesAreAccepted, HistoryIsKept, SyncedIsComplete, Active
<1>6. WorkIsExclusive'
  BY <1>1, <1>2, <1>3 DEF IInv, WorkIsExclusive, Active
<1>7. StoredIsThere'
  <2>1. job[s].memory \in Active => 1..job[s].stored \subseteq rows[job[s].memory]
    <3>1. CASE pc[s] = "clear"
      <4>1. 1..job[s].stored = {}
        BY <3>1 DEF IInv, StoredIsThere
      <4>2. QED
        BY <4>1
    <3>2. CASE pc[s] = "store"
      BY <3>2 DEF IInv, StoredIsThere
    <3>3. QED
      BY <1>1, <3>1, <3>2
  <2>2. QED
    BY <1>1, <1>2, <1>3, <2>1 DEF IInv, StoredIsThere, Active
<1>8. QED
  BY <1>4, <1>5, <1>6, <1>7 DEF IInv

LEMMA RecordOutcomeStep ==
  ASSUME IInv, NEW s \in Sessions, RecordOutcome(s)
  PROVE  IInv'
<1> DEFINE m == job[s].memory
<1>1. /\ pc[s] = "record" /\ Working(s) /\ m \in Candidates
      /\ UNCHANGED <<candidates, rows, failures, crashes>>
  BY DEF IInv, RecordOutcome, WorkIsExclusive, Working
<1>2. /\ memories' \in [Candidates -> Memory]
      /\ memories'[m].index = Outcome(job[s])
      /\ \A c \in Candidates : /\ memories'[c].state = memories[c].state
                               /\ memories'[c].supersedes = memories[c].supersedes
      /\ \A c \in Candidates \ {m} : memories'[c] = memories[c]
  BY <1>1 DEF IInv, TypeOK, RecordOutcome, Memory, Outcome
<1>3. /\ pc' \in [Sessions -> {"idle", "clear", "store", "record"}]
      /\ job' \in [Sessions -> Job]
      /\ pc'[s] = "idle"
      /\ \A u \in Sessions \ {s} : pc'[u] = pc[u] /\ job'[u] = job[u]
  BY CountAssumption DEF IInv, TypeOK, RecordOutcome, NoJob, NewJob, Job
<1>4. TypeOK'
  BY <1>1, <1>2, <1>3 DEF IInv, TypeOK
<1>5. MemoriesAreAccepted' /\ HistoryIsKept'
  <2>1. \A c \in Candidates : memories[c].supersedes \in Candidates \cup {None}
    BY DEF IInv, TypeOK, Memory
  <2>2. QED
    BY <1>1, <1>2, <2>1 DEF IInv, MemoriesAreAccepted, HistoryIsKept
<1>6. WorkIsExclusive'
  <2>1. \A u \in Sessions \ {s} : Working(u) => job[u].memory # m
    BY <1>1 DEF IInv, WorkIsExclusive
  <2>2. QED
    BY <1>2, <1>3, <2>1 DEF IInv, WorkIsExclusive, Active, Working
<1>7. StoredIsThere'
  BY <1>1, <1>2, <1>3 DEF IInv, StoredIsThere, WorkIsExclusive, Working, Active
<1>8. SyncedIsComplete'
  <2>1. m \in Active /\ ~job[s].error => rows[m] = AllChunks
    BY <1>1 DEF IInv, TypeOK, StoredIsThere, AllChunks
  <2>2. Outcome(job[s]) = "synced" => ~job[s].error
    BY DEF Outcome
  <2>3. QED
    BY <1>1, <1>2, <2>1, <2>2 DEF IInv, SyncedIsComplete, Active
<1>9. QED
  BY <1>4, <1>5, <1>6, <1>7, <1>8 DEF IInv

LEMMA CrashStep ==
  ASSUME IInv, NEW s \in Sessions, Crash(s)
  PROVE  IInv'
<1>1. /\ pc' \in [Sessions -> {"idle", "clear", "store", "record"}]
      /\ job' \in [Sessions -> Job]
      /\ pc'[s] = "idle"
      /\ \A u \in Sessions \ {s} : pc'[u] = pc[u] /\ job'[u] = job[u]
  BY CountAssumption DEF IInv, TypeOK, Crash, NoJob, NewJob, Job
<1>2. UNCHANGED <<candidates, memories, rows, failures>> /\ crashes' \in 0..MaxCrashes
  BY CountAssumption DEF IInv, TypeOK, Crash
<1>3. TypeOK'
  BY <1>1, <1>2 DEF IInv, TypeOK
<1>4. MemoriesAreAccepted' /\ HistoryIsKept' /\ SyncedIsComplete'
  BY <1>2 DEF IInv, MemoriesAreAccepted, HistoryIsKept, SyncedIsComplete, Active
<1>5. WorkIsExclusive' /\ StoredIsThere'
  BY <1>1, <1>2 DEF IInv, WorkIsExclusive, StoredIsThere, Working, Active
<1>6. QED
  BY <1>3, <1>4, <1>5 DEF IInv

(***************************************************************************)
(* Every number of sessions.                                               *)
(***************************************************************************)

LEMMA InitIInv == Init => IInv
  BY NoneAssumption, CountAssumption
     DEF Init, IInv, TypeOK, MemoriesAreAccepted, WorkIsExclusive, StoredIsThere,
         HistoryIsKept, SyncedIsComplete, Active, Working, Candidate, Memory, Job, NoJob,
         NewJob, Kinds, Operations

LEMMA StepIInv == IInv /\ [Next]_vars => IInv'
<1> SUFFICES ASSUME IInv, [Next]_vars PROVE IInv'
  OBVIOUS
<1>1. ASSUME NEW c \in Candidates, NEW kind \in Kinds, NEW operation \in Operations,
             NEW target \in Candidates \cup {None}, Propose(c, kind, operation, target)
      PROVE  IInv'
  BY <1>1, ProposeStep
<1>2. ASSUME NEW s \in Sessions, Review(s) PROVE IInv'
  BY <1>2, RejectStep, AcceptRevocationStep, AcceptReplacementStep, AcceptAdditionStep
     DEF Review
<1>3. ASSUME NEW s \in Sessions, Index(s) \/ IndexStepFails(s) \/ Crash(s) PROVE IInv'
  BY <1>3, ClearRowsStep, StoreChunkStep, RecordOutcomeStep, IndexStepFailsStep, CrashStep
     DEF Index
<1>4. CASE UNCHANGED vars
  BY <1>4 DEF vars, IInv, TypeOK, MemoriesAreAccepted, WorkIsExclusive, StoredIsThere,
              HistoryIsKept, SyncedIsComplete, Active, Working
<1>5. QED
  BY <1>1, <1>2, <1>3, <1>4 DEF Next

LEMMA AlwaysIInv == Spec => []IInv
  BY InitIInv, StepIInv, PTL DEF Spec

\* The state is well-formed: targets and jobs name candidates, no more chunks are
\* stored than the text has (review_memory_candidate, index_text).
THEOREM TypeCorrect == Spec => []TypeOK
<1>1. IInv => TypeOK
  BY DEF IInv
<1>2. QED
  BY <1>1, AlwaysIInv, PTL

\* A memory recorded as indexed can be found by its whole text while it is active,
\* with any number of sessions, failures and crashes (the status written at the end
\* of _review_structured_memory_candidate).
THEOREM IndexIsComplete == Spec => []SyncedIsComplete
<1>1. IInv => SyncedIsComplete
  BY DEF IInv
<1>2. QED
  BY <1>1, AlwaysIInv, PTL

\* What a memory supersedes is inactive, whatever two sessions accept (the UPDATE
\* branch of _review_structured_memory_candidate).
THEOREM SupersededStaysInactive == Spec => []HistoryIsKept
<1>1. IInv => HistoryIsKept
  BY DEF IInv
<1>2. QED
  BY <1>1, AlwaysIInv, PTL

\* A decision is never revised, neither by a second click nor by a second session
\* (the status check that opens the transaction of review_memory_candidate).
THEOREM DecidedOnce == Spec => DecisionsAreFinal
<1> DEFINE Final == \A c \in Candidates : candidates[c].status \in {"accepted", "rejected"} =>
                      candidates'[c] = candidates[c]
<1>1. IInv /\ [Next]_vars => [Final]_vars
  <2> SUFFICES ASSUME IInv, Next PROVE Final
    OBVIOUS
  <2>1. ASSUME NEW c \in Candidates, NEW kind \in Kinds, NEW operation \in Operations,
               NEW target \in Candidates \cup {None}, Propose(c, kind, operation, target)
        PROVE  Final
    BY <2>1 DEF IInv, TypeOK, Propose
  <2>2. ASSUME NEW s \in Sessions, Review(s) PROVE Final
    <3>1. PICK c \in Candidates, status \in {"accepted", "rejected"} : Decide(s, c, status)
      BY <2>2 DEF Review, Reject, AcceptRevocation, AcceptReplacement, AcceptAddition
    <3>2. QED
      BY <3>1, DecideIs DEF IInv
  <2>3. ASSUME NEW s \in Sessions, Index(s) \/ IndexStepFails(s) \/ Crash(s) PROVE Final
    BY <2>3 DEF Index, ClearRows, StoreChunk, RecordOutcome, IndexStepFails, Crash
  <2>4. QED
    BY <2>1, <2>2, <2>3 DEF Next
<1>2. QED
  BY <1>1, AlwaysIInv, PTL DEF Spec, DecisionsAreFinal

LEMMA StepRetirementsLast == IInv /\ RetirementsLast /\ [Next]_vars => RetirementsLast'
<1> SUFFICES ASSUME IInv, RetirementsLast, [Next]_vars PROVE RetirementsLast'
  OBVIOUS
<1> DEFINE Stays == \A d \in Candidates :
             memories[d].state # "none" /\ d \notin Active => d \notin Active'
<1>1. ASSUME NEW c \in Candidates, NEW s \in Sessions, NEW status \in {"accepted", "rejected"},
             Decide(s, c, status), Stays,
             status = "accepted" /\ candidates[c].operation \in {"UPDATE", "REVOKE"} =>
               candidates[c].kind = "episodic" \/ candidates[c].target \notin Active'
      PROVE  RetirementsLast'
  <2> SUFFICES ASSUME NEW d \in Candidates, candidates'[d].status = "accepted",
                      candidates'[d].operation \in {"UPDATE", "REVOKE"},
                      candidates'[d].target \in Active'
               PROVE  candidates'[d].kind = "episodic"
    BY DEF RetirementsLast
  <2>1. CASE d = c
    BY <1>1, <2>1, DecideIs DEF IInv
  <2>2. CASE d # c
    BY <1>1, <2>2, DecideIs DEF IInv, RetirementsLast, MemoriesAreAccepted
  <2>3. QED
    BY <2>1, <2>2
<1>2. ASSUME UNCHANGED candidates, Stays PROVE RetirementsLast'
  BY <1>2 DEF IInv, RetirementsLast, MemoriesAreAccepted
<1>3. ASSUME NEW c \in Candidates, NEW kind \in Kinds, NEW operation \in Operations,
             NEW target \in Candidates \cup {None}, Propose(c, kind, operation, target)
      PROVE  RetirementsLast'
  BY <1>3 DEF IInv, TypeOK, RetirementsLast, Propose, Active, Candidate
<1>4. ASSUME NEW s \in Sessions, NEW c \in Candidates, Reject(s, c) PROVE RetirementsLast'
  BY <1>1, <1>4 DEF Reject, Active
<1>5. ASSUME NEW s \in Sessions, NEW c \in Candidates, AcceptRevocation(s, c)
      PROVE  RetirementsLast'
  <2> DEFINE t == candidates[c].target
  <2>1. t \in Candidates /\ memories' = Retired(t) /\ Decide(s, c, "accepted")
    BY <1>5 DEF IInv, MemoriesAreAccepted, AcceptRevocation
  <2> HIDE DEF t
  <2>2. Stays /\ t \notin Active'
    BY <2>1, RetiredIs DEF IInv, Active
  <2>3. QED
    BY <1>1, <2>1, <2>2 DEF t
<1>6. ASSUME NEW s \in Sessions, NEW c \in Candidates, AcceptReplacement(s, c)
      PROVE  RetirementsLast'
  <2> DEFINE t == candidates[c].target
  <2>1. /\ t \in Candidates /\ memories' = Created(Retired(t), c, t)
        /\ Decide(s, c, "accepted") /\ memories[t].state # "none"
    BY <1>6 DEF IInv, MemoriesAreAccepted, AcceptReplacement, Replacement
  <2> HIDE DEF t
  <2>2. memories[c].state = "none" /\ c # t
    BY <2>1, DecideIs DEF IInv, MemoriesAreAccepted
  <2>3. /\ memories'[t].state = "inactive"
        /\ \A d \in Candidates \ {c, t} : memories'[d] = memories[d]
    BY <2>1, <2>2, RetiredIs, CreatedIs DEF IInv
  <2>4. Stays /\ t \notin Active'
    BY <2>2, <2>3 DEF Active
  <2>5. QED
    BY <1>1, <2>1, <2>4 DEF t
<1>7. ASSUME NEW s \in Sessions, NEW c \in Candidates, AcceptAddition(s, c)
      PROVE  RetirementsLast'
  <2>1. /\ memories' = Created(memories, c, None) /\ Decide(s, c, "accepted")
        /\ memories \in [Candidates -> Memory] /\ None \in Candidates \cup {None}
        /\ candidates[c].kind = "episodic" \/ candidates[c].operation \in {"ADD", "CONFLICT"}
    BY <1>7 DEF AcceptAddition, IInv, TypeOK
  <2>2. memories[c].state = "none"
    BY <2>1, DecideIs DEF IInv, MemoriesAreAccepted
  <2>3. Stays
    BY <2>1, <2>2, CreatedIs DEF Active
  <2>4. QED
    BY <1>1, <2>1, <2>3
<1>8. ASSUME NEW s \in Sessions, Index(s) \/ IndexStepFails(s) \/ Crash(s)
      PROVE  RetirementsLast'
  <2>1. \A d \in Candidates : memories'[d].state = memories[d].state
    BY <1>8 DEF IInv, TypeOK, Memory, Index, ClearRows, StoreChunk, RecordOutcome,
                IndexStepFails, Crash
  <2>2. UNCHANGED candidates
    BY <1>8 DEF Index, ClearRows, StoreChunk, RecordOutcome, IndexStepFails, Crash
  <2>3. QED
    BY <1>2, <2>1, <2>2 DEF Active
<1>9. CASE UNCHANGED vars
  BY <1>2, <1>9 DEF vars, Active
<1>10. QED
  BY <1>3, <1>4, <1>5, <1>6, <1>7, <1>8, <1>9 DEF Next, Review

\* What an accepted revocation or update retired is never active again, whatever any
\* number of sessions accept afterwards, revocations of career events apart (the branches
\* of _review_structured_memory_candidate).
THEOREM RetiredForGood == Spec => []RetirementsLast
<1>1. Init => RetirementsLast
  BY DEF Init, RetirementsLast, Active
<1>2. QED
  BY <1>1, AlwaysIInv, StepRetirementsLast, PTL DEF Spec

(***************************************************************************)
(* One session.                                                            *)
(***************************************************************************)

LEMMA RetireStep ==
  ASSUME OneInv, NEW t \in Candidates,
         \A c \in Candidates :
           c # t /\ memories'[c].state = "inactive" => memories[c].state = "inactive",
         rows' = RetiredRows(t)
  PROVE  RetiredIsUnsearchable'
  BY RetiredRowsAre DEF OneInv, IInv, RetiredIsUnsearchable

LEMMA StepOneInv == OneSession /\ OneInv /\ [Next]_vars => OneInv'
<1> SUFFICES ASSUME OneSession, OneInv, [Next]_vars
             PROVE  IndexedIsActive' /\ RetiredIsUnsearchable'
  BY StepIInv DEF OneInv
<1> USE DEF OneInv
<1> DEFINE Goal == IndexedIsActive' /\ RetiredIsUnsearchable'
<1>1. ASSUME NEW c \in Candidates, NEW kind \in Kinds, NEW operation \in Operations,
             NEW target \in Candidates \cup {None}, Propose(c, kind, operation, target)
      PROVE  Goal
  BY <1>1 DEF Propose, IndexedIsActive, RetiredIsUnsearchable, Working, Active
<1>2. ASSUME NEW s \in Sessions, NEW c \in Candidates, Reject(s, c)
      PROVE  Goal
  BY <1>2 DEF Reject, IndexedIsActive, RetiredIsUnsearchable, Working, Active
<1>3. ASSUME NEW s \in Sessions, NEW c \in Candidates, AcceptRevocation(s, c)
      PROVE  Goal
  <2> DEFINE t == candidates[c].target
  <2>1. t \in Candidates
    BY <1>3 DEF IInv, MemoriesAreAccepted, AcceptRevocation
  <2>2. /\ memories' = Retired(t) /\ rows' = RetiredRows(t) /\ pc[s] = "idle"
        /\ pc' = pc /\ job' = job
    BY <1>3 DEF AcceptRevocation, Decide
  <2> HIDE DEF t
  <2>3. RetiredIsUnsearchable'
    BY <2>1, <2>2, RetiredIs, RetireStep DEF IInv
  <2>4. IndexedIsActive'
    BY <2>2 DEF OneSession, IndexedIsActive, Working
  <2>5. QED
    BY <2>3, <2>4
<1>4. ASSUME NEW s \in Sessions, NEW c \in Candidates, AcceptReplacement(s, c)
      PROVE  Goal
  <2> DEFINE t == candidates[c].target
  <2>1. t \in Candidates
    BY <1>4 DEF IInv, MemoriesAreAccepted, AcceptReplacement
  <2>2. /\ memories' = Created(Retired(t), c, t) /\ rows' = RetiredRows(t) /\ pc[s] = "idle"
        /\ StartIndexing(s, c)
    BY <1>4 DEF AcceptReplacement, Replacement, Decide
  <2> HIDE DEF t
  <2>3. /\ memories'[c].state = "active"
        /\ \A d \in Candidates \ {c} : memories'[d] = Retired(t)[d]
    BY <2>1, <2>2, RetiredIs, CreatedIs DEF IInv
  <2>4. \A d \in Candidates :
          d # t /\ memories'[d].state = "inactive" => memories[d].state = "inactive"
    BY <2>1, <2>3, RetiredIs DEF IInv
  <2>5. RetiredIsUnsearchable'
    BY <2>1, <2>2, <2>4, RetireStep
  <2>6. job'[s].memory = c
    BY <2>2, StartIndexingIs DEF IInv
  <2>7. IndexedIsActive'
    BY <2>3, <2>6 DEF OneSession, IndexedIsActive, Active
  <2>8. QED
    BY <2>5, <2>7
<1>5. ASSUME NEW s \in Sessions, NEW c \in Candidates, AcceptAddition(s, c)
      PROVE  Goal
  <2>1. /\ memories' = Created(memories, c, None) /\ rows' = rows /\ StartIndexing(s, c)
        /\ memories \in [Candidates -> Memory] /\ None \in Candidates \cup {None}
    BY <1>5 DEF AcceptAddition, IInv, TypeOK
  <2>2. /\ memories'[c].state = "active"
        /\ \A d \in Candidates \ {c} : memories'[d] = memories[d]
    BY <2>1, CreatedIs
  <2>3. job'[s].memory = c
    BY <2>1, StartIndexingIs DEF IInv
  <2>4. IndexedIsActive'
    BY <2>2, <2>3 DEF OneSession, IndexedIsActive, Active
  <2>5. RetiredIsUnsearchable'
    BY <2>1, <2>2 DEF RetiredIsUnsearchable
  <2>6. QED
    BY <2>4, <2>5
<1>6. ASSUME NEW s \in Sessions, ClearRows(s)
      PROVE  Goal
  <2>1. /\ memories' = memories /\ job' = job /\ Working(s)
        /\ rows' = [rows EXCEPT ![job[s].memory] = {}]
        /\ pc' = [pc EXCEPT ![s] = "store"]
    BY <1>6 DEF ClearRows, Working
  <2>2. IndexedIsActive'
    BY <2>1 DEF OneSession, IndexedIsActive, Active, IInv, TypeOK
  <2>3. RetiredIsUnsearchable'
    BY <2>1 DEF RetiredIsUnsearchable, IInv, TypeOK
  <2>4. QED
    BY <2>2, <2>3
<1>7. ASSUME NEW s \in Sessions, StoreChunk(s)
      PROVE  Goal
  <2>1. /\ memories' = memories /\ job[s].memory \in Active
        /\ rows' = [rows EXCEPT ![job[s].memory] = @ \cup {job[s].stored + 1}]
    BY <1>7 DEF StoreChunk, IndexedIsActive, Working
  <2>2. \A u \in Sessions : job'[u].memory = job[u].memory
    BY <1>7 DEF StoreChunk, IInv, TypeOK, Job
  <2>3. IndexedIsActive'
    BY <2>1, <2>2 DEF OneSession, IndexedIsActive, Active
  <2>4. RetiredIsUnsearchable'
    BY <2>1 DEF RetiredIsUnsearchable, Active, IInv, TypeOK
  <2>5. QED
    BY <2>3, <2>4
<1>8. ASSUME NEW s \in Sessions, RecordOutcome(s)
      PROVE  Goal
  <2>1. \A c \in Candidates : memories'[c].state = memories[c].state
    BY <1>8 DEF RecordOutcome, IInv, TypeOK, Memory
  <2>2. rows' = rows /\ pc'[s] = "idle"
    BY <1>8 DEF RecordOutcome, IInv, TypeOK
  <2>3. QED
    BY <2>1, <2>2 DEF OneSession, IndexedIsActive, RetiredIsUnsearchable, Working
<1>9. ASSUME NEW s \in Sessions, IndexStepFails(s)
      PROVE  Goal
  <2>1. memories' = memories /\ rows' = rows /\ Working(s)
    BY <1>9 DEF IndexStepFails, Working
  <2>2. job'[s].memory = job[s].memory
    BY <1>9 DEF IndexStepFails, IInv, TypeOK, Job
  <2>3. QED
    BY <2>1, <2>2 DEF OneSession, IndexedIsActive, RetiredIsUnsearchable, Active
<1>10. ASSUME NEW s \in Sessions, Crash(s)
       PROVE  Goal
  <2>1. memories' = memories /\ rows' = rows /\ pc'[s] = "idle"
    BY <1>10 DEF Crash, IInv, TypeOK
  <2>2. QED
    BY <2>1 DEF OneSession, IndexedIsActive, RetiredIsUnsearchable, Working
<1>11. CASE UNCHANGED vars
  BY <1>11 DEF vars, IndexedIsActive, RetiredIsUnsearchable, Active, Working
<1>12. QED
  BY <1>1, <1>2, <1>3, <1>4, <1>5, <1>6, <1>7, <1>8, <1>9, <1>10, <1>11
     DEF Next, Review, Index

\* With one session a retired memory has no active row: the one script that could
\* switch a row on is not indexing while the user decides.
THEOREM RetiredLeavesIndex == OneSession => (Spec => []RetiredIsUnsearchable)
<1>1. Init => OneInv
  BY InitIInv DEF OneInv, Init, IndexedIsActive, RetiredIsUnsearchable, Working
<1>2. OneInv => RetiredIsUnsearchable
  BY DEF OneInv
<1> SUFFICES ASSUME OneSession PROVE Spec => []RetiredIsUnsearchable
  OBVIOUS
<1>3. OneInv /\ [Next]_vars => OneInv'
  BY StepOneInv
<1>4. QED
  BY <1>1, <1>2, <1>3, PTL DEF Spec
=============================================================================
