----------------------- MODULE ProfileVersionsProofs -----------------------
(***************************************************************************)
(* Theorems about ProfileVersions, for every number of sessions, fields,   *)
(* values, drafts, index rows, versions, failures and crashes.             *)
(***************************************************************************)
EXTENDS ProfileVersions, TLAPS

(***************************************************************************)
(* The inductive invariants.                                               *)
(***************************************************************************)

Indexing(s) == pc[s] \in {"purge", "store", "record"}

\* A session that indexes has a version, and a row to store while it stores rows.
WorkIsKnown ==
  \A s \in Sessions :
    /\ Indexing(s) => job[s].version \in 1..Len(versions)
    /\ pc[s] = "purge" => job[s].stored = 0
    /\ pc[s] = "store" => job[s].stored < Parts

\* A form posts every field.
FormsAreFull == \A s \in Sessions : pc[s] = "editing" => job[s].posted \in Facts

\* No revision is ahead of the versions.
RevisionsAreWritten == \A r \in revisions : r.version <= Len(versions)

IInv ==
  /\ TypeOK
  /\ WorkIsKnown
  /\ FormsAreFull
  /\ RevisionsAreWritten
  /\ HistoryIsComplete

\* With one session nothing is saved while a version is indexed.
OneSession == \E s \in Sessions : Sessions = {s}

CurrentIsIndexed == \A s \in Sessions : Indexing(s) => job[s].version = Current

\* The rows stored so far are there, up to the one stored next.
StoredIsThere ==
  \A s \in Sessions :
    /\ pc[s] = "store" => {Current} \X (1..job[s].stored) \subseteq rows
    /\ pc[s] = "record" /\ ~job[s].error => {Current} \X (1..Parts) \subseteq rows

OneInv == IInv /\ RowsAreCurrent /\ CurrentIsIndexed /\ StoredIsThere /\ ReadyIsSearchable

(***************************************************************************)
(* Facts and jobs.                                                         *)
(***************************************************************************)

LEMMA ProfileType ==
  ASSUME TypeOK
  PROVE  /\ Current \in 1..MaxVersions /\ Current \in Nat
         /\ Profile \in Facts /\ versions[Current] \in Version
<1>1. Current \in 1..MaxVersions /\ Len(versions) \in Nat /\ versions \in Seq(Version)
  BY CountAssumption DEF TypeOK, Current
<1>2. versions[Current] \in Version
  BY <1>1 DEF Current
<1>3. QED
  BY <1>1, <1>2 DEF Profile, Version

\* What a form shows are facts.
LEMMA ShownType ==
  ASSUME TypeOK
  PROVE  Shown \in Facts
<1>1. Profile \in [Fields -> Values] /\ account \in [Locked -> Values]
  BY ProfileType DEF Facts, TypeOK
<1>2. QED
  BY <1>1 DEF Shown, Facts

LEMMA ComposedType ==
  ASSUME TypeOK, NEW posted \in Posted
  PROVE  Composed(posted) \in Facts
<1>1. Profile \in [Fields -> Values] /\ account \in [Locked -> Values]
  BY ProfileType DEF Facts, TypeOK
<1>2. \A f \in Fields : posted[f] \in Values \cup {None}
  BY DEF Posted
<1>3. QED
  BY <1>1, <1>2 DEF Composed, Facts

LEMMA NoJobType ==
  /\ NoJob \in Job /\ NoJob.version = 0 /\ NoJob.stored = 0 /\ NoJob.error = FALSE
  /\ NoJob.posted \in Posted
<1>1. Nothing \in Posted
  BY DEF Nothing, Posted
<1>2. QED
  BY <1>1, CountAssumption DEF NoJob, Job

LEMMA FactsArePosted == Facts \subseteq Posted
  BY DEF Facts, Posted

LEMMA SubmittedType ==
  ASSUME NEW s \in Sessions, NEW edits \in Posted, job[s].posted \in Facts
  PROVE  Submitted(s, edits) \in Facts
<1>1. \A f \in Fields : edits[f] \in Values \cup {None} /\ job[s].posted[f] \in Values
  BY DEF Facts, Posted
<1>2. QED
  BY <1>1 DEF Submitted, Facts

(***************************************************************************)
(* What saving does to versions and history.                               *)
(***************************************************************************)

LEMMA SaveVersions ==
  ASSUME TypeOK, NEW facts \in Facts, NEW draft \in Drafts \cup {None}, Save(facts, draft)
  PROVE  /\ versions' \in Seq(Version) /\ Len(versions') = Len(versions) + 1
         /\ Len(versions') \in 1..MaxVersions
         /\ versions'[Len(versions) + 1] = [facts |-> facts, index |-> "pending"]
         /\ \A n \in 1..Len(versions) : versions'[n] = versions[n]
         /\ rows' = {}
<1>1. [facts |-> facts, index |-> "pending"] \in Version
  BY DEF Version
<1>2. versions \in Seq(Version) /\ Len(versions) \in 1..MaxVersions
      /\ Len(versions) < MaxVersions /\ MaxVersions \in Nat
  BY CountAssumption DEF TypeOK, Save, Current
<1>3. versions' = Append(versions, [facts |-> facts, index |-> "pending"])
      /\ rows' = {}
  BY DEF Save, RowsAfterSave
<1>4. QED
  BY <1>1, <1>2, <1>3

LEMMA SaveRevisions ==
  ASSUME TypeOK, NEW facts \in Facts, NEW draft \in Drafts \cup {None}, Save(facts, draft),
         RevisionsAreWritten
  PROVE  /\ revisions' \subseteq Revision
         /\ {r \in revisions' : r.version = Len(versions) + 1} =
              {[version |-> Len(versions) + 1, field |-> f, previous |-> Profile[f],
                new |-> facts[f], draft |-> draft] : f \in Changed(facts)}
         /\ \A n \in 1..Len(versions) :
              {r \in revisions' : r.version = n} = {r \in revisions : r.version = n}
         /\ \A r \in revisions' : r.version <= Len(versions) + 1
         /\ Changed(facts) # {}
<1> DEFINE New == {[version |-> Len(versions) + 1, field |-> f, previous |-> Profile[f],
                    new |-> facts[f], draft |-> draft] : f \in Changed(facts)}
<1>1. Len(versions) + 1 \in 1..MaxVersions /\ Len(versions) \in Nat
  <2>1. Len(versions') = Len(versions) + 1 /\ Len(versions') \in 1..MaxVersions
    BY SaveVersions
  <2>2. Len(versions) \in 1..MaxVersions
    BY DEF TypeOK
  <2>3. QED
    BY <2>1, <2>2, CountAssumption
<1>2. revisions' = revisions \cup New /\ Changed(facts) # {}
  BY DEF Save, Current
<1>3. \A r \in New : r.version = Len(versions) + 1
  OBVIOUS
<1>4. New \subseteq Revision
  <2>1. Profile \in [Fields -> Values] /\ facts \in [Fields -> Values]
    BY ProfileType DEF Facts
  <2>2. Changed(facts) \subseteq Fields
    BY DEF Changed
  <2>3. QED
    BY <1>1, <2>1, <2>2 DEF Revision
<1>5. \A r \in revisions : r \in Revision /\ r.version \in Nat /\ r.version <= Len(versions)
  BY CountAssumption DEF TypeOK, RevisionsAreWritten, Revision
<1>6. revisions' \subseteq Revision
  BY <1>2, <1>4, <1>5
<1> HIDE DEF New
<1>7. {r \in revisions' : r.version = Len(versions) + 1} = New
  BY <1>1, <1>2, <1>3, <1>5
<1>8. \A n \in 1..Len(versions) :
        {r \in revisions' : r.version = n} = {r \in revisions : r.version = n}
  BY <1>1, <1>2, <1>3
<1>9. \A r \in revisions' : r.version <= Len(versions) + 1
  BY <1>1, <1>2, <1>3, <1>5
<1>10. QED
  BY <1>2, <1>6, <1>7, <1>8, <1>9 DEF New

\* The history stays complete: the new version differs in the changed fields, and the
\* other versions keep their revisions.
LEMMA SaveHistory ==
  ASSUME TypeOK, NEW facts \in Facts, NEW draft \in Drafts \cup {None}, Save(facts, draft),
         RevisionsAreWritten, HistoryIsComplete
  PROVE  HistoryIsComplete' /\ RevisionsAreWritten'
<1> DEFINE L == Len(versions)
           W(n) == {r \in revisions' : r.version = n}
<1>1. /\ L \in Nat /\ L >= 1 /\ Len(versions') = L + 1
      /\ \A n \in 1..L : versions'[n] = versions[n]
      /\ versions'[L + 1].facts = facts
  <2>1. L \in 1..MaxVersions
    BY DEF TypeOK
  <2>2. L \in Nat /\ L >= 1
    BY <2>1, CountAssumption
  <2>3. /\ Len(versions') = L + 1
        /\ versions'[L + 1] = [facts |-> facts, index |-> "pending"]
        /\ \A n \in 1..L : versions'[n] = versions[n]
    BY SaveVersions
  <2>4. QED
    BY <2>2, <2>3
<1>2. \A n \in 2..L :
        /\ W(n) # {}
        /\ \A r \in W(n) : /\ r.previous = versions'[n - 1].facts[r.field]
                           /\ r.new = versions'[n].facts[r.field]
        /\ {r.field : r \in W(n)} =
             {f \in Fields : versions'[n].facts[f] # versions'[n - 1].facts[f]}
  <2> TAKE n \in 2..L
  <2>1. n \in 1..L /\ n - 1 \in 1..L
    BY <1>1
  <2>2. versions'[n] = versions[n] /\ versions'[n - 1] = versions[n - 1]
    BY <1>1, <2>1
  <2>3. W(n) = {r \in revisions : r.version = n}
    BY <2>1, SaveRevisions
  <2>4. QED
    BY <2>2, <2>3 DEF HistoryIsComplete
<1>3. /\ W(L + 1) # {}
      /\ \A r \in W(L + 1) : /\ r.previous = versions'[L].facts[r.field]
                             /\ r.new = versions'[L + 1].facts[r.field]
      /\ {r.field : r \in W(L + 1)} =
           {f \in Fields : versions'[L + 1].facts[f] # versions'[L].facts[f]}
  <2>1. versions'[L].facts = Profile
    BY <1>1 DEF Profile, Current
  <2>2. W(L + 1) = {[version |-> L + 1, field |-> f, previous |-> Profile[f],
                     new |-> facts[f], draft |-> draft] : f \in Changed(facts)}
    BY SaveRevisions
  <2>3. Changed(facts) = {f \in Fields : facts[f] # Profile[f]} /\ Changed(facts) # {}
    BY SaveRevisions DEF Changed
  <2>4. {r.field : r \in W(L + 1)} = Changed(facts)
    <3> DEFINE New(f) == [version |-> L + 1, field |-> f, previous |-> Profile[f],
                          new |-> facts[f], draft |-> draft]
    <3>1. \A f \in Changed(facts) : New(f).field = f
      OBVIOUS
    <3>2. W(L + 1) = {New(f) : f \in Changed(facts)}
      BY <2>2
    <3> HIDE DEF New, W
    <3>3. QED
      BY <3>1, <3>2
  <2>5. QED
    BY <1>1, <2>1, <2>2, <2>3, <2>4
<1>4. HistoryIsComplete'
  <2> SUFFICES ASSUME NEW n \in 2..(L + 1)
               PROVE  /\ W(n) # {}
                      /\ \A r \in W(n) : /\ r.previous = versions'[n - 1].facts[r.field]
                                         /\ r.new = versions'[n].facts[r.field]
                      /\ {r.field : r \in W(n)} =
                           {f \in Fields : versions'[n].facts[f] # versions'[n - 1].facts[f]}
    BY <1>1 DEF HistoryIsComplete
  <2>1. CASE n \in 2..L
    BY <1>2, <2>1
  <2>2. CASE n = L + 1
    <3>1. n - 1 = L
      BY <1>1, <2>2
    <3>2. QED
      BY <1>3, <2>2, <3>1
  <2>3. QED
    BY <1>1, <2>1, <2>2
<1>5. RevisionsAreWritten'
  BY <1>1, SaveRevisions DEF RevisionsAreWritten
<1>6. QED
  BY <1>4, <1>5

\* Steps that leave facts and revisions alone keep the history.
LEMMA HistoryKept ==
  ASSUME HistoryIsComplete, RevisionsAreWritten, UNCHANGED <<versions, revisions>>
  PROVE  HistoryIsComplete' /\ RevisionsAreWritten'
  BY DEF HistoryIsComplete, RevisionsAreWritten

(***************************************************************************)
(* Every step of a form, of the index and of a draft keeps IInv.           *)
(***************************************************************************)

\* The steps of a session that leave versions and history alone.
LEMMA QuietStep ==
  ASSUME IInv, UNCHANGED <<versions, revisions>>, TypeOK', WorkIsKnown', FormsAreFull'
  PROVE  IInv'
  BY HistoryKept DEF IInv

LEMMA FormOpenLeave ==
  ASSUME IInv, NEW s \in Sessions, OpenForm(s) \/ LeaveForm(s)
  PROVE  IInv'
<1>1. UNCHANGED <<account, versions, revisions, rows, drafts, failures, crashes>>
  BY DEF OpenForm, LeaveForm
<1>2. [NoJob EXCEPT !.posted = FormFacts] \in Job
      /\ [NoJob EXCEPT !.posted = FormFacts].posted = Shown /\ Shown \in Facts
  <2>1. Shown \in Facts /\ Shown \in Posted
    BY ShownType, FactsArePosted DEF IInv
  <2>2. QED
    BY <2>1, NoJobType DEF FormFacts, Job, NoJob
<1>3. /\ \/ pc[s] = "idle" /\ pc' = [pc EXCEPT ![s] = "editing"]
            /\ job' = [job EXCEPT ![s] = [NoJob EXCEPT !.posted = FormFacts]]
         \/ pc[s] = "editing" /\ pc' = [pc EXCEPT ![s] = "idle"]
            /\ job' = [job EXCEPT ![s] = NoJob]
  BY DEF OpenForm, LeaveForm, Goto
<1>4. TypeOK'
  BY <1>1, <1>2, <1>3, NoJobType DEF IInv, TypeOK, Steps
<1>5. WorkIsKnown' /\ FormsAreFull'
  BY <1>1, <1>2, <1>3 DEF IInv, TypeOK, WorkIsKnown, FormsAreFull, Indexing
<1>6. QED
  BY <1>1, <1>4, <1>5, QuietStep

LEMMA FormSubmit ==
  ASSUME IInv, NEW s \in Sessions, NEW edits \in Posted, SubmitForm(s, edits)
  PROVE  IInv'
<1> DEFINE posted == Submitted(s, edits)
           facts  == Composed(posted)
           work   == [NoJob EXCEPT !.posted = posted, !.version = Current + 1]
<1>1. /\ pc[s] = "editing" /\ pc' = [pc EXCEPT ![s] = "purge"]
      /\ Save(facts, None) /\ job' = [job EXCEPT ![s] = work]
      /\ UNCHANGED <<account, drafts, failures, crashes>>
  BY DEF SubmitForm, Goto
<1>2. posted \in Posted /\ facts \in Facts
  BY <1>1, SubmittedType, FactsArePosted, ComposedType DEF IInv, FormsAreFull
<1> HIDE DEF posted, facts
<1>3. /\ versions' \in Seq(Version) /\ Len(versions') = Len(versions) + 1
      /\ Len(versions') \in 1..MaxVersions /\ rows' = {}
  BY <1>1, <1>2, SaveVersions DEF IInv
<1>4. revisions' \subseteq Revision /\ HistoryIsComplete' /\ RevisionsAreWritten'
  BY <1>1, <1>2, SaveRevisions, SaveHistory DEF IInv
<1>5. Len(versions) \in Nat /\ Len(versions) >= 1
  BY CountAssumption DEF IInv, TypeOK
<1>6. work \in Job /\ work.stored = 0 /\ work.version = Len(versions) + 1
  <2>1. Current + 1 \in 0..MaxVersions /\ Current + 1 = Len(versions) + 1
    BY <1>3, <1>5 DEF Current
  <2>2. QED
    BY <1>2, <2>1, NoJobType DEF Job
<1> HIDE DEF work
<1>7. TypeOK'
  BY <1>1, <1>3, <1>4, <1>6 DEF IInv, TypeOK, Steps
<1>8. WorkIsKnown' /\ FormsAreFull'
  BY <1>1, <1>3, <1>5, <1>6 DEF IInv, TypeOK, WorkIsKnown, FormsAreFull, Indexing
<1>9. QED
  BY <1>4, <1>7, <1>8 DEF IInv

\* Steps that end a script and change neither versions nor history.
LEMMA ScriptEnds ==
  ASSUME IInv, NEW s \in Sessions, pc' = [pc EXCEPT ![s] = "idle"],
         job' = [job EXCEPT ![s] = NoJob], UNCHANGED <<versions, revisions>>,
         account' \in [Locked -> Values], rows' = rows, drafts' \in [Drafts -> Draft],
         failures' \in 0..MaxFailures, crashes' \in 0..MaxCrashes
  PROVE  IInv'
<1>1. TypeOK'
  BY NoJobType DEF IInv, TypeOK, Steps
<1>2. WorkIsKnown' /\ FormsAreFull'
  BY DEF IInv, TypeOK, WorkIsKnown, FormsAreFull, Indexing
<1>3. QED
  BY <1>1, <1>2, QuietStep

LEMMA FormSubmitUnchanged ==
  ASSUME IInv, NEW s \in Sessions, NEW edits \in Posted, SubmitUnchanged(s, edits)
  PROVE  IInv'
<1>1. /\ pc' = [pc EXCEPT ![s] = "idle"] /\ job' = [job EXCEPT ![s] = NoJob]
      /\ UNCHANGED <<versions, revisions>> /\ rows' = rows
      /\ UNCHANGED <<account, drafts, failures, crashes>>
  BY DEF SubmitUnchanged, SaveNothing, Goto
<1>2. QED
  BY <1>1, ScriptEnds DEF IInv, TypeOK

LEMMA CrashStep ==
  ASSUME IInv, NEW s \in Sessions, Crash(s)
  PROVE  IInv'
<1>1. crashes' \in 0..MaxCrashes
  BY CountAssumption DEF Crash, IInv, TypeOK
<1>2. QED
  BY <1>1, ScriptEnds DEF Crash, IInv, TypeOK

LEMMA PurgeStep ==
  ASSUME IInv, NEW s \in Sessions, Purge(s)
  PROVE  IInv'
<1>1. TypeOK'
  BY DEF IInv, TypeOK, Purge, Goto, Steps
<1>2. WorkIsKnown' /\ FormsAreFull'
  BY CountAssumption DEF IInv, TypeOK, WorkIsKnown, FormsAreFull, Indexing, Purge, Goto
<1>3. UNCHANGED <<versions, revisions>>
  BY DEF Purge
<1>4. QED
  BY <1>1, <1>2, <1>3, QuietStep

LEMMA StorePartStep ==
  ASSUME IInv, NEW s \in Sessions, StorePart(s)
  PROVE  IInv'
<1> DEFINE work == [job[s] EXCEPT !.stored = job[s].stored + 1]
<1>1. /\ pc[s] = "store" /\ job' = [job EXCEPT ![s] = work]
      /\ rows' = rows \cup {<<job[s].version, job[s].stored + 1>>}
      /\ pc' = [pc EXCEPT ![s] = IF job[s].stored + 1 = Parts THEN "record" ELSE "store"]
      /\ UNCHANGED <<account, versions, revisions, drafts, failures, crashes>>
  BY DEF StorePart, Stored
<1>2. /\ job[s] \in Job /\ job[s].stored \in Nat /\ job[s].stored < Parts
      /\ job[s].version \in 1..Len(versions) /\ Len(versions) \in 1..MaxVersions
  BY <1>1, CountAssumption DEF IInv, TypeOK, WorkIsKnown, Indexing, Job
<1>3. /\ work \in Job /\ work.version = job[s].version
      /\ work.stored = job[s].stored + 1
  BY <1>2, CountAssumption DEF Job
<1>4. <<job[s].version, job[s].stored + 1>> \in (1..MaxVersions) \X (1..Parts)
  BY <1>2, CountAssumption
<1> HIDE DEF work
<1>5. TypeOK'
  BY <1>1, <1>3, <1>4 DEF IInv, TypeOK, Steps
<1>6. WorkIsKnown' /\ FormsAreFull'
  BY <1>1, <1>2, <1>3, CountAssumption
     DEF IInv, TypeOK, WorkIsKnown, FormsAreFull, Indexing
<1>7. QED
  BY <1>1, <1>5, <1>6, QuietStep

LEMMA IndexStepFailsStep ==
  ASSUME IInv, NEW s \in Sessions, IndexStepFails(s)
  PROVE  IInv'
<1> DEFINE work == [job[s] EXCEPT !.error = TRUE]
<1>1. /\ pc[s] \in {"purge", "store"} /\ pc' = [pc EXCEPT ![s] = "record"]
      /\ job' = [job EXCEPT ![s] = work]
      /\ failures < MaxFailures /\ failures' = failures + 1
      /\ UNCHANGED <<account, versions, revisions, rows, drafts, crashes>>
  BY DEF IndexStepFails, AfterFailure
<1>2. work \in Job /\ work.version = job[s].version
  BY DEF IInv, TypeOK, Job
<1> HIDE DEF work
<1>3. TypeOK'
  BY <1>1, <1>2, CountAssumption DEF IInv, TypeOK, Steps
<1>4. WorkIsKnown' /\ FormsAreFull'
  BY <1>1, <1>2 DEF IInv, TypeOK, WorkIsKnown, FormsAreFull, Indexing
<1>5. QED
  BY <1>1, <1>3, <1>4, QuietStep

\* Recording an outcome changes the index status of a version, never its facts.
LEMMA RecordedVersions ==
  ASSUME IInv, NEW s \in Sessions, RecordOutcome(s)
  PROVE  /\ versions' \in Seq(Version) /\ Len(versions') = Len(versions)
         /\ \A n \in 1..Len(versions) : versions'[n].facts = versions[n].facts
         /\ versions'[job[s].version].index = Outcome(job[s])
         /\ \A n \in 1..Len(versions) \ {job[s].version} : versions'[n] = versions[n]
         /\ job[s].version \in 1..Len(versions)
<1> DEFINE v == job[s].version
<1>1. v \in 1..Len(versions) /\ versions \in Seq(Version)
  BY DEF IInv, TypeOK, WorkIsKnown, Indexing, RecordOutcome, Goto
<1>2. Outcome(job[s]) \in {"ready", "failed"}
  BY DEF Outcome
<1>3. versions' = [versions EXCEPT ![v] = [versions[v] EXCEPT !.index = Outcome(job[s])]]
  BY DEF RecordOutcome
<1>4. /\ [versions[v] EXCEPT !.index = Outcome(job[s])] \in Version
      /\ [versions[v] EXCEPT !.index = Outcome(job[s])].facts = versions[v].facts
      /\ [versions[v] EXCEPT !.index = Outcome(job[s])].index = Outcome(job[s])
  <2>1. versions[v] \in Version
    BY <1>1
  <2>2. QED
    BY <1>2, <2>1 DEF Version
<1>5. QED
  BY <1>1, <1>3, <1>4

LEMMA RecordOutcomeStep ==
  ASSUME IInv, NEW s \in Sessions, RecordOutcome(s)
  PROVE  IInv'
<1>1. /\ pc[s] = "record" /\ pc' = [pc EXCEPT ![s] = "idle"]
      /\ job' = [job EXCEPT ![s] = NoJob]
      /\ UNCHANGED <<account, revisions, rows, drafts, failures, crashes>>
  BY DEF RecordOutcome, Goto
<1>2. /\ versions' \in Seq(Version) /\ Len(versions') = Len(versions)
      /\ \A n \in 1..Len(versions) : versions'[n].facts = versions[n].facts
  BY RecordedVersions
<1>3. TypeOK'
  BY <1>1, <1>2, NoJobType DEF IInv, TypeOK, Steps
<1>4. WorkIsKnown' /\ FormsAreFull'
  BY <1>1, <1>2 DEF IInv, TypeOK, WorkIsKnown, FormsAreFull, Indexing
<1>5. RevisionsAreWritten'
  BY <1>1, <1>2 DEF IInv, RevisionsAreWritten
<1>6. HistoryIsComplete'
  <2>1. Len(versions) \in Nat
    BY DEF IInv, TypeOK
  <2>2. \A n \in 2..Len(versions) :
          versions'[n].facts = versions[n].facts /\ versions'[n - 1].facts = versions[n - 1].facts
    BY <1>2, <2>1
  <2>3. revisions' = revisions /\ HistoryIsComplete
    BY <1>1 DEF IInv
  <2> DEFINE W(n) == {r \in revisions : r.version = n}
  <2> SUFFICES ASSUME NEW n \in 2..Len(versions)
               PROVE  /\ W(n) # {}
                      /\ \A r \in W(n) : /\ r.previous = versions'[n - 1].facts[r.field]
                                         /\ r.new = versions'[n].facts[r.field]
                      /\ {r.field : r \in W(n)} =
                           {f \in Fields : versions'[n].facts[f] # versions'[n - 1].facts[f]}
    BY <1>2, <2>3 DEF HistoryIsComplete
  <2>4. /\ W(n) # {}
        /\ \A r \in W(n) : /\ r.previous = versions[n - 1].facts[r.field]
                           /\ r.new = versions[n].facts[r.field]
        /\ {r.field : r \in W(n)} =
             {f \in Fields : versions[n].facts[f] # versions[n - 1].facts[f]}
    BY <2>3 DEF HistoryIsComplete
  <2>5. QED
    BY <2>2, <2>4
<1>7. QED
  BY <1>3, <1>4, <1>5, <1>6 DEF IInv

(***************************************************************************)
(* Drafts.                                                                 *)
(***************************************************************************)

LEMMA ProposeStep ==
  ASSUME IInv, NEW d \in Drafts, NEW fields \in [Slots -> Fields],
         NEW values \in [Slots -> Values], Propose(d, fields, values)
  PROVE  IInv'
<1>1. Shown \in [Fields -> Values]
  BY ShownType DEF IInv, Facts
<1>2. [status |-> "pending",
       changes |-> [i \in Slots |-> [status |-> "pending", field |-> fields[i],
                                     before |-> Shown[fields[i]],
                                     proposed |-> values[i]]]] \in Draft
  BY <1>1 DEF Draft, Change
<1>3. TypeOK'
  BY <1>2 DEF IInv, TypeOK, Propose
<1>4. QED
  BY <1>3, QuietStep DEF IInv, WorkIsKnown, FormsAreFull, Indexing, Propose

LEMMA ReviewStep ==
  ASSUME IInv, NEW s \in Sessions, NEW d \in Drafts, NEW i \in Slots, NEW accept \in BOOLEAN,
         Review(s, d, i, accept)
  PROVE  IInv'
<1>1. drafts' \in [Drafts -> Draft]
  <2>1. drafts \in [Drafts -> Draft] /\ drafts[d] \in Draft /\ drafts[d].changes[i] \in Change
    BY DEF IInv, TypeOK, Draft
  <2>2. PICK status \in {"rejected", "accepted", "stale"} :
          drafts' = [drafts EXCEPT ![d].changes[i].status = status]
    BY DEF Review
  <2>3. [drafts[d].changes[i] EXCEPT !.status = status] \in Change
    BY <2>1 DEF Change
  <2> DEFINE changed == [drafts[d].changes EXCEPT
                           ![i] = [drafts[d].changes[i] EXCEPT !.status = status]]
  <2>4. drafts' = [drafts EXCEPT ![d] = [drafts[d] EXCEPT !.changes = changed]]
    BY <2>2, Zenon
  <2>5. changed \in [Slots -> Change]
    BY <2>1, <2>3 DEF Draft
  <2> HIDE DEF changed
  <2>6. [drafts[d] EXCEPT !.changes = changed] \in Draft
    BY <2>1, <2>5 DEF Draft
  <2>7. QED
    BY <2>1, <2>4, <2>6
<1>2. TypeOK'
  BY <1>1 DEF IInv, TypeOK, Review
<1>3. QED
  BY <1>2, QuietStep DEF IInv, WorkIsKnown, FormsAreFull, Indexing, Review

LEMMA StartApplyStep ==
  ASSUME IInv, NEW s \in Sessions, NEW d \in Drafts, StartApply(s, d)
  PROVE  IInv'
<1>1. PICK posted \in Posted :
        job' = [job EXCEPT ![s] = [NoJob EXCEPT !.draft = d, !.posted = posted]]
  BY DEF StartApply
<1>2. [NoJob EXCEPT !.draft = d, !.posted = posted] \in Job
  BY <1>1, NoJobType DEF Job, NoJob
<1>3. drafts' \in [Drafts -> Draft]
  <2> DEFINE kept(i) == drafts[d].changes[i]
             read == [i \in Slots |->
                        IF kept(i).status = "accepted" /\ ~StillDue(kept(i))
                        THEN [kept(i) EXCEPT !.status = "stale"] ELSE kept(i)]
  <2>1. drafts \in [Drafts -> Draft] /\ drafts[d] \in Draft /\ drafts[d].changes \in [Slots -> Change]
    BY DEF IInv, TypeOK, Draft
  <2>2. \A i \in Slots : [kept(i) EXCEPT !.status = "stale"] \in Change /\ kept(i) \in Change
    BY <2>1 DEF Change
  <2>3. read \in [Slots -> Change]
    BY <2>2
  <2>4. drafts' = [drafts EXCEPT ![d].changes = read]
    BY DEF StartApply
  <2> HIDE DEF read
  <2>5. [drafts[d] EXCEPT !.changes = read] \in Draft
    BY <2>1, <2>3 DEF Draft
  <2>6. QED
    BY <2>1, <2>4, <2>5
<1>4. TypeOK'
  BY <1>1, <1>2, <1>3 DEF IInv, TypeOK, StartApply, Goto, Steps
<1>5. WorkIsKnown' /\ FormsAreFull'
  BY <1>1 DEF IInv, TypeOK, WorkIsKnown, FormsAreFull, Indexing, StartApply, Goto
<1>6. QED
  BY <1>4, <1>5, QuietStep DEF StartApply

LEMMA SaveDraftStep ==
  ASSUME IInv, NEW s \in Sessions, SaveDraft(s)
  PROVE  IInv'
<1> DEFINE facts == Composed(job[s].posted)
<1>1. /\ pc[s] = "applying" /\ pc' = [pc EXCEPT ![s] = "closing"]
      /\ UNCHANGED <<account, drafts, job, failures, crashes>>
      /\ Save(facts, job[s].draft) \/ SaveNothing(facts)
  BY DEF SaveDraft, Goto
<1>2. facts \in Facts /\ job[s].draft \in Drafts \cup {None}
  BY ComposedType DEF IInv, TypeOK, Job
<1> HIDE DEF facts
<1>3. CASE Save(facts, job[s].draft)
  <2>1. /\ versions' \in Seq(Version) /\ Len(versions') = Len(versions) + 1
        /\ Len(versions') \in 1..MaxVersions /\ rows' = {}
    BY <1>2, <1>3, SaveVersions DEF IInv
  <2>2. revisions' \subseteq Revision /\ HistoryIsComplete' /\ RevisionsAreWritten'
    BY <1>2, <1>3, SaveRevisions, SaveHistory DEF IInv
  <2>3. TypeOK'
    BY <1>1, <2>1, <2>2 DEF IInv, TypeOK, Steps
  <2>4. WorkIsKnown' /\ FormsAreFull'
    <3>1. Len(versions) \in Nat
      BY DEF IInv, TypeOK
    <3>2. QED
      BY <1>1, <2>1, <3>1 DEF IInv, TypeOK, WorkIsKnown, FormsAreFull, Indexing
  <2>5. QED
    BY <2>2, <2>3, <2>4 DEF IInv
<1>4. CASE SaveNothing(facts)
  <2>1. UNCHANGED <<versions, revisions, rows>>
    BY <1>4 DEF SaveNothing
  <2>2. TypeOK' /\ WorkIsKnown' /\ FormsAreFull'
    BY <1>1, <2>1 DEF IInv, TypeOK, Steps, WorkIsKnown, FormsAreFull, Indexing
  <2>3. QED
    BY <2>1, <2>2, QuietStep
<1>5. QED
  BY <1>1, <1>3, <1>4

LEMMA CloseDraftStep ==
  ASSUME IInv, NEW s \in Sessions, CloseDraft(s)
  PROVE  IInv'
<1>1. drafts' \in [Drafts -> Draft]
  <2> DEFINE d == job[s].draft
             kept(i) == drafts[d].changes[i]
             closed == [i \in Slots |-> IF IsApplied(kept(i), job[s].posted)
                                        THEN [kept(i) EXCEPT !.status = "applied"] ELSE kept(i)]
  <2>1. drafts \in [Drafts -> Draft]
    BY DEF IInv, TypeOK
  <2>2. drafts' = [drafts EXCEPT ![d] = [status |-> "applied", changes |-> closed]]
    BY DEF CloseDraft
  <2>3. ASSUME d \in Drafts
        PROVE  [status |-> "applied", changes |-> closed] \in Draft
    <3>1. \A i \in Slots : kept(i) \in Change
      BY <2>1, <2>3 DEF Draft
    <3>2. \A i \in Slots : [kept(i) EXCEPT !.status = "applied"] \in Change
      BY <3>1 DEF Change
    <3>3. closed \in [Slots -> Change]
      BY <3>1, <3>2
    <3>4. QED
      BY <3>3 DEF Draft
  <2> HIDE DEF closed
  <2>4. QED
    BY <2>1, <2>2, <2>3
<1>2. QED
  BY <1>1, ScriptEnds DEF IInv, TypeOK, CloseDraft, Goto

LEMMA SignInStep ==
  ASSUME IInv, NEW s \in Sessions, NEW values \in [Locked -> Values], SignIn(s, values)
  PROVE  IInv'
<1>1. TypeOK' /\ UNCHANGED <<versions, revisions>>
  BY DEF IInv, TypeOK, SignIn
<1>2. QED
  BY <1>1, QuietStep DEF IInv, WorkIsKnown, FormsAreFull, Indexing, SignIn

LEMMA Step ==
  ASSUME IInv, [Next]_vars
  PROVE  IInv'
<1>1. CASE Next
  <2>1. CASE \E d \in Drafts, fields \in [Slots -> Fields], values \in [Slots -> Values] :
               Propose(d, fields, values)
    BY <2>1, ProposeStep
  <2>2. ASSUME NEW s \in Sessions, Form(s)
        PROVE  IInv'
    BY <2>2, FormOpenLeave, FormSubmit, FormSubmitUnchanged DEF Form
  <2>3. ASSUME NEW s \in Sessions, Index(s) \/ IndexStepFails(s) \/ Crash(s)
        PROVE  IInv'
    BY <2>3, PurgeStep, StorePartStep, RecordOutcomeStep, IndexStepFailsStep, CrashStep
       DEF Index
  <2>4. ASSUME NEW s \in Sessions, Apply(s)
        PROVE  IInv'
    BY <2>4, StartApplyStep, SaveDraftStep, CloseDraftStep DEF Apply
  <2>5. ASSUME NEW s \in Sessions, NEW d \in Drafts, NEW i \in Slots, NEW accept \in BOOLEAN,
               Review(s, d, i, accept)
        PROVE  IInv'
    BY <2>5, ReviewStep
  <2>6. ASSUME NEW s \in Sessions, NEW values \in [Locked -> Values], SignIn(s, values)
        PROVE  IInv'
    BY <2>6, SignInStep
  <2>7. QED
    BY <1>1, <2>1, <2>2, <2>3, <2>4, <2>5, <2>6 DEF Next
<1>2. CASE UNCHANGED vars
  BY <1>2, QuietStep
     DEF vars, IInv, TypeOK, WorkIsKnown, FormsAreFull, Indexing
<1>3. QED
  BY <1>1, <1>2

LEMMA Start ==
  ASSUME Init
  PROVE  IInv
<1>1. PICK facts \in Facts : /\ versions = <<[facts |-> facts, index |-> "ready"]>>
                             /\ account = [f \in Locked |-> facts[f]]
  BY DEF Init
<1>2. /\ versions \in Seq(Version) /\ Len(versions) = 1
  BY <1>1 DEF Version
<1>3. NoChange \in Change
  BY FieldAssumption DEF NoChange, Change
<1>4. drafts \in [Drafts -> Draft]
  BY <1>3 DEF Init, Draft
<1>5. TypeOK
  <2>1. account \in [Locked -> Values]
    BY <1>1, FieldAssumption DEF Facts
  <2>2. QED
    BY <1>2, <1>4, <2>1, NoJobType, CountAssumption DEF TypeOK, Init, Steps
<1>6. WorkIsKnown /\ FormsAreFull /\ RevisionsAreWritten
  BY DEF Init, WorkIsKnown, FormsAreFull, RevisionsAreWritten, Indexing
<1>7. HistoryIsComplete
  BY <1>2 DEF HistoryIsComplete
<1>8. QED
  BY <1>5, <1>6, <1>7 DEF IInv

\* Types hold in every instance: every number of sessions, fields, drafts and faults.
THEOREM TypeCorrect == Spec => []TypeOK
<1>1. Spec => []IInv
  BY Start, Step, PTL DEF Spec
<1>2. IInv => TypeOK
  BY DEF IInv
<1>3. QED
  BY <1>1, <1>2, PTL

\* However many sessions save forms and drafts, the field history explains every
\* version (apply_profile_field_changes).
THEOREM HistoryExplainsVersions == Spec => []HistoryIsComplete
<1>1. Spec => []IInv
  BY Start, Step, PTL DEF Spec
<1>2. IInv => HistoryIsComplete
  BY DEF IInv
<1>3. QED
  BY <1>1, <1>2, PTL

(***************************************************************************)
(* One session: what is searchable.                                        *)
(***************************************************************************)

Searchable == RowsAreCurrent /\ CurrentIsIndexed /\ StoredIsThere /\ ReadyIsSearchable

\* The steps that leave versions and rows alone and start no index step.
LEMMA SearchableKept ==
  ASSUME Searchable, UNCHANGED <<versions, rows>>,
         \A s \in Sessions : (pc'[s] = pc[s] /\ job'[s] = job[s]) \/ ~Indexing(s)'
  PROVE  Searchable'
  BY DEF Searchable, RowsAreCurrent, CurrentIsIndexed, StoredIsThere, ReadyIsSearchable,
         Indexing, Current

LEMMA OtherStep ==
  ASSUME OneInv, NEW s \in Sessions,
         \/ OpenForm(s) \/ LeaveForm(s) \/ Crash(s) \/ CloseDraft(s)
         \/ \E edits \in Posted : SubmitUnchanged(s, edits)
         \/ \E d \in Drafts : StartApply(s, d)
  PROVE  Searchable'
<1>1. UNCHANGED <<versions, rows>>
  BY DEF OpenForm, LeaveForm, Crash, CloseDraft, SubmitUnchanged, SaveNothing, StartApply
<1>2. \A t \in Sessions \ {s} : pc'[t] = pc[t] /\ job'[t] = job[t]
  BY DEF OneInv, IInv, TypeOK, OpenForm, LeaveForm, Crash, CloseDraft, SubmitUnchanged,
         StartApply, Goto
<1>3. pc'[s] \in {"idle", "editing", "applying"}
  BY DEF OneInv, IInv, TypeOK, OpenForm, LeaveForm, Crash, CloseDraft, SubmitUnchanged,
         StartApply, Goto
<1>4. QED
  BY <1>1, <1>2, <1>3, SearchableKept DEF OneInv, Searchable, Indexing

\* A save switches every row off and makes a pending version current.
LEMMA SavedIsUnsearchable ==
  ASSUME TypeOK, NEW facts \in Facts, NEW draft \in Drafts \cup {None}, Save(facts, draft)
  PROVE  /\ Current' = Current + 1 /\ rows' = {} /\ versions'[Current'].index = "pending"
         /\ RowsAreCurrent' /\ ReadyIsSearchable'
<1>1. /\ Len(versions') = Len(versions) + 1 /\ rows' = {}
      /\ versions'[Len(versions) + 1] = [facts |-> facts, index |-> "pending"]
  BY SaveVersions
<1>2. Current' = Current + 1 /\ versions'[Current'].index = "pending"
  BY <1>1 DEF Current
<1>3. QED
  BY <1>1, <1>2 DEF RowsAreCurrent, ReadyIsSearchable

LEMMA SubmitSearchable ==
  ASSUME OneInv, NEW s \in Sessions, Sessions = {s}, NEW edits \in Posted, SubmitForm(s, edits)
  PROVE  Searchable'
<1> DEFINE facts == Composed(Submitted(s, edits))
<1>1. /\ pc[s] = "editing" /\ pc' = [pc EXCEPT ![s] = "purge"] /\ Save(facts, None)
      /\ job' = [job EXCEPT ![s] =
                   [NoJob EXCEPT !.posted = Submitted(s, edits), !.version = Current + 1]]
  BY DEF SubmitForm, Goto
<1>2. facts \in Facts
  BY <1>1, SubmittedType, FactsArePosted, ComposedType DEF OneInv, IInv, FormsAreFull
<1> HIDE DEF facts
<1>3. /\ Current' = Current + 1 /\ RowsAreCurrent' /\ ReadyIsSearchable'
  BY <1>1, <1>2, SavedIsUnsearchable DEF OneInv, IInv
<1>4. pc'[s] = "purge" /\ job'[s].version = Current + 1
  BY <1>1 DEF OneInv, IInv, TypeOK, NoJob
<1>5. QED
  BY <1>3, <1>4 DEF Searchable, CurrentIsIndexed, StoredIsThere

LEMMA SaveDraftSearchable ==
  ASSUME OneInv, NEW s \in Sessions, Sessions = {s}, SaveDraft(s)
  PROVE  Searchable'
<1> DEFINE facts == Composed(job[s].posted)
<1>1. /\ pc'[s] = "closing"
      /\ Save(facts, job[s].draft) \/ SaveNothing(facts)
  BY DEF SaveDraft, Goto, OneInv, IInv, TypeOK
<1>2. facts \in Facts /\ job[s].draft \in Drafts \cup {None}
  BY ComposedType DEF OneInv, IInv, TypeOK, Job
<1> HIDE DEF facts
<1>3. CASE Save(facts, job[s].draft)
  <2>1. RowsAreCurrent' /\ ReadyIsSearchable'
    BY <1>2, <1>3, SavedIsUnsearchable DEF OneInv, IInv
  <2>2. CurrentIsIndexed' /\ StoredIsThere'
    BY <1>1 DEF CurrentIsIndexed, StoredIsThere, Indexing
  <2>3. QED
    BY <2>1, <2>2 DEF Searchable
<1>4. CASE SaveNothing(facts)
  BY <1>1, <1>4, SearchableKept DEF SaveNothing, OneInv, Searchable, Indexing
<1>5. QED
  BY <1>1, <1>3, <1>4

LEMMA PurgeSearchable ==
  ASSUME OneInv, NEW s \in Sessions, Sessions = {s}, Purge(s)
  PROVE  Searchable'
<1>1. pc[s] = "purge" /\ pc'[s] = "store" /\ UNCHANGED <<versions, job>>
      /\ rows' = {r \in rows : r[1] = job[s].version}
  BY DEF Purge, Goto, OneInv, IInv, TypeOK
<1>2. job[s].version = Current /\ job[s].stored = 0
  BY <1>1 DEF OneInv, IInv, CurrentIsIndexed, WorkIsKnown, Indexing
<1>3. rows' = rows
  BY <1>1, <1>2 DEF OneInv, RowsAreCurrent
<1>4. {Current} \X (1..0) = {}
  BY SMT
<1>5. QED
  BY <1>1, <1>2, <1>3, <1>4
     DEF OneInv, Searchable, RowsAreCurrent, CurrentIsIndexed, StoredIsThere,
         ReadyIsSearchable, Current

LEMMA StorePartSearchable ==
  ASSUME OneInv, NEW s \in Sessions, Sessions = {s}, StorePart(s)
  PROVE  Searchable'
<1> DEFINE k == job[s].stored
<1>1. /\ pc[s] = "store" /\ versions' = versions
      /\ job' = [job EXCEPT ![s] = [job[s] EXCEPT !.stored = k + 1]]
      /\ rows' = rows \cup {<<job[s].version, k + 1>>}
      /\ pc'[s] = IF k + 1 = Parts THEN "record" ELSE "store"
  BY DEF StorePart, Stored, OneInv, IInv, TypeOK
<1>2. /\ job[s].version = Current /\ k \in Nat
      /\ {Current} \X (1..k) \subseteq rows
  BY <1>1 DEF OneInv, IInv, TypeOK, CurrentIsIndexed, StoredIsThere, Indexing, Job
<1>3. job'[s].stored = k + 1 /\ job'[s].version = Current
  BY <1>1, <1>2 DEF OneInv, IInv, TypeOK, Job
<1>4. {Current} \X (1..(k + 1)) \subseteq rows'
  <2>1. \A n \in 1..(k + 1) : n \in 1..k \/ n = k + 1
    BY <1>2
  <2>2. QED
    BY <1>1, <1>2, <2>1
<1>5. Current' = Current
  BY <1>1 DEF Current
<1>6. RowsAreCurrent'
  BY <1>1, <1>2, <1>5 DEF OneInv, RowsAreCurrent
<1>7. CurrentIsIndexed'
  BY <1>3, <1>5 DEF CurrentIsIndexed
<1>8. StoredIsThere'
  BY <1>1, <1>3, <1>4, <1>5 DEF StoredIsThere
<1>9. ReadyIsSearchable'
  BY <1>1, <1>5 DEF OneInv, ReadyIsSearchable
<1>10. QED
  BY <1>6, <1>7, <1>8, <1>9 DEF Searchable

LEMMA IndexStepFailsSearchable ==
  ASSUME OneInv, NEW s \in Sessions, Sessions = {s}, IndexStepFails(s)
  PROVE  Searchable'
<1>1. /\ pc[s] \in {"purge", "store"} /\ pc'[s] = "record"
      /\ job'[s].error /\ job'[s].version = job[s].version
      /\ UNCHANGED <<versions, rows>>
  BY DEF IndexStepFails, AfterFailure, OneInv, IInv, TypeOK, Job
<1>2. QED
  BY <1>1 DEF OneInv, Searchable, RowsAreCurrent, CurrentIsIndexed, StoredIsThere,
              ReadyIsSearchable, Indexing, Current

LEMMA RecordOutcomeSearchable ==
  ASSUME OneInv, NEW s \in Sessions, Sessions = {s}, RecordOutcome(s)
  PROVE  Searchable'
<1>1. pc[s] = "record" /\ pc'[s] = "idle" /\ rows' = rows
  BY DEF RecordOutcome, Goto, OneInv, IInv, TypeOK
<1>2. /\ Current' = Current /\ job[s].version = Current
      /\ versions'[Current].index = Outcome(job[s])
  BY <1>1, RecordedVersions DEF OneInv, CurrentIsIndexed, Indexing, Current
<1>3. RowsAreCurrent' /\ CurrentIsIndexed' /\ StoredIsThere'
  BY <1>1, <1>2 DEF OneInv, RowsAreCurrent, CurrentIsIndexed, StoredIsThere, Indexing
<1>4. ReadyIsSearchable'
  BY <1>1, <1>2 DEF OneInv, ReadyIsSearchable, StoredIsThere, Outcome
<1>5. QED
  BY <1>3, <1>4 DEF Searchable

LEMMA OneStep ==
  ASSUME OneInv, OneSession, [Next]_vars
  PROVE  OneInv'
<1>1. IInv'
  BY Step DEF OneInv
<1>2. PICK s \in Sessions : Sessions = {s}
  BY DEF OneSession
<1>3. Searchable'
  <2>1. CASE Next
    <3>1. CASE \/ \E d \in Drafts, fields \in [Slots -> Fields], values \in [Slots -> Values] :
                    Propose(d, fields, values)
               \/ \E d \in Drafts, i \in Slots, accept \in BOOLEAN : Review(s, d, i, accept)
               \/ \E values \in [Locked -> Values] : SignIn(s, values)
      BY <3>1, SearchableKept DEF Propose, Review, SignIn, OneInv, Searchable
    <3>2. CASE Form(s)
      BY <1>2, <3>2, OtherStep, SubmitSearchable DEF Form
    <3>3. CASE Index(s)
      BY <1>2, <3>3, PurgeSearchable, StorePartSearchable, RecordOutcomeSearchable DEF Index
    <3>4. CASE Apply(s)
      BY <1>2, <3>4, OtherStep, SaveDraftSearchable DEF Apply
    <3>5. CASE IndexStepFails(s)
      BY <1>2, <3>5, IndexStepFailsSearchable
    <3>6. CASE Crash(s)
      BY <3>6, OtherStep
    <3>7. QED
      BY <1>2, <2>1, <3>1, <3>2, <3>3, <3>4, <3>5, <3>6 DEF Next
  <2>2. CASE UNCHANGED vars
    BY <2>2, SearchableKept DEF vars, OneInv, Searchable
  <2>3. QED
    BY <2>1, <2>2
<1>4. QED
  BY <1>1, <1>3 DEF OneInv, Searchable

LEMMA OneStart ==
  ASSUME Init
  PROVE  OneInv
<1>1. Current = 1
  BY DEF Init, Current
<1>2. QED
  BY <1>1, Start
     DEF Init, OneInv, RowsAreCurrent, CurrentIsIndexed, StoredIsThere, ReadyIsSearchable,
         Indexing

\* With one session no row of a former version is searchable, whatever fails or crashes.
THEOREM OneSessionRows == OneSession => (Spec => []RowsAreCurrent)
<1> SUFFICES ASSUME OneSession PROVE Spec => []RowsAreCurrent
  OBVIOUS
<1>1. OneInv /\ [Next]_vars => OneInv'
  BY OneStep
<1>2. OneInv => RowsAreCurrent
  BY DEF OneInv
<1>3. QED
  BY OneStart, <1>1, <1>2, PTL DEF Spec


\* With one session a version recorded as ready has all its rows.
THEOREM OneSessionReady == OneSession => (Spec => []ReadyIsSearchable)
<1> SUFFICES ASSUME OneSession PROVE Spec => []ReadyIsSearchable
  OBVIOUS
<1>1. OneInv /\ [Next]_vars => OneInv'
  BY OneStep
<1>2. OneInv => ReadyIsSearchable
  BY DEF OneInv
<1>3. QED
  BY OneStart, <1>1, <1>2, PTL DEF Spec

\* With one session the index tells of the current version only and, once that is
\* recorded as ready, all of it.
THEOREM OneSessionIndex == OneSession => (Spec => []IndexTellsCurrent)
<1>1. RowsAreCurrent /\ ReadyIsSearchable => IndexTellsCurrent
  BY DEF IndexTellsCurrent
<1>2. QED
  BY <1>1, OneSessionRows, OneSessionReady, PTL

(***************************************************************************)
(* One session: what drafts write.                                         *)
(***************************************************************************)

\* What a draft wrote belongs to a draft that was proposed, and is applied, being closed,
\* or was left unclosed by a crash.
WritesAreKnown ==
  \A r \in revisions : r.draft # None =>
    /\ drafts[r.draft].status # "none"
    /\ \/ drafts[r.draft].status = "applied" \/ crashes > 0
       \/ \E s \in Sessions : pc[s] = "closing" /\ job[s].draft = r.draft

\* Nothing of a draft that was not proposed is applied.
NewDraftsAreBlank ==
  \A d \in Drafts : drafts[d].status = "none" =>
    \A i \in Slots : drafts[d].changes[i].status # "applied"

\* What a session is about to write was accepted over the value the profile has; once
\* written it is what the profile has (fields that the account does not lock).
PostedIsDue ==
  \A s \in Sessions : pc[s] \in {"applying", "closing"} =>
    /\ job[s].draft \in Drafts /\ drafts[job[s].draft].status = "pending"
    /\ \A f \in Fields : job[s].posted[f] # None =>
         \E i \in Slots :
           LET c == drafts[job[s].draft].changes[i] IN
           /\ c.status = "accepted" /\ c.field = f /\ c.proposed = job[s].posted[f]
           /\ f \notin Locked /\ pc[s] = "applying" => c.before = Profile[f]
           /\ f \notin Locked /\ pc[s] = "closing" => Profile[f] = job[s].posted[f]

DraftInv ==
  /\ IInv /\ WritesAreKnown /\ NewDraftsAreBlank /\ PostedIsDue
  /\ DraftWritesWereDue /\ AppliedReachesProfile

\* No change that a draft wrote or applied is taken back.
LEMMA WritesKept ==
  ASSUME DraftWritesWereDue, crashes > 0 => crashes' > 0,
         \A r \in revisions' : r.draft # None => r \in revisions,
         \A r \in revisions : r.draft # None => \A i \in Slots :
           LET c    == drafts[r.draft].changes[i]
               next == drafts'[r.draft].changes[i]
           IN  /\ c.status \in {"accepted", "applied", "stale"} =>
                    next.field = c.field /\ next.before = c.before /\ next.proposed = c.proposed
               /\ c.status \in {"accepted", "applied"} =>
                    next.status \in {"accepted", "applied"} \/ (next.status = "stale" /\ crashes' > 0)
               /\ c.status = "stale" => next.status = "stale"
  PROVE  DraftWritesWereDue'
<1>1. SUFFICES ASSUME NEW r \in revisions', r.draft # None, r.field \notin Locked
               PROVE  \E i \in Slots :
                        LET c == drafts'[r.draft].changes[i] IN
                        /\ c.status \in {"accepted", "applied"} \/ (c.status = "stale" /\ crashes' > 0)
                        /\ <<c.field, c.before, c.proposed>> = <<r.field, r.previous, r.new>>
  BY DEF DraftWritesWereDue
<1>2. r \in revisions
  BY <1>1
<1>3. PICK i \in Slots :
        LET c == drafts[r.draft].changes[i] IN
        /\ c.status \in {"accepted", "applied"} \/ (c.status = "stale" /\ crashes > 0)
        /\ c.field = r.field /\ c.before = r.previous /\ c.proposed = r.new
  BY <1>1, <1>2 DEF DraftWritesWereDue
<1> DEFINE c == drafts[r.draft].changes[i]
           next == drafts'[r.draft].changes[i]
<1>4. /\ c.status \in {"accepted", "applied"} \/ (c.status = "stale" /\ crashes > 0)
      /\ c.field = r.field /\ c.before = r.previous /\ c.proposed = r.new
  BY <1>3
<1>5. /\ c.status \in {"accepted", "applied", "stale"} =>
           next.field = c.field /\ next.before = c.before /\ next.proposed = c.proposed
      /\ c.status \in {"accepted", "applied"} =>
           next.status \in {"accepted", "applied"} \/ (next.status = "stale" /\ crashes' > 0)
      /\ c.status = "stale" => next.status = "stale"
  BY <1>1, <1>2
<1> HIDE DEF c, next
<1>6. /\ next.status \in {"accepted", "applied"} \/ (next.status = "stale" /\ crashes' > 0)
      /\ <<next.field, next.before, next.proposed>> = <<r.field, r.previous, r.new>>
  BY <1>4, <1>5
<1>7. QED
  BY <1>6 DEF next

LEMMA AppliedKept ==
  ASSUME IInv, AppliedReachesProfile, Len(versions') \in Nat, Len(versions) <= Len(versions'),
         \A n \in 1..Len(versions) : versions'[n].facts = versions[n].facts,
         \A d \in Drafts, i \in Slots :
           /\ drafts'[d].changes[i].status = "applied" => drafts[d].changes[i].status = "applied"
           /\ drafts[d].changes[i].status = "applied" => drafts'[d].changes[i] = drafts[d].changes[i]
  PROVE  AppliedReachesProfile'
<1>0. Len(versions) \in Nat
  BY DEF IInv, TypeOK
<1>1. SUFFICES ASSUME NEW d \in Drafts, NEW i \in Slots, drafts'[d].changes[i].status = "applied",
                      drafts'[d].changes[i].field \notin Locked
               PROVE  \E j \in Slots, n \in 1..Len(versions') :
                        LET c == drafts'[d].changes[j] IN
                        /\ c.status = "applied" /\ c.field = drafts'[d].changes[i].field
                        /\ versions'[n].facts[c.field] = c.proposed
  BY DEF AppliedReachesProfile
<1>2. /\ drafts[d].changes[i].status = "applied" /\ drafts'[d].changes[i] = drafts[d].changes[i]
      /\ drafts[d].changes[i].field \notin Locked
  BY <1>1
<1>3. PICK j \in Slots, n \in 1..Len(versions) :
        LET c == drafts[d].changes[j] IN
        /\ c.status = "applied" /\ c.field = drafts[d].changes[i].field
        /\ versions[n].facts[c.field] = c.proposed
  BY <1>2 DEF AppliedReachesProfile
<1>4. drafts'[d].changes[j] = drafts[d].changes[j] /\ versions'[n].facts = versions[n].facts
  BY <1>3
<1>5. n \in 1..Len(versions')
  BY <1>0
<1>6. QED
  BY <1>2, <1>3, <1>4, <1>5

\* Steps that leave drafts alone, when no draft is being applied afterwards.
LEMMA DraftsLeftAlone ==
  ASSUME DraftInv, UNCHANGED drafts, crashes > 0 => crashes' > 0,
         \A r \in revisions' : r.draft # None => r \in revisions,
         Len(versions') \in Nat, Len(versions) <= Len(versions'),
         \A n \in 1..Len(versions) : versions'[n].facts = versions[n].facts,
         \A s \in Sessions : pc'[s] \notin {"applying", "closing"},
         crashes' > 0 \/ \A s \in Sessions : pc[s] \notin {"applying", "closing"}
  PROVE  (WritesAreKnown /\ NewDraftsAreBlank /\ PostedIsDue
          /\ DraftWritesWereDue /\ AppliedReachesProfile)'
<1>1. DraftWritesWereDue'
  BY WritesKept DEF DraftInv
<1>2. AppliedReachesProfile'
  BY AppliedKept DEF DraftInv
<1>3. NewDraftsAreBlank' /\ PostedIsDue'
  BY DEF DraftInv, NewDraftsAreBlank, PostedIsDue
<1>4. WritesAreKnown'
  <2>1. SUFFICES ASSUME NEW r \in revisions', r.draft # None
                 PROVE  /\ drafts[r.draft].status # "none"
                        /\ drafts[r.draft].status = "applied" \/ crashes' > 0
    BY DEF WritesAreKnown
  <2>2. r \in revisions
    BY <2>1
  <2>3. QED
    BY <2>1, <2>2 DEF DraftInv, WritesAreKnown
<1>5. QED
  BY <1>1, <1>2, <1>3, <1>4

LEMMA QuietDrafts ==
  ASSUME DraftInv, NEW s \in Sessions, Sessions = {s},
         \/ OpenForm(s) \/ LeaveForm(s) \/ Purge(s) \/ StorePart(s) \/ RecordOutcome(s)
         \/ IndexStepFails(s) \/ Crash(s)
         \/ \E edits \in Posted : SubmitForm(s, edits) \/ SubmitUnchanged(s, edits)
         \/ \E values \in [Locked -> Values] : SignIn(s, values)
  PROVE  (WritesAreKnown /\ NewDraftsAreBlank /\ PostedIsDue
          /\ DraftWritesWereDue /\ AppliedReachesProfile)'
<1>0. Len(versions) \in Nat /\ pc \in [Sessions -> Steps] /\ crashes \in Nat /\ IInv
  BY CountAssumption DEF DraftInv, IInv, TypeOK
<1>1. CASE OpenForm(s) \/ LeaveForm(s) \/ Purge(s) \/ StorePart(s) \/ IndexStepFails(s)
           \/ (\E edits \in Posted : SubmitUnchanged(s, edits))
           \/ \E values \in [Locked -> Values] : SignIn(s, values)
  <2>1. UNCHANGED <<versions, revisions, drafts, crashes>>
    BY <1>1 DEF OpenForm, LeaveForm, Purge, StorePart, IndexStepFails, SubmitUnchanged, SaveNothing,
                SignIn
  <2>2. pc[s] \notin {"applying", "closing"} /\ pc'[s] \notin {"applying", "closing"}
    BY <1>0, <1>1 DEF OpenForm, LeaveForm, Purge, StorePart, IndexStepFails, SubmitUnchanged, Goto,
                      AfterFailure, SignIn
  <2>3. QED
    BY <1>0, <2>1, <2>2, DraftsLeftAlone
<1>2. CASE RecordOutcome(s)
  <2>1. UNCHANGED <<revisions, drafts, crashes>> /\ pc[s] = "record" /\ pc' = [pc EXCEPT ![s] = "idle"]
    BY <1>2 DEF RecordOutcome, Goto
  <2>2. Len(versions') = Len(versions) /\ \A n \in 1..Len(versions) : versions'[n].facts = versions[n].facts
    BY <1>0, <1>2, RecordedVersions
  <2>3. QED
    BY <1>0, <2>1, <2>2, DraftsLeftAlone
<1>3. CASE Crash(s)
  <2>1. UNCHANGED <<versions, revisions, drafts>> /\ pc' = [pc EXCEPT ![s] = "idle"] /\ crashes' = crashes + 1
    BY <1>3 DEF Crash
  <2>2. crashes' > 0
    BY <1>0, <2>1
  <2>3. QED
    BY <1>0, <2>1, <2>2, DraftsLeftAlone
<1>4. ASSUME NEW edits \in Posted, SubmitForm(s, edits)
      PROVE  (WritesAreKnown /\ NewDraftsAreBlank /\ PostedIsDue
              /\ DraftWritesWereDue /\ AppliedReachesProfile)'
  <2> DEFINE facts == Composed(Submitted(s, edits))
  <2>1. /\ pc[s] = "editing" /\ pc' = [pc EXCEPT ![s] = "purge"] /\ Save(facts, None)
        /\ UNCHANGED <<drafts, crashes>>
    BY <1>4 DEF SubmitForm, Goto
  <2>2. facts \in Facts
    <3>1. Submitted(s, edits) \in Facts
      BY <1>0, <2>1, SubmittedType DEF IInv, FormsAreFull
    <3>2. QED
      BY <1>0, <3>1, FactsArePosted, ComposedType DEF IInv
  <2> HIDE DEF facts
  <2>3. Len(versions') = Len(versions) + 1 /\ \A n \in 1..Len(versions) : versions'[n] = versions[n]
    BY <1>0, <2>1, <2>2, SaveVersions DEF IInv
  <2>4. \A r \in revisions' : r.draft # None => r \in revisions
    BY <2>1 DEF Save
  <2>5. Len(versions') \in Nat /\ Len(versions) <= Len(versions')
    BY <1>0, <2>3
  <2>6. QED
    BY <1>0, <2>1, <2>3, <2>4, <2>5, DraftsLeftAlone
<1>5. CASE \E edits \in Posted : SubmitForm(s, edits) \/ SubmitUnchanged(s, edits)
  BY <1>1, <1>4, <1>5
<1>6. QED
  BY <1>1, <1>2, <1>3, <1>5, Zenon

\* What a step says of a new revision is known already.
LEMMA RevisionDraft ==
  ASSUME IInv, NEW r \in revisions, r.draft # None
  PROVE  r.draft \in Drafts
<1>1. QED
  BY DEF IInv, TypeOK, Revision

LEMMA ProposeDrafts ==
  ASSUME DraftInv, NEW d \in Drafts, NEW fields \in [Slots -> Fields],
         NEW values \in [Slots -> Values], Propose(d, fields, values)
  PROVE  (WritesAreKnown /\ NewDraftsAreBlank /\ PostedIsDue
          /\ DraftWritesWereDue /\ AppliedReachesProfile)'
<1> DEFINE new == [status |-> "pending",
                   changes |-> [i \in Slots |-> [status |-> "pending", field |-> fields[i],
                                                 before |-> Shown[fields[i]],
                                                 proposed |-> values[i]]]]
<1>1. /\ drafts[d].status = "none" /\ drafts' = [drafts EXCEPT ![d] = new]
      /\ UNCHANGED <<versions, revisions, rows, pc, job, failures, crashes>>
      /\ drafts \in [Drafts -> Draft] /\ Len(versions) \in Nat /\ IInv
  BY DEF Propose, DraftInv, IInv, TypeOK
<1>2. new.status = "pending" /\ \A i \in Slots : new.changes[i].status = "pending"
  OBVIOUS
<1> HIDE DEF new
<1>3. drafts'[d] = new /\ \A e \in Drafts : e # d => drafts'[e] = drafts[e]
  BY <1>1
<1>4. ASSUME NEW r \in revisions, r.draft # None PROVE r.draft \in Drafts /\ drafts'[r.draft] = drafts[r.draft]
  <2>1. r.draft \in Drafts /\ drafts[r.draft].status # "none"
    BY <1>1, <1>4, RevisionDraft DEF DraftInv, WritesAreKnown
  <2>2. QED
    BY <1>1, <1>3, <2>1
<1>5. DraftWritesWereDue'
  BY <1>1, <1>4, WritesKept DEF DraftInv
<1>6. AppliedReachesProfile'
  <2>1. \A e \in Drafts, i \in Slots :
          /\ drafts'[e].changes[i].status = "applied" => drafts[e].changes[i].status = "applied"
          /\ drafts[e].changes[i].status = "applied" => drafts'[e].changes[i] = drafts[e].changes[i]
    <3>1. SUFFICES ASSUME NEW e \in Drafts, NEW i \in Slots
                   PROVE  /\ drafts'[e].changes[i].status = "applied" => drafts[e].changes[i].status = "applied"
                          /\ drafts[e].changes[i].status = "applied" => drafts'[e].changes[i] = drafts[e].changes[i]
      OBVIOUS
    <3>2. CASE e = d
      <4>1. drafts[d].changes[i].status # "applied"
        BY <1>1 DEF DraftInv, NewDraftsAreBlank
      <4>2. QED
        BY <1>2, <1>3, <3>2, <4>1
    <3>3. CASE e # d
      BY <1>3, <3>3
    <3>4. QED
      BY <3>2, <3>3
  <2>2. QED
    BY <1>1, <2>1, AppliedKept DEF DraftInv
<1>7. NewDraftsAreBlank'
  BY <1>2, <1>3 DEF DraftInv, NewDraftsAreBlank
<1>8. WritesAreKnown'
  BY <1>1, <1>4 DEF DraftInv, WritesAreKnown
<1>9. PostedIsDue'
  <2>1. \A s \in Sessions : pc[s] \in {"applying", "closing"} =>
          job[s].draft \in Drafts /\ drafts'[job[s].draft] = drafts[job[s].draft]
    BY <1>1, <1>3 DEF DraftInv, PostedIsDue
  <2>2. Profile' = Profile
    BY <1>1 DEF Profile, Current
  <2>3. QED
    BY <1>1, <2>1, <2>2 DEF DraftInv, PostedIsDue
<1>10. QED
  BY <1>5, <1>6, <1>7, <1>8, <1>9

LEMMA ReviewDrafts ==
  ASSUME DraftInv, NEW s \in Sessions, Sessions = {s}, NEW d \in Drafts, NEW i \in Slots,
         NEW accept \in BOOLEAN, Review(s, d, i, accept)
  PROVE  (WritesAreKnown /\ NewDraftsAreBlank /\ PostedIsDue
          /\ DraftWritesWereDue /\ AppliedReachesProfile)'
<1>1. /\ pc[s] = "idle" /\ drafts[d].status = "pending" /\ drafts[d].changes[i].status = "pending"
      /\ UNCHANGED <<versions, revisions, rows, pc, job, failures, crashes>>
      /\ drafts \in [Drafts -> Draft] /\ Len(versions) \in Nat /\ IInv
  BY DEF Review, Offered, DraftInv, IInv, TypeOK
<1>2. PICK status \in {"rejected", "accepted", "stale"} :
        drafts' = [drafts EXCEPT ![d].changes[i].status = status]
  BY DEF Review
<1>3. drafts[d] \in Draft /\ drafts[d].changes \in [Slots -> Change] /\ drafts[d].changes[i] \in Change
  BY <1>1 DEF Draft
<1> DEFINE change == [drafts[d].changes[i] EXCEPT !.status = status]
           changes == [drafts[d].changes EXCEPT ![i] = change]
           draft == [drafts[d] EXCEPT !.changes = changes]
<1>4. drafts' = [drafts EXCEPT ![d] = draft]
  BY <1>2, Zenon
<1>5. change.status = status
  BY <1>3 DEF Change
<1> HIDE DEF change
<1>6. changes[i] = change /\ \A j \in Slots : j # i => changes[j] = drafts[d].changes[j]
  BY <1>3
<1> HIDE DEF changes
<1>7. draft.changes = changes /\ draft.status = "pending"
  BY <1>1, <1>3 DEF Draft
<1> HIDE DEF draft
<1>8. /\ drafts'[d].status = "pending" /\ drafts'[d].changes[i].status = status
      /\ \A j \in Slots : j # i => drafts'[d].changes[j] = drafts[d].changes[j]
      /\ \A e \in Drafts : e # d => drafts'[e] = drafts[e]
  BY <1>1, <1>4, <1>5, <1>6, <1>7
<1>9. \A e \in Drafts :
        /\ drafts'[e].status = drafts[e].status
        /\ \A j \in Slots : \/ drafts'[e].changes[j] = drafts[e].changes[j]
                            \/ /\ drafts[e].changes[j].status = "pending"
                               /\ drafts'[e].changes[j].status # "applied"
  BY <1>1, <1>2, <1>8
<1>10. DraftWritesWereDue'
  <2>1. \A r \in revisions : r.draft # None => r.draft \in Drafts
    BY <1>1, RevisionDraft
  <2>2. QED
    BY <1>1, <1>9, <2>1, WritesKept DEF DraftInv
<1>11. AppliedReachesProfile'
  <2>1. \A e \in Drafts, j \in Slots :
          /\ drafts'[e].changes[j].status = "applied" => drafts[e].changes[j].status = "applied"
          /\ drafts[e].changes[j].status = "applied" => drafts'[e].changes[j] = drafts[e].changes[j]
    BY <1>9
  <2>2. QED
    BY <1>1, <2>1, AppliedKept DEF DraftInv
<1>12. NewDraftsAreBlank'
  BY <1>9 DEF DraftInv, NewDraftsAreBlank
<1>13. WritesAreKnown'
  BY <1>1, <1>9, RevisionDraft DEF DraftInv, WritesAreKnown
<1>14. PostedIsDue'
  BY <1>1 DEF PostedIsDue
<1>15. QED
  BY <1>10, <1>11, <1>12, <1>13, <1>14

LEMMA StartApplyDrafts ==
  ASSUME DraftInv, NEW s \in Sessions, Sessions = {s}, NEW d \in Drafts, StartApply(s, d)
  PROVE  (WritesAreKnown /\ NewDraftsAreBlank /\ PostedIsDue
          /\ DraftWritesWereDue /\ AppliedReachesProfile)'
<1> DEFINE old(i) == drafts[d].changes[i]
           due == {i \in Slots : StillDue(old(i))}
           read == [i \in Slots |-> IF old(i).status = "accepted" /\ i \notin due
                                    THEN [old(i) EXCEPT !.status = "stale"] ELSE old(i)]
           draft == [drafts[d] EXCEPT !.changes = read]
<1>1. /\ pc[s] = "idle" /\ pc' = [pc EXCEPT ![s] = "applying"] /\ drafts[d].status = "pending"
      /\ drafts' = [drafts EXCEPT ![d].changes = read]
      /\ UNCHANGED <<versions, revisions, rows, failures, crashes>>
  BY DEF StartApply, Goto
<1>2. /\ drafts \in [Drafts -> Draft] /\ Len(versions) \in Nat /\ IInv /\ pc \in [Sessions -> Steps]
      /\ job \in [Sessions -> Job]
  BY DEF DraftInv, IInv, TypeOK
<1>3. drafts[d] \in Draft /\ \A i \in Slots : old(i) \in Change
  BY <1>2 DEF Draft
<1>4. PICK posted \in Posted :
        /\ \A f \in Fields :
             LET offered == {old(i).proposed : i \in {j \in due : old(j).field = f}}
             IN  IF offered = {} THEN posted[f] = None ELSE posted[f] \in offered
        /\ job' = [job EXCEPT ![s] = [NoJob EXCEPT !.draft = d, !.posted = posted]]
  BY DEF StartApply
<1>5. \A i \in due : /\ i \in Slots /\ old(i).status = "accepted"
                     /\ old(i).field \in Fields \ Locked => Profile[old(i).field] = old(i).before
  BY DEF StillDue, Shown
<1>6. ASSUME NEW f \in Fields, posted[f] # None
      PROVE  \E i \in due : old(i).field = f /\ old(i).proposed = posted[f]
  BY <1>4, <1>6
<1>7. ASSUME NEW i \in Slots
      PROVE  /\ i \in due => read[i] = old(i)
             /\ old(i).status # "accepted" => read[i] = old(i)
             /\ read[i].field = old(i).field /\ read[i].before = old(i).before
             /\ read[i].proposed = old(i).proposed
             /\ old(i).status = "accepted" => read[i].status \in {"accepted", "stale"}
  <2>1. old(i) \in Change
    BY <1>3
  <2>2. i \in due => old(i).status = "accepted"
    BY <1>5
  <2> DEFINE c == old(i)
             late == [c EXCEPT !.status = "stale"]
  <2>3. read[i] = IF c.status = "accepted" /\ i \notin due THEN late ELSE c
    OBVIOUS
  <2> HIDE DEF read, due, c
  <2>4. /\ late.field = c.field /\ late.before = c.before /\ late.proposed = c.proposed
        /\ late.status = "stale"
    BY <2>1 DEF Change, c
  <2> HIDE DEF late
  <2>5. QED
    BY <2>2, <2>3, <2>4 DEF c
<1> HIDE DEF read, due
<1>8. drafts' = [drafts EXCEPT ![d] = draft]
  BY <1>1
<1>9. draft.changes = read /\ draft.status = "pending"
  BY <1>1, <1>3 DEF Draft
<1> HIDE DEF draft
<1>10. /\ drafts'[d].status = "pending" /\ drafts'[d].changes = read
       /\ \A e \in Drafts : e # d => drafts'[e] = drafts[e]
  BY <1>2, <1>8, <1>9
<1>11. DraftWritesWereDue'
  <2>1. ASSUME NEW r \in revisions, r.draft # None, NEW i \in Slots
        PROVE  LET c    == drafts[r.draft].changes[i]
                   next == drafts'[r.draft].changes[i]
               IN  /\ c.status \in {"accepted", "applied", "stale"} =>
                        next.field = c.field /\ next.before = c.before /\ next.proposed = c.proposed
                   /\ c.status \in {"accepted", "applied"} =>
                        next.status \in {"accepted", "applied"} \/ (next.status = "stale" /\ crashes' > 0)
                   /\ c.status = "stale" => next.status = "stale"
    <3>1. r.draft \in Drafts
      BY <1>2, <2>1, RevisionDraft
    <3>2. CASE r.draft # d
      BY <1>10, <3>1, <3>2
    <3>3. CASE r.draft = d
      <4>1. crashes' > 0
        BY <1>1, <2>1, <3>3 DEF DraftInv, WritesAreKnown
      <4>2. QED
        BY <1>7, <1>10, <3>3, <4>1
    <3>4. QED
      BY <3>2, <3>3
  <2>2. QED
    BY <1>1, <2>1, WritesKept DEF DraftInv
<1>12. AppliedReachesProfile'
  <2>1. \A e \in Drafts, i \in Slots :
          /\ drafts'[e].changes[i].status = "applied" => drafts[e].changes[i].status = "applied"
          /\ drafts[e].changes[i].status = "applied" => drafts'[e].changes[i] = drafts[e].changes[i]
    <3>1. SUFFICES ASSUME NEW e \in Drafts, NEW i \in Slots
                   PROVE  /\ drafts'[e].changes[i].status = "applied" => drafts[e].changes[i].status = "applied"
                          /\ drafts[e].changes[i].status = "applied" => drafts'[e].changes[i] = drafts[e].changes[i]
      OBVIOUS
    <3>2. CASE e # d
      BY <1>10, <3>2
    <3>3. CASE e = d
      BY <1>7, <1>10, <3>3
    <3>4. QED
      BY <3>2, <3>3
  <2>2. QED
    BY <1>1, <1>2, <2>1, AppliedKept DEF DraftInv
<1>13. NewDraftsAreBlank'
  <2>1. \A e \in Drafts : drafts'[e].status = "none" => drafts'[e] = drafts[e]
    BY <1>10
  <2>2. QED
    BY <2>1 DEF DraftInv, NewDraftsAreBlank
<1>14. WritesAreKnown'
  <2>1. ASSUME NEW r \in revisions, r.draft # None
        PROVE  /\ drafts'[r.draft].status # "none"
               /\ drafts'[r.draft].status = "applied" \/ crashes' > 0
    <3>1. /\ drafts[r.draft].status # "none"
          /\ drafts[r.draft].status = "applied" \/ crashes > 0
      BY <1>1, <2>1 DEF DraftInv, WritesAreKnown
    <3>2. drafts'[r.draft].status = drafts[r.draft].status
      BY <1>1, <1>2, <1>10, <2>1, RevisionDraft
    <3>3. QED
      BY <1>1, <3>1, <3>2
  <2>2. QED
    BY <1>1, <2>1 DEF WritesAreKnown
<1>15. PostedIsDue'
  <2>1. job'[s].draft = d /\ job'[s].posted = posted
    BY <1>2, <1>4, NoJobType DEF Job
  <2>2. Profile' = Profile /\ pc'[s] = "applying"
    BY <1>1, <1>2 DEF Profile, Current
  <2>3. ASSUME NEW f \in Fields, posted[f] # None
        PROVE  \E i \in Slots : /\ read[i].status = "accepted" /\ read[i].field = f
                                /\ read[i].proposed = posted[f]
                                /\ f \notin Locked => read[i].before = Profile[f]
    <3>1. PICK i \in due : old(i).field = f /\ old(i).proposed = posted[f]
      BY <1>6, <2>3
    <3>2. QED
      BY <1>5, <1>7, <3>1
  <2>4. QED
    BY <1>10, <2>1, <2>2, <2>3 DEF PostedIsDue
<1>16. QED
  BY <1>11, <1>12, <1>13, <1>14, <1>15

\* The draft is written over the values its changes were read with.
LEMMA SaveDraftDrafts ==
  ASSUME DraftInv, NEW s \in Sessions, Sessions = {s}, SaveDraft(s)
  PROVE  (WritesAreKnown /\ NewDraftsAreBlank /\ PostedIsDue
          /\ DraftWritesWereDue /\ AppliedReachesProfile)'
<1> DEFINE d == job[s].draft
           posted == job[s].posted
           facts == Composed(posted)
<1>1. /\ pc[s] = "applying" /\ pc' = [pc EXCEPT ![s] = "closing"]
      /\ UNCHANGED <<drafts, job, failures, crashes>>
      /\ Save(facts, d) \/ SaveNothing(facts)
  BY DEF SaveDraft, Goto
<1>2. /\ IInv /\ TypeOK /\ Len(versions) \in Nat /\ pc'[s] = "closing"
      /\ \A f \in Fields \ Locked : facts[f] = IF posted[f] = None THEN Profile[f] ELSE posted[f]
  BY <1>1 DEF DraftInv, IInv, TypeOK, Composed
<1>3. d \in Drafts /\ drafts[d].status = "pending" /\ d # None
  BY <1>1, NoneAssumption DEF DraftInv, PostedIsDue
<1>4. ASSUME NEW f \in Fields, posted[f] # None
      PROVE  \E i \in Slots : LET c == drafts[d].changes[i] IN
               /\ c.status = "accepted" /\ c.field = f /\ c.proposed = posted[f]
               /\ f \notin Locked => c.before = Profile[f]
  BY <1>1, <1>4 DEF DraftInv, PostedIsDue
<1>5. facts \in Facts /\ d \in Drafts \cup {None}
  BY <1>2, <1>3, ComposedType DEF TypeOK, Job
<1> HIDE DEF facts
<1>6. /\ Len(versions') \in Nat /\ Len(versions) <= Len(versions')
      /\ \A n \in 1..Len(versions) : versions'[n] = versions[n]
      /\ Profile' = facts \/ (Profile' = Profile /\ \A f \in Fields : facts[f] = Profile[f])
  <2>1. CASE Save(facts, d)
    <3>1. /\ Len(versions') = Len(versions) + 1
          /\ \A n \in 1..Len(versions) : versions'[n] = versions[n]
      BY <1>2, <1>5, <2>1, SaveVersions
    <3>2. versions'[Len(versions) + 1] = [facts |-> facts, index |-> "pending"]
      BY <1>2, <2>1 DEF Save, TypeOK
    <3>3. Profile' = facts
      BY <3>1, <3>2 DEF Profile, Current
    <3>4. QED
      BY <1>2, <3>1, <3>3
  <2>2. CASE SaveNothing(facts)
    BY <1>2, <2>2 DEF SaveNothing, Changed, Profile, Current
  <2>3. QED
    BY <1>1, <2>1, <2>2
<1>7. ASSUME NEW r \in revisions', r \notin revisions
      PROVE  /\ r.draft = d /\ r.field \in Fields /\ r.previous = Profile[r.field]
             /\ r.field \notin Locked => posted[r.field] # None /\ r.new = posted[r.field]
  <2>1. PICK f \in Changed(facts) :
          r = [version |-> Current + 1, field |-> f, previous |-> Profile[f], new |-> facts[f],
               draft |-> d]
    BY <1>1, <1>7 DEF Save, SaveNothing
  <2>2. f \in Fields /\ facts[f] # Profile[f]
    BY DEF Changed
  <2>3. f \notin Locked => posted[f] # None /\ facts[f] = posted[f]
    BY <1>2, <2>2
  <2>4. QED
    BY <2>1, <2>2, <2>3
<1>8. DraftWritesWereDue'
  <2>1. SUFFICES ASSUME NEW r \in revisions', r.draft # None, r.field \notin Locked
                 PROVE  \E i \in Slots :
                          LET c == drafts[r.draft].changes[i] IN
                          /\ c.status \in {"accepted", "applied"} \/ (c.status = "stale" /\ crashes > 0)
                          /\ <<c.field, c.before, c.proposed>> = <<r.field, r.previous, r.new>>
    BY <1>1 DEF DraftWritesWereDue
  <2>2. CASE r \in revisions
    BY <2>1, <2>2 DEF DraftInv, DraftWritesWereDue
  <2>3. CASE r \notin revisions
    <3>1. /\ r.draft = d /\ r.field \in Fields /\ posted[r.field] # None
          /\ r.previous = Profile[r.field] /\ r.new = posted[r.field]
      BY <1>7, <2>1, <2>3
    <3>2. PICK i \in Slots : LET c == drafts[d].changes[i] IN
            /\ c.status = "accepted" /\ c.field = r.field /\ c.proposed = posted[r.field]
            /\ c.before = Profile[r.field]
      BY <1>4, <2>1, <3>1
    <3>3. QED
      BY <3>1, <3>2
  <2>4. QED
    BY <2>2, <2>3
<1>9. AppliedReachesProfile'
  BY <1>1, <1>2, <1>6, AppliedKept DEF DraftInv
<1>10. NewDraftsAreBlank'
  BY <1>1 DEF DraftInv, NewDraftsAreBlank
<1>11. WritesAreKnown'
  <2>1. SUFFICES ASSUME NEW r \in revisions', r.draft # None
                 PROVE  /\ drafts[r.draft].status # "none"
                        /\ drafts[r.draft].status = "applied" \/ crashes > 0 \/ d = r.draft
    BY <1>1, <1>2 DEF WritesAreKnown
  <2>2. CASE r \in revisions
    BY <1>1, <2>1, <2>2 DEF DraftInv, WritesAreKnown
  <2>3. CASE r \notin revisions
    BY <1>3, <1>7, <2>3
  <2>4. QED
    BY <2>2, <2>3
<1>12. PostedIsDue'
  <2>1. ASSUME NEW f \in Fields \ Locked, posted[f] # None
        PROVE  Profile'[f] = posted[f]
    BY <1>2, <1>6, <2>1
  <2>2. QED
    BY <1>1, <1>2, <1>3, <1>4, <2>1 DEF PostedIsDue
<1>13. QED
  BY <1>8, <1>9, <1>10, <1>11, <1>12

\* What is marked applied is in the profile by then.
LEMMA CloseDraftDrafts ==
  ASSUME DraftInv, NEW s \in Sessions, Sessions = {s}, CloseDraft(s)
  PROVE  (WritesAreKnown /\ NewDraftsAreBlank /\ PostedIsDue
          /\ DraftWritesWereDue /\ AppliedReachesProfile)'
<1> DEFINE d == job[s].draft
           posted == job[s].posted
           old(i) == drafts[d].changes[i]
           marked == [i \in Slots |-> IF IsApplied(old(i), posted)
                                      THEN [old(i) EXCEPT !.status = "applied"] ELSE old(i)]
           draft == [status |-> "applied", changes |-> marked]
<1>1. /\ pc[s] = "closing" /\ pc' = [pc EXCEPT ![s] = "idle"] /\ drafts' = [drafts EXCEPT ![d] = draft]
      /\ UNCHANGED <<versions, revisions, rows, failures, crashes>>
  BY DEF CloseDraft, Goto
<1>2. /\ drafts \in [Drafts -> Draft] /\ Len(versions) \in Nat /\ IInv /\ TypeOK /\ pc'[s] = "idle"
      /\ Current \in 1..Len(versions)
  BY <1>1 DEF DraftInv, IInv, TypeOK, Current
<1>3. d \in Drafts /\ drafts[d].status = "pending"
  BY <1>1 DEF DraftInv, PostedIsDue
<1>4. \A i \in Slots : old(i) \in Change
  BY <1>2, <1>3 DEF Draft
<1>5. ASSUME NEW f \in Fields, posted[f] # None
      PROVE  /\ f \notin Locked => Profile[f] = posted[f]
             /\ \E i \in Slots : /\ old(i).status = "accepted" /\ old(i).field = f
                                 /\ old(i).proposed = posted[f]
  BY <1>1, <1>5 DEF DraftInv, PostedIsDue
<1>6. ASSUME NEW i \in Slots
      PROVE  /\ IsApplied(old(i), posted) => marked[i].status = "applied"
             /\ ~IsApplied(old(i), posted) => marked[i] = old(i)
             /\ marked[i].field = old(i).field /\ marked[i].before = old(i).before
             /\ marked[i].proposed = old(i).proposed
  <2>1. old(i) \in Change
    BY <1>4
  <2> DEFINE c == old(i)
             done == [c EXCEPT !.status = "applied"]
  <2>2. marked[i] = IF IsApplied(c, posted) THEN done ELSE c
    OBVIOUS
  <2> HIDE DEF marked, c
  <2>3. /\ done.field = c.field /\ done.before = c.before /\ done.proposed = c.proposed
        /\ done.status = "applied"
    BY <2>1 DEF Change, c
  <2> HIDE DEF done
  <2>4. QED
    BY <2>2, <2>3 DEF c
<1> HIDE DEF marked
<1>7. draft.status = "applied" /\ draft.changes = marked
  OBVIOUS
<1> HIDE DEF draft
<1>8. /\ drafts'[d].status = "applied" /\ drafts'[d].changes = marked
      /\ \A e \in Drafts : e # d => drafts'[e] = drafts[e]
  BY <1>1, <1>2, <1>3, <1>7
<1>9. \A i \in Slots : IsApplied(old(i), posted) => old(i).status = "accepted" /\ posted[old(i).field] # None
  BY DEF IsApplied
<1>10. DraftWritesWereDue'
  <2>1. ASSUME NEW r \in revisions, r.draft # None, NEW i \in Slots
        PROVE  LET c    == drafts[r.draft].changes[i]
                   next == drafts'[r.draft].changes[i]
               IN  /\ c.status \in {"accepted", "applied", "stale"} =>
                        next.field = c.field /\ next.before = c.before /\ next.proposed = c.proposed
                   /\ c.status \in {"accepted", "applied"} =>
                        next.status \in {"accepted", "applied"} \/ (next.status = "stale" /\ crashes' > 0)
                   /\ c.status = "stale" => next.status = "stale"
    <3>1. r.draft \in Drafts
      BY <1>2, <2>1, RevisionDraft
    <3>2. CASE r.draft # d
      BY <1>8, <3>1, <3>2
    <3>3. CASE r.draft = d
      BY <1>6, <1>8, <1>9, <3>3
    <3>4. QED
      BY <3>2, <3>3
  <2>2. QED
    BY <1>1, <2>1, WritesKept DEF DraftInv
<1>11. AppliedReachesProfile'
  <2>1. SUFFICES ASSUME NEW e \in Drafts, NEW i \in Slots, drafts'[e].changes[i].status = "applied",
                        drafts'[e].changes[i].field \notin Locked
                 PROVE  \E j \in Slots, n \in 1..Len(versions) :
                          LET c == drafts'[e].changes[j] IN
                          /\ c.status = "applied" /\ c.field = drafts'[e].changes[i].field
                          /\ versions[n].facts[c.field] = c.proposed
    BY <1>1 DEF AppliedReachesProfile
  <2>2. CASE e = d /\ IsApplied(old(i), posted)
    <3>1. old(i).field \in Fields /\ posted[old(i).field] # None
      BY <1>4, <1>9, <2>2 DEF Change
    <3>2. PICK j \in Slots : /\ old(j).status = "accepted" /\ old(j).field = old(i).field
                             /\ old(j).proposed = posted[old(i).field]
      BY <1>5, <3>1
    <3>3. IsApplied(old(j), posted)
      BY <3>1, <3>2 DEF IsApplied
    <3>4. /\ marked[j].status = "applied" /\ marked[j].field = marked[i].field
          /\ marked[j].field = old(i).field /\ marked[j].proposed = posted[old(i).field]
      BY <1>6, <3>2, <3>3
    <3>5. versions[Current].facts[old(i).field] = posted[old(i).field]
      BY <1>5, <1>6, <1>8, <2>1, <2>2, <3>1 DEF Profile
    <3>6. QED
      BY <1>2, <1>8, <2>2, <3>4, <3>5
  <2>3. CASE ~(e = d /\ IsApplied(old(i), posted))
    <3>1. drafts'[e].changes[i] = drafts[e].changes[i]
      BY <1>6, <1>8, <2>3
    <3>2. PICK j \in Slots, n \in 1..Len(versions) :
            LET c == drafts[e].changes[j] IN
            /\ c.status = "applied" /\ c.field = drafts[e].changes[i].field
            /\ versions[n].facts[c.field] = c.proposed
      BY <2>1, <3>1 DEF DraftInv, AppliedReachesProfile
    <3>3. drafts'[e].changes[j] = drafts[e].changes[j]
      BY <1>6, <1>8, <1>9, <3>2
    <3>4. QED
      BY <3>1, <3>2, <3>3
  <2>4. QED
    BY <2>2, <2>3
<1>12. NewDraftsAreBlank'
  <2>1. \A e \in Drafts : drafts'[e].status = "none" => drafts'[e] = drafts[e]
    BY <1>8
  <2>2. QED
    BY <2>1 DEF DraftInv, NewDraftsAreBlank
<1>13. WritesAreKnown'
  <2>1. ASSUME NEW r \in revisions, r.draft # None
        PROVE  /\ drafts'[r.draft].status # "none"
               /\ drafts'[r.draft].status = "applied" \/ crashes > 0
    <3>1. r.draft \in Drafts
      BY <1>2, <2>1, RevisionDraft
    <3>2. CASE r.draft = d
      BY <1>8, <3>2
    <3>3. CASE r.draft # d
      <4>1. /\ drafts[r.draft].status # "none"
            /\ drafts[r.draft].status = "applied" \/ crashes > 0
        BY <2>1, <3>3 DEF DraftInv, WritesAreKnown
      <4>2. QED
        BY <1>8, <3>1, <3>3, <4>1
    <3>4. QED
      BY <3>2, <3>3
  <2>2. QED
    BY <1>1, <2>1 DEF WritesAreKnown
<1>14. PostedIsDue'
  BY <1>2 DEF PostedIsDue
<1>15. QED
  BY <1>10, <1>11, <1>12, <1>13, <1>14

LEMMA DraftStep ==
  ASSUME DraftInv, OneSession, [Next]_vars
  PROVE  DraftInv'
<1>1. IInv'
  BY Step DEF DraftInv
<1>2. PICK s \in Sessions : Sessions = {s}
  BY DEF OneSession
<1> DEFINE Kept == (WritesAreKnown /\ NewDraftsAreBlank /\ PostedIsDue
                    /\ DraftWritesWereDue /\ AppliedReachesProfile)'
<1>3. Kept
  <2>1. CASE Next
    <3>1. CASE \E d \in Drafts, fields \in [Slots -> Fields], values \in [Slots -> Values] :
                 Propose(d, fields, values)
      BY <3>1, ProposeDrafts
    <3>2. CASE \E d \in Drafts, i \in Slots, accept \in BOOLEAN : Review(s, d, i, accept)
      BY <1>2, <3>2, ReviewDrafts
    <3>3. CASE \/ Form(s) \/ Index(s) \/ IndexStepFails(s) \/ Crash(s)
               \/ \E values \in [Locked -> Values] : SignIn(s, values)
      BY <1>2, <3>3, QuietDrafts DEF Form, Index
    <3>4. CASE Apply(s)
      BY <1>2, <3>4, StartApplyDrafts, SaveDraftDrafts, CloseDraftDrafts DEF Apply
    <3>5. QED
      BY <1>2, <2>1, <3>1, <3>2, <3>3, <3>4 DEF Next
  <2>2. CASE UNCHANGED vars
    <3>1. UNCHANGED <<versions, revisions, drafts, pc, job, crashes>> /\ Profile' = Profile
      BY <2>2 DEF vars, Profile, Current
    <3>2. WritesAreKnown' /\ NewDraftsAreBlank' /\ PostedIsDue'
      BY <3>1 DEF DraftInv, WritesAreKnown, NewDraftsAreBlank, PostedIsDue
    <3>3. DraftWritesWereDue' /\ AppliedReachesProfile'
      BY <3>1 DEF DraftInv, DraftWritesWereDue, AppliedReachesProfile
    <3>4. QED
      BY <3>2, <3>3
  <2>3. QED
    BY <2>1, <2>2
<1>4. QED
  BY <1>1, <1>3 DEF DraftInv

LEMMA DraftStart ==
  ASSUME Init
  PROVE  DraftInv
<1>1. \A d \in Drafts, i \in Slots : drafts[d].changes[i].status = "pending"
  BY DEF Init, NoChange
<1>2. revisions = {} /\ \A s \in Sessions : pc[s] = "idle"
  BY DEF Init
<1>3. QED
  BY <1>1, <1>2, Start
     DEF DraftInv, WritesAreKnown, NewDraftsAreBlank, PostedIsDue, DraftWritesWereDue,
         AppliedReachesProfile

\* With one session a draft never overwrites a value newer than the one its change was
\* read with, and a field with an applied change did get the value of one of them,
\* wherever a crash cuts the three transactions (apply_profile_revision_draft).  Fields
\* that the account locks are left out: the save gives them the account's values.
THEOREM OneSessionDrafts == OneSession => (Spec => []DraftsMatchHistory)
<1> SUFFICES ASSUME OneSession PROVE Spec => []DraftsMatchHistory
  OBVIOUS
<1>1. DraftInv /\ [Next]_vars => DraftInv'
  BY DraftStep
<1>2. DraftInv => DraftsMatchHistory
  BY DEF DraftInv, DraftsMatchHistory
<1>3. QED
  BY DraftStart, <1>1, <1>2, PTL DEF Spec
=============================================================================
