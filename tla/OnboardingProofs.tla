-------------------------- MODULE OnboardingProofs --------------------------
(***************************************************************************)
(* Theorems about Onboarding and the document store it works with, for     *)
(* every number of sessions, documents, fields, faults and edits.          *)
(***************************************************************************)
EXTENDS Onboarding, FiniteSetTheorems, SequenceTheorems, WellFoundedInduction, TLAPS

(***************************************************************************)
(* The inductive invariant of the document store.                          *)
(***************************************************************************)

\* Where a desk is tells what it holds.
Holding == {"row", "unput", "remove", "unrow", "restore"}
DeskTells ==
  \A s \in Sessions :
    /\ desk[s].doc \in issued \cup {NoDoc}
    /\ desk[s].pc \in Holding => desk[s].doc \in issued
    /\ desk[s].pc \in {"put", "row"} => desk[s].todo > 0
    /\ desk[s].pc = "fetch" => desk[s].done # <<>>
    /\ desk[s].pc \in {"remove", "unrow"} /\ desk[s].call # "delete" => desk[s].done # <<>>

\* A document whose row is not yet written is nobody else's.
Fresh(s) == desk[s].pc \in {"row", "unput"}
FreshIsOwn ==
  /\ rows \subseteq issued
  /\ \A s \in Sessions : Fresh(s) =>
       /\ desk[s].doc \notin rows
       /\ \A t \in Sessions \ {s} : desk[t].pc \in Holding => desk[t].doc # desk[s].doc
  /\ \A s \in Sessions : desk[s].pc = "row" => desk[s].doc \in objects

StoreInv == StoreTypeOK /\ DeskTells /\ FreshIsOwn /\ SourcesAreKept

(***************************************************************************)
(* The inductive invariant of the graph.                                   *)
(***************************************************************************)

\* A state that is to be saved is complete, and was confirmed in its analysis.
SavesTheConfirmed(state) ==
  state.next = "save" =>
    Missing(state.form) = {} /\ [run |-> state.run, form |-> state.form] \in approved

\* An analysis has a number, and it waits only when it has asked.
Asking == {"collect", "confirm"}
Sound(state) ==
  /\ state.next # "none" => state.run > 0
  /\ state.wait => state.next \in Asking

GraphInv ==
  /\ TypeOK
  /\ SavesTheConfirmed(thread) /\ Sound(thread)
  /\ \A s \in Sessions : SavesTheConfirmed(run[s]) /\ Sound(run[s])
  /\ IsFiniteSet(approved)

(***************************************************************************)
(* What one tab adds: nobody else works on the thread.                     *)
(***************************************************************************)

OneTab == \E s \in Sessions : Tabs = {s}

Unanswered == {"store", "extract", "model", "validate", "collect", "confirm"}

\* Only the tab has an invocation, a result or a page.
OthersIdle ==
  \A s \in Sessions \ Tabs : run[s] = NoThread /\ result[s] = Blank /\ page[s] = Blank

\* An invocation works on the checkpointed state, but for the end it has not yet recorded.
RunIsThread ==
  \A s \in Tabs : run[s] # NoThread =>
    \/ run[s] = thread
    \/ thread.next = "save" /\ run[s] = [thread EXCEPT !.next = "end"]

\* A thread that waits has no invocation, nor has a result; a result that asks is what the
\* thread waits for.
WaitsWhenAsked ==
  \A s \in Tabs :
    /\ thread.wait => run[s] = NoThread
    /\ result[s] # Blank => run[s] = NoThread
    /\ result[s].kind \in Asking => thread.wait /\ result[s] = Question

\* The documents the facts of the thread's form may come from.
Known == sources \cup astray \cup ToSet(thread.ids)

\* The facts of a form come from the documents on record and those of its analysis, unless it
\* went to a later one; a page that shows a form of this analysis shows one of its facts.
FormsAreSourced ==
  /\ profile.past \subseteq sources \cup astray
  /\ thread.form.facts \subseteq Known
  /\ thread.next = "store" => thread.form.facts \subseteq sources \cup astray
  /\ \A s \in Tabs :
       page[s].kind \in Asking /\ thread.next # "none" /\ page[s].run = thread.run =>
         thread.next # "store" /\ page[s].form.facts \subseteq Known

\* Each version has a confirmation of its own, or an edit or a save again after it, and a
\* thread about to be saved has one to spare.
VersionsAreConfirmed ==
  /\ thread.next \in Unanswered => \A a \in approved : a.run # thread.run
  /\ profile.n <= Cardinality(approved) + 2 * edits
  /\ thread.next = "save" /\ thread.form # profile.content =>
       profile.n < Cardinality(approved) + 2 * edits

TabInv ==
  /\ OthersIdle /\ RunIsThread /\ WaitsWhenAsked /\ PageIsCurrent
  /\ FormsAreSourced /\ VersionsAreConfirmed

(***************************************************************************)
(* Desks.                                                                  *)
(***************************************************************************)

LEMMA FreeIs == Free \in Desks
BY StoreBounds, EmptySeq DEF Free, Desks

\* A session changes its own desk and nobody else's.
LEMMA GotoIs ==
  ASSUME StoreTypeOK, NEW s \in Sessions, NEW r \in Desks, Goto(s, r)
  PROVE  /\ desk' \in [Sessions -> Desks]
         /\ desk'[s] = r
         /\ \A t \in Sessions \ {s} : desk'[t] = desk[t]
BY DEF StoreTypeOK, Goto

\* A desk elsewhere, or with another document.
Moved(r, pc)     == [r EXCEPT !.pc = pc]
Handed(r, pc, d) == [r EXCEPT !.pc = pc, !.doc = d]
Emptied(r)       == [r EXCEPT !.doc = NoDoc]

Places == {"idle", "put", "row", "unput", "fetch", "remove", "unrow", "restore",
           "stored", "failed", "index"}

LEMMA DeskIs ==
  ASSUME NEW r \in Desks, NEW pc \in Places, NEW d \in Docs \cup {NoDoc}
  PROVE  /\ Moved(r, pc) \in Desks /\ Moved(r, pc).pc = pc /\ Moved(r, pc).doc = r.doc
         /\ Moved(r, pc).todo = r.todo /\ Moved(r, pc).done = r.done
         /\ Moved(r, pc).call = r.call
         /\ Handed(r, pc, d) \in Desks /\ Handed(r, pc, d).pc = pc /\ Handed(r, pc, d).doc = d
         /\ Handed(r, pc, d).todo = r.todo /\ Handed(r, pc, d).done = r.done
         /\ Handed(r, pc, d).call = r.call
BY DEF Desks, Places, Moved, Handed

LEMMA EmptiedIs ==
  ASSUME NEW r \in Desks
  PROVE  Emptied(r) \in Desks /\ Emptied(r).doc = NoDoc
BY DEF Desks, Emptied

LEMMA UploadRaisedIs ==
  ASSUME NEW r \in Desks
  PROVE  /\ UploadRaised(r) \in Desks
         /\ UploadRaised(r).pc \in {"failed", "fetch", "idle"}
         /\ UploadRaised(r).pc = "fetch" => UploadRaised(r).done # <<>>
         /\ UploadRaised(r).doc \in {r.doc, NoDoc}
BY FreeIs DEF UploadRaised, Desks, Free

LEMMA DeleteRaisedIs ==
  ASSUME NEW r \in Desks
  PROVE  /\ DeleteRaised(r) \in Desks
         /\ DeleteRaised(r).pc \in {"failed", "idle"}
         /\ DeleteRaised(r).doc = NoDoc
BY FreeIs DEF DeleteRaised, Desks, Free

LEMMA RowCreatedIs ==
  ASSUME NEW r \in Desks, r.doc \in Docs, r.todo > 0
  PROVE  /\ RowCreated(r) \in Desks
         /\ RowCreated(r).pc \in {"put", "stored", "idle"}
         /\ RowCreated(r).pc = "put" => RowCreated(r).todo > 0
         /\ RowCreated(r).doc = NoDoc
<1> DEFINE less == r.todo - 1
           more == Append(r.done, r.doc)
           kept == [r EXCEPT !.todo = less, !.done = more, !.doc = NoDoc]
<1>1. kept \in Desks /\ kept.todo = r.todo - 1 /\ kept.doc = NoDoc
  <2>1. more \in Seq(Docs)
    BY AppendProperties DEF Desks
  <2>2. less \in 0..MaxFiles
    BY StoreBounds DEF Desks
  <2> HIDE DEF less, more
  <2>3. kept \in Desks /\ kept.todo = less /\ kept.doc = NoDoc
    BY <2>1, <2>2 DEF Desks
  <2>4. QED
    BY <2>3 DEF less
<1>2. RowCreated(r) = IF r.todo > 1 THEN [kept EXCEPT !.pc = "put"]
                      ELSE IF r.call = "analyze" THEN [kept EXCEPT !.pc = "stored"] ELSE Free
  BY DEF RowCreated
<1> HIDE DEF kept
<1>3. /\ [kept EXCEPT !.pc = "put"] \in Desks /\ [kept EXCEPT !.pc = "stored"] \in Desks
      /\ \A pc \in {"put", "stored"} : /\ [kept EXCEPT !.pc = pc].pc = pc
                                       /\ [kept EXCEPT !.pc = pc].todo = r.todo - 1
                                       /\ [kept EXCEPT !.pc = pc].doc = NoDoc
  BY <1>1 DEF Desks
<1>4. r.todo - 1 > 0 <=> r.todo > 1
  BY DEF Desks
<1>5. QED
  BY <1>2, <1>3, <1>4, FreeIs DEF Free

LEMMA RowRemovedIs ==
  ASSUME NEW r \in Desks, r.call # "delete" => r.done # <<>>
  PROVE  /\ RowRemoved(r) \in Desks
         /\ RowRemoved(r).pc \in {"failed", "fetch", "idle"}
         /\ RowRemoved(r).pc = "fetch" => RowRemoved(r).done # <<>>
         /\ RowRemoved(r).doc = NoDoc
<1>1. CASE r.call = "delete"
  BY <1>1, FreeIs DEF RowRemoved, Free
<1>2. CASE r.call # "delete"
  <2>1. r.done \in Seq(Docs) /\ Len(r.done) \in Nat \ {0}
    BY <1>2, LenProperties, EmptySeq DEF Desks
  <2> DEFINE rest == SubSeq(r.done, 1, Len(r.done) - 1)
  <2>2. rest \in Seq(Docs) /\ Len(rest) = Len(r.done) - 1
    BY <2>1, SubSeqProperties
  <2>3. Front(r.done) = rest
    BY DEF Front
  <2> HIDE DEF rest
  <2>4. Len(r.done) # 1 => rest # <<>>
    <3>1. ASSUME rest = <<>> PROVE Len(rest) = 0
      BY <3>1
    <3>2. QED
      BY <2>1, <2>2, <3>1
  <2>5. QED
    BY <1>2, <2>2, <2>3, <2>4 DEF RowRemoved, Desks
<1>3. QED
  BY <1>1, <1>2

(***************************************************************************)
(* The steps of the document store.                                        *)
(***************************************************************************)

\* What the steps leave to show once a session's desk is changed.
LEMMA DesksTell ==
  ASSUME StoreInv, NEW s \in Sessions, NEW r \in Desks, Goto(s, r),
         issued \subseteq issued', r.doc \in issued' \cup {NoDoc},
         r.pc \in Holding => r.doc \in issued',
         r.pc \in {"put", "row"} => r.todo > 0,
         r.pc = "fetch" => r.done # <<>>,
         r.pc \in {"remove", "unrow"} /\ r.call # "delete" => r.done # <<>>
  PROVE  DeskTells'
BY GotoIs DEF StoreInv, DeskTells

\* A step that takes no document, and no object or row away or a row on record.
LEMMA QuietDesk ==
  ASSUME StoreInv, NEW s \in Sessions, NEW r \in Desks, Goto(s, r),
         r.pc \notin Holding \cup {"put"}, desk[s].pc \notin {"unrow", "restore"},
         r.doc \in {desk[s].doc, NoDoc}, r.pc = "fetch" => r.done # <<>>,
         UNCHANGED <<objects, rows, sources, issued, lost>>,
         chunks' \subseteq Docs, leaked' \subseteq Docs, faults' \in 0..MaxFaults
  PROVE  StoreInv'
<1>1. StoreTypeOK'
  BY GotoIs DEF StoreInv, StoreTypeOK
<1>2. DeskTells'
  BY DesksTell DEF StoreInv, DeskTells, Holding
<1>3. FreshIsOwn'
  BY GotoIs DEF StoreInv, FreshIsOwn, Fresh, Holding
<1>4. SourcesAreKept'
  BY GotoIs DEF StoreInv, SourcesAreKept, SourcesAreOnRecord, RowsHaveOriginals, BeingDeleted
<1>5. QED
  BY <1>1, <1>2, <1>3, <1>4 DEF StoreInv

LEMMA UploadStep ==
  ASSUME StoreInv, NEW s \in Sessions, NEW call \in {"analyze", "only"}, NEW n \in 1..MaxFiles,
         At(s, "idle"), Upload(s, call, n),
         UNCHANGED <<objects, rows, sources, chunks, issued, lost, leaked>>,
         faults' \in 0..MaxFaults
  PROVE  StoreInv'
<1> DEFINE r == [Free EXCEPT !.pc = "put", !.call = call, !.todo = n]
<1>1. Goto(s, r)
  BY DEF Upload
<1>2. n \in 0..MaxFiles /\ n > 0 /\ Free.doc = NoDoc
  BY StoreBounds DEF Free
<1>3. r \in Desks /\ r.pc = "put" /\ r.todo = n /\ r.doc = NoDoc
  BY <1>2, FreeIs DEF Desks
<1> HIDE DEF r
<1>4. StoreTypeOK'
  BY <1>1, <1>3, GotoIs DEF StoreInv, StoreTypeOK
<1>5. DeskTells'
  BY <1>1, <1>3, DesksTell DEF StoreInv, DeskTells, Holding
<1>6. FreshIsOwn'
  BY <1>1, <1>3, GotoIs DEF StoreInv, FreshIsOwn, Fresh, Holding
<1>7. SourcesAreKept'
  BY <1>1, <1>3, GotoIs DEF StoreInv, SourcesAreKept, SourcesAreOnRecord, RowsHaveOriginals,
                      BeingDeleted, At
<1>8. QED
  BY <1>4, <1>5, <1>6, <1>7 DEF StoreInv

LEMMA StoreOnlyStep ==
  ASSUME StoreInv, NEW s \in Sessions, StoreOnly(s)
  PROVE  StoreInv'
BY UploadStep DEF StoreOnly, StoreInv, StoreTypeOK

LEMMA PutObjectStep ==
  ASSUME StoreInv, NEW s \in Sessions, PutObject(s)
  PROVE  StoreInv'
<1>1. CASE Fault /\ Goto(s, UploadRaised(desk[s])) /\ UNCHANGED <<objects, issued>>
  <2>1. desk[s] \in Desks /\ desk[s].pc = "put"
    BY DEF StoreInv, StoreTypeOK, PutObject, At
  <2>2. faults' \in 0..MaxFaults
    BY <1>1, StoreBounds DEF Fault, StoreInv, StoreTypeOK
  <2>3. QED
    BY <1>1, <2>1, <2>2, UploadRaisedIs, QuietDesk DEF PutObject, StoreInv, StoreTypeOK, Holding
<1>2. ASSUME Works, NEW d \in Docs \ issued, objects' = objects \cup {d},
             issued' = issued \cup {d}, Goto(s, Handed(desk[s], "row", d))
      PROVE  StoreInv'
  <2> DEFINE r == Handed(desk[s], "row", d)
  <2>1. /\ desk[s] \in Desks /\ desk[s].pc = "put" /\ desk[s].todo > 0
    BY DEF StoreInv, StoreTypeOK, DeskTells, PutObject, At
  <2>2. UNCHANGED <<rows, sources, chunks, lost, leaked>>
    BY DEF PutObject
  <2>3. /\ r \in Desks /\ r.pc = "row" /\ r.doc = d /\ r.todo > 0 /\ Goto(s, r)
    BY <1>2, <2>1, DeskIs DEF Places
  <2> HIDE DEF r
  <2>4. StoreTypeOK'
    BY <1>2, <2>1, <2>3, <2>2, GotoIs DEF StoreInv, StoreTypeOK, Works
  <2>5. DeskTells'
    BY <1>2, <2>1, <2>3, <2>2, DesksTell DEF StoreInv, DeskTells, Holding
  <2>6. FreshIsOwn'
    BY <1>2, <2>1, <2>3, <2>2, GotoIs DEF StoreInv, FreshIsOwn, Fresh, Holding, DeskTells
  <2>7. SourcesAreKept'
    BY <1>2, <2>1, <2>3, <2>2, GotoIs DEF StoreInv, SourcesAreKept, SourcesAreOnRecord, RowsHaveOriginals,
                              BeingDeleted
  <2>8. QED
    BY <2>4, <2>5, <2>6, <2>7 DEF StoreInv
<1>3. QED
  BY <1>1, <1>2 DEF PutObject, Handed

LEMMA CreateRowStep ==
  ASSUME StoreInv, NEW s \in Sessions, CreateRow(s)
  PROVE  StoreInv'
<1>1. /\ desk[s] \in Desks /\ desk[s].pc = "row" /\ desk[s].doc \in issued
      /\ desk[s].doc \in Docs /\ desk[s].todo > 0 /\ desk[s].doc \in objects
  BY DEF StoreInv, StoreTypeOK, DeskTells, FreshIsOwn, Holding, CreateRow, At
<1>2. CASE Works /\ rows' = rows \cup {desk[s].doc} /\ Goto(s, RowCreated(desk[s]))
  <2> DEFINE r == RowCreated(desk[s])
  <2>1. /\ r \in Desks /\ r.pc \in {"put", "stored", "idle"} /\ r.doc = NoDoc
        /\ r.pc = "put" => r.todo > 0
    BY <1>1, RowCreatedIs
  <2>2. Goto(s, r)
    BY <1>2
  <2> HIDE DEF r
  <2>3. StoreTypeOK'
    BY <1>1, <1>2, <2>1, <2>2, GotoIs DEF StoreInv, StoreTypeOK, CreateRow, Works
  <2>4. DeskTells'
    BY <2>1, <2>2, DesksTell DEF StoreInv, DeskTells, Holding, CreateRow
  <2>5. FreshIsOwn'
    BY <1>1, <1>2, <2>1, <2>2, GotoIs DEF StoreInv, FreshIsOwn, Fresh, Holding, CreateRow
  <2>6. SourcesAreKept'
    BY <1>1, <1>2, <2>1, <2>2, GotoIs
    DEF StoreInv, SourcesAreKept, SourcesAreOnRecord, RowsHaveOriginals, BeingDeleted, CreateRow
  <2>7. QED
    BY <2>3, <2>4, <2>5, <2>6 DEF StoreInv
<1>3. CASE Fault /\ Goto(s, Moved(desk[s], "unput")) /\ UNCHANGED rows
  <2> DEFINE r == Moved(desk[s], "unput")
  <2>1. r \in Desks /\ r.pc = "unput" /\ r.doc = desk[s].doc /\ Goto(s, r)
    BY <1>1, <1>3, DeskIs DEF Places, StoreInv
  <2> HIDE DEF r
  <2>2. faults' \in 0..MaxFaults
    BY <1>3, StoreBounds DEF Fault, StoreInv, StoreTypeOK
  <2>3. StoreTypeOK'
    BY <1>3, <2>1, <2>2, GotoIs DEF StoreInv, StoreTypeOK, CreateRow
  <2>4. DeskTells'
    BY <1>1, <2>1, DesksTell DEF StoreInv, DeskTells, Holding, CreateRow
  <2>5. FreshIsOwn'
    BY <1>1, <1>3, <2>1, GotoIs DEF StoreInv, FreshIsOwn, Fresh, Holding, CreateRow
  <2>6. SourcesAreKept'
    BY <1>1, <1>3, <2>1, GotoIs
    DEF StoreInv, SourcesAreKept, SourcesAreOnRecord, RowsHaveOriginals, BeingDeleted, CreateRow
  <2>7. QED
    BY <2>3, <2>4, <2>5, <2>6 DEF StoreInv
<1>4. QED
  BY <1>2, <1>3 DEF CreateRow, Moved

LEMMA TakeBackStep ==
  ASSUME StoreInv, NEW s \in Sessions, TakeBack(s)
  PROVE  StoreInv'
<1> DEFINE r == UploadRaised(Emptied(desk[s]))
<1>1. /\ desk[s] \in Desks /\ desk[s].pc = "unput" /\ desk[s].doc \in issued
      /\ desk[s].doc \in Docs /\ desk[s].doc \notin rows
  BY DEF StoreInv, StoreTypeOK, DeskTells, FreshIsOwn, Fresh, Holding, TakeBack, At
<1>2. Emptied(desk[s]) \in Desks /\ Emptied(desk[s]).doc = NoDoc
  BY <1>1, EmptiedIs
<1>3. /\ r \in Desks /\ r.pc \in {"failed", "fetch", "idle"} /\ r.doc = NoDoc
      /\ r.pc = "fetch" => r.done # <<>>
  BY <1>2, UploadRaisedIs
<1>4. Goto(s, r) /\ faults' \in 0..MaxFaults
  BY StoreBounds DEF TakeBack, Emptied, Fault, Works, StoreInv, StoreTypeOK
<1> HIDE DEF r
<1>5. StoreTypeOK'
  BY <1>1, <1>3, <1>4, GotoIs DEF StoreInv, StoreTypeOK, TakeBack
<1>6. DeskTells'
  BY <1>3, <1>4, DesksTell DEF StoreInv, DeskTells, Holding, TakeBack
<1>7. FreshIsOwn'
  BY <1>1, <1>3, <1>4, GotoIs DEF StoreInv, FreshIsOwn, Fresh, Holding, TakeBack
<1>8. SourcesAreKept'
  BY <1>1, <1>3, <1>4, GotoIs
  DEF StoreInv, SourcesAreKept, SourcesAreOnRecord, RowsHaveOriginals, BeingDeleted, TakeBack
<1>9. QED
  BY <1>5, <1>6, <1>7, <1>8 DEF StoreInv

\* Where a session is that is about to delete, and whether it may be.
LEMMA ToRemove ==
  ASSUME StoreInv, NEW s \in Sessions, NEW d \in rows, NEW r \in Desks, Goto(s, r),
         desk[s].pc \in {"idle", "fetch"}, r.pc = "remove", r.doc = d,
         r.call # "delete" => r.done # <<>>,
         UNCHANGED <<objects, rows, sources, chunks, issued, lost, leaked, faults>>
  PROVE  StoreInv'
<1>1. d \in issued
  BY DEF StoreInv, FreshIsOwn
<1>2. StoreTypeOK'
  BY GotoIs DEF StoreInv, StoreTypeOK
<1>3. DeskTells'
  BY <1>1, DesksTell DEF StoreInv, DeskTells, Holding
<1>4. FreshIsOwn'
  BY GotoIs DEF StoreInv, FreshIsOwn, Fresh, Holding
<1>5. SourcesAreKept'
  BY GotoIs DEF StoreInv, SourcesAreKept, SourcesAreOnRecord, RowsHaveOriginals, BeingDeleted
<1>6. QED
  BY <1>2, <1>3, <1>4, <1>5 DEF StoreInv

LEMMA DeleteStep ==
  ASSUME StoreInv, NEW s \in Sessions, NEW d \in Docs, Delete(s, d)
  PROVE  StoreInv'
<1> DEFINE r == [Free EXCEPT !.pc = "remove", !.call = "delete", !.doc = d]
<1>1. r \in Desks /\ r.pc = "remove" /\ r.call = "delete" /\ r.doc = d
  BY FreeIs DEF Desks
<1>2. /\ d \in rows /\ desk[s].pc = "idle" /\ Goto(s, r)
      /\ UNCHANGED <<objects, rows, sources, chunks, issued, lost, leaked, faults>>
  BY DEF Delete, At
<1> HIDE DEF r
<1>3. QED
  BY <1>1, <1>2, ToRemove

LEMMA UndoNextStep ==
  ASSUME StoreInv, NEW s \in Sessions, UndoNext(s)
  PROVE  StoreInv'
<1>1. /\ desk[s] \in Desks /\ desk[s].pc = "fetch" /\ desk[s].done # <<>>
      /\ UNCHANGED <<objects, rows, sources, chunks, issued, lost, leaked>>
      /\ faults' \in 0..MaxFaults
  BY StoreBounds DEF StoreInv, StoreTypeOK, DeskTells, UndoNext, At, Works, Fault
<1> DEFINE d == Last(desk[s].done)
<1>2. CASE /\ Works /\ d \in rows \cap objects /\ Goto(s, Handed(desk[s], "remove", d))
  <2>1. d \in Docs /\ faults' = faults
    BY <1>2 DEF StoreInv, StoreTypeOK, Works
  <2>2. \A e \in Docs : LET r == Handed(desk[s], "remove", e)
                       IN  r \in Desks /\ r.pc = "remove" /\ r.doc = e /\ r.done # <<>>
    BY <1>1, DeskIs DEF Places
  <2>3. d \in rows /\ UNCHANGED objects
    BY <1>1, <1>2
  <2>4. PICK r \in Desks : Goto(s, r) /\ r.pc = "remove" /\ r.doc = d /\ r.done # <<>>
    BY <1>2, <2>1, <2>2
  <2> HIDE DEF d
  <2>5. QED
    BY <1>1, <2>1, <2>3, <2>4, ToRemove
<1>3. CASE Goto(s, DeleteRaised(desk[s]))
  BY <1>1, <1>3, DeleteRaisedIs, QuietDesk DEF StoreInv, StoreTypeOK, Holding
<1>4. QED
  BY <1>2, <1>3 DEF UndoNext, Handed

LEMMA RemoveObjectStep ==
  ASSUME StoreInv, NEW s \in Sessions, RemoveObject(s)
  PROVE  StoreInv'
<1>1. /\ desk[s] \in Desks /\ desk[s].pc = "remove" /\ desk[s].doc \in issued
      /\ desk[s].doc \in Docs
      /\ desk[s].call # "delete" => desk[s].done # <<>>
      /\ UNCHANGED <<rows, sources, chunks, issued, lost, leaked>>
      /\ faults' \in 0..MaxFaults
  BY StoreBounds
  DEF StoreInv, StoreTypeOK, DeskTells, Holding, RemoveObject, At, Works, Fault
<1>2. CASE objects' = objects \ {desk[s].doc} /\ Goto(s, Moved(desk[s], "unrow"))
  <2> DEFINE r == Moved(desk[s], "unrow")
  <2>1. /\ r \in Desks /\ r.pc = "unrow" /\ r.doc = desk[s].doc /\ Goto(s, r)
        /\ r.call # "delete" => r.done # <<>>
    BY <1>1, <1>2, DeskIs DEF Places
  <2> HIDE DEF r
  <2>2. StoreTypeOK'
    BY <1>1, <1>2, <2>1, GotoIs DEF StoreInv, StoreTypeOK
  <2>3. DeskTells'
    BY <1>1, <2>1, DesksTell DEF StoreInv, DeskTells, Holding
  <2>4. FreshIsOwn'
    BY <1>1, <1>2, <2>1, GotoIs DEF StoreInv, FreshIsOwn, Fresh, Holding
  <2>5. SourcesAreKept'
    BY <1>1, <1>2, <2>1, GotoIs
    DEF StoreInv, SourcesAreKept, SourcesAreOnRecord, RowsHaveOriginals, BeingDeleted
  <2>6. QED
    BY <2>2, <2>3, <2>4, <2>5 DEF StoreInv
<1>3. CASE Goto(s, DeleteRaised(desk[s])) /\ UNCHANGED objects
  BY <1>1, <1>3, DeleteRaisedIs, QuietDesk DEF StoreInv, StoreTypeOK, Holding
<1>4. QED
  BY <1>2, <1>3 DEF RemoveObject, Moved

LEMMA RemoveRowStep ==
  ASSUME StoreInv, NEW s \in Sessions, RemoveRow(s)
  PROVE  StoreInv'
<1>1. /\ desk[s] \in Desks /\ desk[s].pc = "unrow" /\ desk[s].doc \in issued
      /\ desk[s].doc \in Docs
      /\ desk[s].call # "delete" => desk[s].done # <<>>
      /\ UNCHANGED <<objects, sources, issued, lost, leaked>>
      /\ faults' \in 0..MaxFaults
  BY StoreBounds
  DEF StoreInv, StoreTypeOK, DeskTells, Holding, RemoveRow, At, Works, Fault
<1>2. CASE /\ Deletable(desk[s].doc) /\ Goto(s, RowRemoved(desk[s]))
           /\ rows' = rows \ {desk[s].doc} /\ chunks' = chunks \ {desk[s].doc}
  <2> DEFINE r == RowRemoved(desk[s])
  <2>1. /\ r \in Desks /\ r.pc \in {"failed", "fetch", "idle"} /\ r.doc = NoDoc
        /\ r.pc = "fetch" => r.done # <<>>
    BY <1>1, RowRemovedIs
  <2>2. Goto(s, r) /\ desk[s].doc \notin sources
    BY <1>2 DEF Deletable
  <2> HIDE DEF r
  <2>3. StoreTypeOK'
    BY <1>1, <1>2, <2>1, <2>2, GotoIs DEF StoreInv, StoreTypeOK
  <2>4. DeskTells'
    BY <1>1, <2>1, <2>2, DesksTell DEF StoreInv, DeskTells, Holding
  <2>5. FreshIsOwn'
    BY <1>1, <1>2, <2>1, <2>2, GotoIs DEF StoreInv, FreshIsOwn, Fresh, Holding
  <2>6. SourcesAreKept'
    BY <1>1, <1>2, <2>1, <2>2, GotoIs
    DEF StoreInv, SourcesAreKept, SourcesAreOnRecord, RowsHaveOriginals, BeingDeleted
  <2>7. QED
    BY <2>3, <2>4, <2>5, <2>6 DEF StoreInv
<1>3. CASE Goto(s, Moved(desk[s], "restore")) /\ UNCHANGED <<rows, chunks>>
  <2> DEFINE r == Moved(desk[s], "restore")
  <2>1. r \in Desks /\ r.pc = "restore" /\ r.doc = desk[s].doc /\ Goto(s, r)
    BY <1>1, <1>3, DeskIs DEF Places
  <2> HIDE DEF r
  <2>2. StoreTypeOK'
    BY <1>1, <1>3, <2>1, GotoIs DEF StoreInv, StoreTypeOK
  <2>3. DeskTells'
    BY <1>1, <2>1, DesksTell DEF StoreInv, DeskTells, Holding
  <2>4. FreshIsOwn'
    BY <1>1, <1>3, <2>1, GotoIs DEF StoreInv, FreshIsOwn, Fresh, Holding
  <2>5. SourcesAreKept'
    BY <1>1, <1>3, <2>1, GotoIs
    DEF StoreInv, SourcesAreKept, SourcesAreOnRecord, RowsHaveOriginals, BeingDeleted
  <2>6. QED
    BY <2>2, <2>3, <2>4, <2>5 DEF StoreInv
<1>4. QED
  BY <1>2, <1>3 DEF RemoveRow, Refused, Moved

LEMMA PutBackStep ==
  ASSUME StoreInv, NEW s \in Sessions, PutBack(s)
  PROVE  StoreInv'
<1> DEFINE r == DeleteRaised(desk[s])
<1>1. /\ desk[s] \in Desks /\ desk[s].pc = "restore" /\ desk[s].doc \in Docs
      /\ UNCHANGED <<rows, sources, chunks, issued, leaked>>
      /\ faults' \in 0..MaxFaults
      /\ Goto(s, r)
  BY StoreBounds DEF StoreInv, StoreTypeOK, DeskTells, Holding, PutBack, At, Works, Fault
<1>2. r \in Desks /\ r.pc \in {"failed", "idle"} /\ r.doc = NoDoc
  BY <1>1, DeleteRaisedIs
<1>3. \/ objects' = objects \cup {desk[s].doc} /\ UNCHANGED lost
      \/ lost' = lost \cup {desk[s].doc} /\ UNCHANGED objects
  BY DEF PutBack
<1> HIDE DEF r
<1>4. StoreTypeOK'
  BY <1>1, <1>2, <1>3, GotoIs DEF StoreInv, StoreTypeOK
<1>5. DeskTells'
  BY <1>1, <1>2, DesksTell DEF StoreInv, DeskTells, Holding
<1>6. FreshIsOwn'
  BY <1>1, <1>2, <1>3, GotoIs DEF StoreInv, FreshIsOwn, Fresh, Holding
<1>7. SourcesAreKept'
  BY <1>1, <1>2, <1>3, GotoIs
  DEF StoreInv, SourcesAreKept, SourcesAreOnRecord, RowsHaveOriginals, BeingDeleted
<1>8. QED
  BY <1>4, <1>5, <1>6, <1>7 DEF StoreInv

\* A session dies; what it held becomes lost or leaked.
LEMMA AbandonedStep ==
  ASSUME StoreInv, NEW s \in Sessions, Abandoned(s), Goto(s, Free),
         UNCHANGED <<objects, rows, sources, chunks, issued>>, faults' \in 0..MaxFaults
  PROVE  StoreInv'
<1>1. desk[s] \in Desks /\ Free \in Desks /\ Free.pc = "idle" /\ Free.doc = NoDoc
  BY FreeIs DEF StoreInv, StoreTypeOK, Free
<1>2. desk[s].pc \in Holding => desk[s].doc \in Docs
  BY DEF StoreInv, StoreTypeOK, DeskTells
<1>3. lost' \subseteq Docs /\ leaked' \subseteq Docs /\ lost \subseteq lost'
  BY <1>2 DEF StoreInv, StoreTypeOK, Abandoned, Holding
<1>4. desk[s].pc \in {"unrow", "restore"} => desk[s].doc \in lost'
  BY DEF Abandoned
<1>5. StoreTypeOK'
  BY <1>1, <1>3, GotoIs DEF StoreInv, StoreTypeOK
<1>6. DeskTells'
  BY <1>1, DesksTell DEF StoreInv, DeskTells, Holding
<1>7. FreshIsOwn'
  BY <1>1, GotoIs DEF StoreInv, FreshIsOwn, Fresh, Holding
<1>8. SourcesAreKept'
  BY <1>1, <1>3, <1>4, GotoIs
  DEF StoreInv, SourcesAreKept, SourcesAreOnRecord, RowsHaveOriginals, BeingDeleted
<1>9. QED
  BY <1>5, <1>6, <1>7, <1>8 DEF StoreInv

LEMMA StoreStepKeeps ==
  ASSUME StoreInv, NEW s \in Sessions, StoreStep(s)
  PROVE  StoreInv'
BY PutObjectStep, CreateRowStep, TakeBackStep, UndoNextStep, RemoveObjectStep,
   RemoveRowStep, PutBackStep
DEF StoreStep

LEMMA StoreStart == StoreInit => StoreInv
BY FreeIs, StoreBounds
DEF StoreInit, StoreInv, StoreTypeOK, DeskTells, FreshIsOwn, Fresh, Holding, SourcesAreKept,
    SourcesAreOnRecord, RowsHaveOriginals, BeingDeleted, Free

(***************************************************************************)
(* Forms, answers and the number of an analysis.                           *)
(***************************************************************************)

LEMMA NoFormIs == NoForm \in Form
<1> DEFINE v == [f \in Required |-> "absent"]
<1>1. v \in [Required -> {"absent", "bad", "ok"}] /\ \A f \in Required : v[f] \in Quality(f)
  BY DEF Quality
<1>2. v \in Fields
  BY <1>1 DEF Fields
<1>3. QED
  BY <1>2 DEF NoForm, Form

LEMMA MergedIs ==
  ASSUME NEW a \in Form, NEW b \in Form
  PROVE  Merged(a, b) \in Form /\ Merged(a, b).facts = a.facts \cup b.facts
<1> DEFINE v == [f \in Required |->
                   CASE b.fields[f] = "absent" -> a.fields[f] [] OTHER -> b.fields[f]]
<1>1. a.fields \in Fields /\ b.fields \in Fields /\ a.facts \cup b.facts \in SUBSET Docs
  BY DEF Form
<1>2. v \in [Required -> {"absent", "bad", "ok"}]
  BY <1>1 DEF Fields
<1>3. \A f \in Required : v[f] \in Quality(f)
  BY <1>1 DEF Fields
<1>4. v \in Fields
  BY <1>2, <1>3 DEF Fields
<1>5. Merged(a, b) = [facts |-> a.facts \cup b.facts, fields |-> v]
  BY DEF Merged
<1> HIDE DEF v
<1>6. QED
  BY <1>1, <1>4, <1>5 DEF Form

LEMMA RepliesAre ==
  ASSUME NEW p \in Page, NEW reply \in Replies(p)
  PROVE  /\ p.kind \in Asking
         /\ reply.kind \in Asking /\ reply.confirmed \in BOOLEAN /\ reply.form \in Form
         /\ reply.kind = p.kind
         /\ reply.form.facts \subseteq p.form.facts
<1>1. p.form \in Form /\ p.form.facts \subseteq Docs
  BY DEF Page, Form
<1>2. CASE p.kind = "collect"
  <2>1. PICK v \in Fields :
          reply = [kind |-> "collect", confirmed |-> FALSE,
                   form |-> [facts |-> p.form.facts, fields |-> v]]
    BY <1>2 DEF Replies
  <2>2. QED
    BY <1>1, <1>2, <2>1 DEF Form, Asking
<1>3. CASE p.kind = "confirm"
  <2>1. PICK c \in BOOLEAN, g \in SUBSET p.form.facts, v \in Fields :
          reply = [kind |-> "confirm", confirmed |-> c, form |-> [facts |-> g, fields |-> v]]
    BY <1>3 DEF Replies
  <2>2. g \in SUBSET Docs
    BY <1>1
  <2>3. QED
    BY <1>3, <2>1, <2>2 DEF Form, Asking
<1>4. CASE p.kind \notin Asking
  <2>1. Replies(p) = {}
    BY <1>4 DEF Replies, Asking
  <2>2. QED
    BY <2>1
<1>5. QED
  BY <1>2, <1>3, <1>4 DEF Asking

LEMMA CollectedIs ==
  ASSUME NEW state \in State, NEW reply, reply.form \in Form, NEW asked
  PROVE  LET taken == Collected(state, reply, asked) IN
         /\ taken \in State /\ taken.next = "validate" /\ ~taken.wait /\ ~taken.confirmed
         /\ taken.run = state.run /\ taken.ids = state.ids
         /\ taken.form.facts = state.form.facts
<1> DEFINE v == [f \in Required |->
                   IF reply.kind = "collect" /\ f \in asked THEN reply.form.fields[f]
                   ELSE state.form.fields[f]]
           form == [facts |-> state.form.facts, fields |-> v]
<1>1. state.form.fields \in Fields /\ reply.form.fields \in Fields /\ state.form.facts \subseteq Docs
  BY DEF State, Form
<1>2. v \in [Required -> {"absent", "bad", "ok"}] /\ \A f \in Required : v[f] \in Quality(f)
  BY <1>1 DEF Fields
<1>3. v \in Fields
  BY <1>2 DEF Fields
<1> HIDE DEF v
<1>4. form \in Form /\ form.facts = state.form.facts
  BY <1>1, <1>3 DEF Form
<1>5. Collected(state, reply, asked) =
        [state EXCEPT !.wait = FALSE, !.confirmed = FALSE, !.next = "validate", !.form = form]
  <2>1. [state.form EXCEPT !.fields = v] = form
    BY DEF State, Form
  <2>2. Collected(state, reply, asked) =
          [state EXCEPT !.wait = FALSE, !.confirmed = FALSE, !.next = "validate",
                        !.form = [@ EXCEPT !.fields = v]]
    BY DEF Collected, v
  <2> HIDE DEF form
  <2>3. QED
    BY <2>1, <2>2
<1> HIDE DEF form
<1>6. QED
  BY <1>4, <1>5 DEF State, Nodes

LEMMA ConfirmedIs ==
  ASSUME NEW state \in State, NEW reply, reply.form \in Form, reply.confirmed \in BOOLEAN
  PROVE  LET taken == Confirmed(state, reply) IN
         /\ taken \in State /\ taken.next \in {"save", "confirm", "end"} /\ ~taken.wait
         /\ taken.run = state.run /\ taken.ids = state.ids
         /\ taken.form = IF reply.kind = "confirm" THEN reply.form ELSE state.form
         /\ taken.confirmed = (taken.next = "save")
         /\ taken.next = "save" => Missing(taken.form) = {}
<1> DEFINE form == IF reply.kind = "confirm" THEN reply.form ELSE state.form
           yes  == reply.confirmed /\ Missing(form) = {}
           next == IF yes THEN "save" ELSE IF Missing(form) # {} THEN "confirm" ELSE "end"
<1>1. form \in Form
  BY DEF State
<1>2. /\ next \in {"save", "confirm", "end"} /\ next \in Nodes
      /\ yes \in BOOLEAN /\ yes = (next = "save") /\ (yes => Missing(form) = {})
  BY DEF Nodes
<1>3. Confirmed(state, reply) =
        [state EXCEPT !.wait = FALSE, !.form = form, !.confirmed = yes, !.next = next]
  BY DEF Confirmed
<1>4. form = IF reply.kind = "confirm" THEN reply.form ELSE state.form
  OBVIOUS
<1> HIDE DEF form, yes, next
<1>5. QED
  BY <1>1, <1>2, <1>3, <1>4 DEF State

\* A set of numbers with a bound has a greatest one, the one LastRun chooses.
LEMMA Greatest ==
  ASSUME NEW N \in Nat, NEW S \in SUBSET (0..N), S # {}
  PROVE  \E n \in S : \A m \in S : m <= n
<1> DEFINE T == {k \in Nat : \A m \in S : m <= k}
<1>1. T \subseteq Nat /\ N \in T
  OBVIOUS
<1>2. PICK x \in T : \A y \in T : ~(<<y, x>> \in OpToRel(<, Nat))
  <2> HIDE DEF T
  <2>1. QED
    BY <1>1, NatLessThanWellFounded, WFMin
<1>3. \A y \in T : ~(y < x)
  BY <1>1, <1>2 DEF OpToRel
<1>4. x \in S
  <2>1. SUFFICES ASSUME x \notin S PROVE FALSE
    OBVIOUS
  <2>2. x \in Nat /\ \A m \in S : m \in Nat /\ m < x
    BY <2>1
  <2>3. x - 1 \in Nat
    <3>1. PICK m \in S : TRUE
      OBVIOUS
    <3>2. QED
      BY <2>2, <3>1
  <2>4. \A m \in S : m <= x - 1
    BY <2>2
  <2>5. x - 1 \in T
    BY <2>3, <2>4
  <2>6. QED
    BY <1>3, <2>2, <2>5
<1>5. QED
  BY <1>4

LEMMA LastRunIs ==
  ASSUME TypeOK
  PROVE  LastRun \in 0..MaxRuns /\ \A n \in Runs : n <= LastRun
<1>1. Runs \in SUBSET (0..MaxRuns)
  BY OnboardingBounds DEF TypeOK, Runs, State, Page
<1>2. thread.run \in Runs
  BY DEF Runs
<1>3. \E n \in Runs : \A m \in Runs : m <= n
  BY <1>1, <1>2, Greatest, OnboardingBounds
<1>4. LastRun \in Runs /\ \A m \in Runs : m <= LastRun
  BY <1>3 DEF LastRun
<1>5. QED
  BY <1>1, <1>4

(***************************************************************************)
(* The steps of the graph.                                                 *)
(***************************************************************************)

\* What is neither the store, the thread, an invocation nor a confirmation.
PagesTyped ==
  /\ profile \in [n : Nat, content : Form, past : SUBSET Docs]
  /\ profile.content.facts \subseteq profile.past
  /\ result \in [Sessions -> Page] /\ page \in [Sessions -> Page]
  /\ missed \subseteq Sessions /\ astray \subseteq Docs
  /\ edits \in 0..MaxEdits

LEMMA PagesAre == GraphInv => PagesTyped
BY DEF GraphInv, TypeOK, PagesTyped

LEMMA PagesStay ==
  ASSUME GraphInv, UNCHANGED <<profile, result, page, histories>>
  PROVE  PagesTyped'
BY PagesAre DEF PagesTyped, histories

\* What a step leaves to show that changes the thread and one invocation, and may confirm
\* a form.
LEMMA GraphGrown ==
  ASSUME GraphInv, StoreTypeOK', NEW s \in Sessions,
         NEW st \in State, NEW rn \in State,
         thread' = st, run' = [run EXCEPT ![s] = rn], PagesTyped',
         Sound(st), Sound(rn),
         \A state \in {st, rn} : state.next = "save" =>
           Missing(state.form) = {} /\ [run |-> state.run, form |-> state.form] \in approved',
         approved \subseteq approved', approved' \subseteq [run : 1..MaxRuns, form : Form],
         IsFiniteSet(approved')
  PROVE  GraphInv'
<1>1. TypeOK'
  BY DEF GraphInv, TypeOK, PagesTyped
<1>2. SavesTheConfirmed(thread)' /\ Sound(thread)'
  BY DEF SavesTheConfirmed, Sound, Missing
<1>3. run' \in [Sessions -> State] /\ run'[s] = rn /\ \A t \in Sessions \ {s} : run'[t] = run[t]
  BY DEF GraphInv, TypeOK
<1>4. ASSUME NEW t \in Sessions PROVE (SavesTheConfirmed(run[t]) /\ Sound(run[t]))'
  BY <1>3 DEF GraphInv, SavesTheConfirmed, Sound, Missing
<1>5. QED
  BY <1>1, <1>2, <1>4 DEF GraphInv

LEMMA GraphKept ==
  ASSUME GraphInv, StoreTypeOK', NEW s \in Sessions,
         NEW st \in State, NEW rn \in State,
         thread' = st, run' = [run EXCEPT ![s] = rn], PagesTyped',
         SavesTheConfirmed(st), Sound(st), SavesTheConfirmed(rn), Sound(rn),
         UNCHANGED approved
  PROVE  GraphInv'
<1>1. /\ approved \subseteq approved' /\ approved' \subseteq [run : 1..MaxRuns, form : Form]
      /\ IsFiniteSet(approved')
  BY DEF GraphInv, TypeOK
<1>2. \A state \in {st, rn} : state.next = "save" =>
        Missing(state.form) = {} /\ [run |-> state.run, form |-> state.form] \in approved'
  BY DEF SavesTheConfirmed
<1>3. QED
  BY <1>1, <1>2, GraphGrown

LEMMA NoThreadIs ==
  /\ NoThread \in State /\ SavesTheConfirmed(NoThread) /\ Sound(NoThread)
  /\ Blank \in Page /\ Over \in Page
<1>1. NoThread \in State
  BY NoFormIs, EmptySeq, OnboardingBounds DEF NoThread, State, Nodes
<1>2. SavesTheConfirmed(NoThread) /\ Sound(NoThread)
  BY DEF NoThread, SavesTheConfirmed, Sound, Asking
<1>3. Blank \in Page
  BY NoFormIs, OnboardingBounds DEF Blank, Page
<1>4. Over \in Page
  BY <1>3 DEF Over, Page
<1>5. QED
  BY <1>1, <1>2, <1>3, <1>4

LEMMA GraphIs ==
  ASSUME GraphInv, NEW s \in Sessions
  PROVE  /\ thread \in State /\ SavesTheConfirmed(thread) /\ Sound(thread)
         /\ run[s] \in State /\ SavesTheConfirmed(run[s]) /\ Sound(run[s])
         /\ run = [run EXCEPT ![s] = run[s]]
         /\ result[s] \in Page /\ result = [result EXCEPT ![s] = result[s]]
         /\ page[s] \in Page /\ page = [page EXCEPT ![s] = page[s]]
         /\ profile \in [n : Nat, content : Form, past : SUBSET Docs]
         /\ profile.content.facts \subseteq profile.past
         /\ edits \in 0..MaxEdits
BY DEF GraphInv, TypeOK

\* A result that is returned, or a page that is shown.
LEMMA PagesTurn ==
  ASSUME GraphInv, NEW s \in Sessions, NEW p \in Page, NEW q \in Page,
         result' = [result EXCEPT ![s] = p], page' = [page EXCEPT ![s] = q],
         missed' \in {missed, missed \ {s}, missed \cup {s}}, UNCHANGED <<profile, edits>>,
         astray' \subseteq Docs
  PROVE  PagesTyped'
<1>1. /\ profile' \in [n : Nat, content : Form, past : SUBSET Docs]
      /\ profile'.content.facts \subseteq profile'.past
  BY PagesAre DEF PagesTyped
<1>2. result' \in [Sessions -> Page] /\ page' \in [Sessions -> Page]
  BY PagesAre DEF PagesTyped
<1>3. missed' \subseteq Sessions /\ astray' \subseteq Docs /\ edits' \in 0..MaxEdits
  BY PagesAre DEF PagesTyped
<1>4. QED
  BY <1>1, <1>2, <1>3 DEF PagesTyped

\* A step of the store alone.
LEMMA GraphQuiet ==
  ASSUME GraphInv, StoreTypeOK', UNCHANGED onboardingVars
  PROVE  GraphInv'
BY DEF GraphInv, TypeOK, onboardingVars, histories, SavesTheConfirmed, Sound, Missing

\* An invocation that raises leaves the thread and the page as they are.
LEMMA RaisedKeeps ==
  ASSUME GraphInv, StoreTypeOK', NEW s \in Sessions, Raised(s),
         UNCHANGED <<profile, page, approved, histories>>
  PROVE  GraphInv'
<1>1. thread' = thread /\ run' = [run EXCEPT ![s] = NoThread] /\ PagesTyped'
  BY PagesStay DEF Raised, Stop
<1>2. QED
  BY <1>1, NoThreadIs, GraphIs, GraphKept

\* A node that is done leaves a state that says no more than what was confirmed.
LEMMA CheckpointKeeps ==
  ASSUME GraphInv, StoreTypeOK', NEW s \in Sessions, NEW state \in State,
         Checkpoint(s, state), state.next # "save", Sound(state),
         UNCHANGED <<profile, result, page, approved, histories>>
  PROVE  GraphInv'
<1>1. thread' = state /\ run' = [run EXCEPT ![s] = state] /\ PagesTyped'
  BY PagesStay DEF Checkpoint
<1>2. SavesTheConfirmed(state)
  BY DEF SavesTheConfirmed
<1>3. QED
  BY <1>1, <1>2, GraphIs, GraphKept

\* A step that changes no desk, document or index.
LEMMA StoreQuiet ==
  ASSUME StoreInv, UNCHANGED <<objects, rows, sources, chunks, desk, issued, lost, leaked>>,
         Works \/ Fault
  PROVE  StoreInv'
<1>1. faults' \in 0..MaxFaults
  BY StoreBounds DEF Works, Fault, StoreInv, StoreTypeOK
<1>2. QED
  BY <1>1 DEF StoreInv, StoreTypeOK, DeskTells, FreshIsOwn, Fresh, SourcesAreKept,
              SourcesAreOnRecord, RowsHaveOriginals, BeingDeleted

LEMMA AnalyzeStep ==
  ASSUME StoreInv, GraphInv, NEW s \in Sessions, Analyze(s)
  PROVE  StoreInv' /\ GraphInv'
<1>1. CASE Fault /\ thread' = NoThread /\ UNCHANGED <<run, desk>>
  <2>1. StoreInv'
    BY <1>1, StoreQuiet DEF Analyze
  <2>2. run' = [run EXCEPT ![s] = run[s]] /\ PagesTyped' /\ UNCHANGED approved
    BY <1>1, GraphIs, PagesStay DEF Analyze
  <2>3. GraphInv'
    BY <1>1, <2>1, <2>2, GraphIs, NoThreadIs, GraphKept DEF StoreInv
  <2>4. QED
    BY <2>1, <2>3
<1> DEFINE state == [NoThread EXCEPT !.run = LastRun + 1, !.next = "store",
                                     !.form = profile.content]
<1>2. CASE Works /\ Checkpoint(s, state) /\ \E n \in 1..MaxFiles : Upload(s, "analyze", n)
  <2>1. PICK n \in 1..MaxFiles : Upload(s, "analyze", n)
    BY <1>2
  <2>2. /\ At(s, "idle") /\ faults' \in 0..MaxFaults
        /\ UNCHANGED <<objects, rows, sources, chunks, issued, lost, leaked>>
    BY <1>2 DEF Analyze, Stopped, Works, StoreInv, StoreTypeOK
  <2>3. StoreInv'
    BY <2>1, <2>2, UploadStep
  <2>4. LastRun + 1 \in 0..MaxRuns /\ LastRun + 1 > 0
    BY LastRunIs, OnboardingBounds DEF Analyze, GraphInv
  <2>5. profile.content \in Form
    BY GraphIs
  <2>6. state \in State /\ state.next = "store" /\ state.run > 0 /\ ~state.wait
    BY <2>4, <2>5, NoThreadIs DEF State, Nodes, NoThread
  <2>7. Checkpoint(s, state) /\ UNCHANGED <<profile, result, page, approved, histories>>
    BY <1>2 DEF Analyze
  <2> HIDE DEF state
  <2>8. GraphInv'
    BY <2>3, <2>6, <2>7, CheckpointKeeps DEF Sound, Asking, StoreInv
  <2>9. QED
    BY <2>3, <2>8
<1>3. QED
  BY <1>1, <1>2 DEF Analyze

LEMMA StoredStep ==
  ASSUME StoreInv, GraphInv, NEW s \in Sessions, Stored(s)
  PROVE  StoreInv' /\ GraphInv'
<1>1. /\ desk[s] \in Desks /\ run[s] \in State /\ run[s].next = "store" /\ run[s].run > 0 /\ ~run[s].wait
      /\ UNCHANGED <<objects, rows, sources, chunks, issued, lost, leaked, faults>>
      /\ UNCHANGED <<profile, page, approved, histories>>
      /\ chunks \subseteq Docs /\ leaked \subseteq Docs /\ faults \in 0..MaxFaults
  BY GraphIs DEF StoreInv, StoreTypeOK, Stored, Running, Sound, Asking
<1> DEFINE state == [run[s] EXCEPT !.next = "extract", !.ids = desk[s].done]
<1>2. CASE At(s, "stored") /\ Checkpoint(s, state) /\ Goto(s, Moved(desk[s], "index"))
           /\ UNCHANGED result
  <2> DEFINE r == Moved(desk[s], "index")
  <2>1. r \in Desks /\ r.pc = "index" /\ r.doc = desk[s].doc /\ Goto(s, r)
    BY <1>1, <1>2, DeskIs DEF Places, StoreInv
  <2> HIDE DEF r
  <2>2. StoreInv'
    BY <1>1, <1>2, <2>1, QuietDesk DEF At, Holding
  <2>3. state \in State /\ state.next = "extract" /\ state.run > 0 /\ ~state.wait
    BY <1>1 DEF State, Nodes, Desks
  <2> HIDE DEF state
  <2>4. GraphInv'
    BY <1>1, <1>2, <2>2, <2>3, CheckpointKeeps DEF Sound, Asking, StoreInv
  <2>5. QED
    BY <2>2, <2>4
<1>3. CASE At(s, "failed") /\ Raised(s) /\ Goto(s, Free)
  <2>1. Free \in Desks /\ Free.pc = "idle" /\ Free.doc = NoDoc
    BY FreeIs DEF Free
  <2>2. StoreInv'
    BY <1>1, <1>3, <2>1, QuietDesk DEF At, Holding
  <2>3. QED
    BY <1>1, <1>3, <2>2, RaisedKeeps DEF StoreInv
<1>4. QED
  BY <1>2, <1>3 DEF Stored, Moved

LEMMA ExtractStep ==
  ASSUME StoreInv, GraphInv, NEW s \in Sessions, Extract(s)
  PROVE  StoreInv' /\ GraphInv'
<1>1. /\ desk[s] \in Desks /\ desk[s].pc = "index" /\ run[s] \in State
      /\ run[s].next = "extract" /\ run[s].run > 0 /\ ~run[s].wait
      /\ UNCHANGED <<objects, rows, sources, issued, lost, leaked>>
      /\ UNCHANGED <<profile, page, approved, histories>>
      /\ chunks \subseteq Docs /\ leaked \subseteq Docs /\ faults' \in 0..MaxFaults
  BY GraphIs, StoreBounds
  DEF StoreInv, StoreTypeOK, Extract, Running, At, Sound, Asking, Works, Fault
<1>2. Free \in Desks /\ Free.pc = "idle" /\ Free.doc = NoDoc
  BY FreeIs DEF Free
<1> DEFINE rest == [desk[s] EXCEPT !.done = Tail(@)]
           state == [run[s] EXCEPT !.next = "model"]
<1>3. CASE /\ desk[s].done # <<>> /\ chunks' = chunks \cup {Head(desk[s].done)}
           /\ Goto(s, rest) /\ UNCHANGED <<thread, run, result>>
  <2>1. desk[s].done \in Seq(Docs)
    BY <1>1 DEF Desks
  <2>2. Tail(desk[s].done) \in Seq(Docs) /\ Head(desk[s].done) \in Docs
    BY <1>3, <2>1, HeadTailProperties
  <2>3. rest \in Desks /\ rest.pc = "index" /\ rest.doc = desk[s].doc
    BY <1>1, <2>2 DEF Desks
  <2>4. Goto(s, rest) /\ chunks' \subseteq Docs
    BY <1>1, <1>3, <2>2
  <2> HIDE DEF rest
  <2>5. StoreInv'
    BY <1>1, <2>3, <2>4, QuietDesk DEF Holding
  <2>6. QED
    BY <1>1, <1>3, <2>5, GraphQuiet DEF StoreInv, onboardingVars
<1>4. CASE Checkpoint(s, state) /\ Goto(s, Free) /\ UNCHANGED <<chunks, result>>
  <2>1. StoreInv'
    BY <1>1, <1>2, <1>4, QuietDesk DEF Holding
  <2>2. state \in State /\ state.next = "model" /\ state.run > 0 /\ ~state.wait
    BY <1>1 DEF State, Nodes
  <2> HIDE DEF state
  <2>3. GraphInv'
    BY <1>1, <1>4, <2>1, <2>2, CheckpointKeeps DEF Sound, Asking, StoreInv
  <2>4. QED
    BY <2>1, <2>3
<1>5. CASE Raised(s) /\ Goto(s, Free) /\ UNCHANGED chunks
  <2>1. StoreInv'
    BY <1>1, <1>2, <1>5, QuietDesk DEF Holding
  <2>2. QED
    BY <1>1, <1>5, <2>1, RaisedKeeps DEF StoreInv
<1>6. QED
  BY <1>3, <1>4, <1>5 DEF Extract

LEMMA ProposeStep ==
  ASSUME StoreInv, GraphInv, NEW s \in Sessions, Propose(s)
  PROVE  StoreInv' /\ GraphInv'
<1>1. /\ run[s] \in State /\ run[s].run > 0 /\ ~run[s].wait /\ run[s].form \in Form /\ run[s].ids \in Seq(Docs)
      /\ UNCHANGED <<profile, page, approved, histories>>
  BY GraphIs DEF Propose, Running, Sound, Asking, State
<1>2. StoreInv'
  BY StoreQuiet DEF Propose
<1>3. CASE Raised(s)
  BY <1>1, <1>2, <1>3, RaisedKeeps DEF StoreInv
<1>4. ASSUME NEW fields \in Fields, UNCHANGED result,
             Checkpoint(s, [run[s] EXCEPT !.next = "validate",
                              !.form = Merged(@, [facts |-> ToSet(run[s].ids), fields |-> fields])])
      PROVE  GraphInv'
  <2> DEFINE extracted == [facts |-> ToSet(run[s].ids), fields |-> fields]
             form  == Merged(run[s].form, extracted)
             state == [run[s] EXCEPT !.next = "validate", !.form = form]
  <2>1. ToSet(run[s].ids) \subseteq Docs
    BY <1>1 DEF ToSet
  <2>2. extracted \in Form
    BY <2>1 DEF Form
  <2>3. form \in Form
    BY <1>1, <2>2, MergedIs
  <2>4. Checkpoint(s, state)
    BY <1>4
  <2> HIDE DEF form
  <2>5. state \in State /\ state.next = "validate" /\ state.run > 0 /\ ~state.wait
    BY <1>1, <2>3 DEF State, Nodes
  <2> HIDE DEF state
  <2>6. QED
    BY <1>1, <1>2, <1>4, <2>4, <2>5, CheckpointKeeps DEF Sound, Asking, StoreInv
<1>5. QED
  BY <1>2, <1>3, <1>4 DEF Propose

LEMMA ValidateStep ==
  ASSUME StoreInv, GraphInv, NEW s \in Sessions, Validate(s)
  PROVE  StoreInv' /\ GraphInv'
<1> DEFINE next  == IF Missing(run[s].form) # {} THEN "collect" ELSE "confirm"
           state == [run[s] EXCEPT !.next = next]
<1>1. /\ run[s] \in State /\ run[s].run > 0 /\ ~run[s].wait
      /\ UNCHANGED <<storeVars, profile, result, page, approved, histories>>
      /\ Checkpoint(s, state)
  BY GraphIs DEF Validate, Running, Sound, Asking
<1>2. StoreInv'
  BY <1>1, StoreQuiet DEF storeVars, Works
<1>3. next \in {"collect", "confirm"}
  OBVIOUS
<1> HIDE DEF next
<1>4. state \in State /\ state.next \in {"collect", "confirm"} /\ state.run > 0 /\ ~state.wait
  BY <1>1, <1>3 DEF State, Nodes
<1> HIDE DEF state
<1>5. GraphInv'
  BY <1>1, <1>2, <1>4, CheckpointKeeps DEF Sound, Asking, StoreInv
<1>6. QED
  BY <1>2, <1>5

LEMMA AskStep ==
  ASSUME StoreInv, GraphInv, NEW s \in Sessions, Ask(s)
  PROVE  StoreInv' /\ GraphInv'
<1> DEFINE state == [run[s] EXCEPT !.wait = TRUE]
           shown == [kind |-> run[s].next, run |-> run[s].run, form |-> run[s].form]
<1>1. /\ run[s] \in State /\ run[s].run > 0 /\ run[s].next \in {"collect", "confirm"}
      /\ UNCHANGED <<storeVars, profile, page, approved, histories>>
  BY GraphIs DEF Ask, Node, Sound, Asking
<1>2. StoreInv'
  BY <1>1, StoreQuiet DEF storeVars, Works
<1>3. state \in State /\ state.next = run[s].next /\ state.run = run[s].run
  BY <1>1 DEF State
<1>4. shown \in Page
  BY <1>1 DEF State, Page
<1>5. /\ thread' = state /\ run' = [run EXCEPT ![s] = NoThread]
      /\ result' = [result EXCEPT ![s] = shown]
  BY DEF Ask, Returns, Stop
<1> HIDE DEF state, shown
<1>6. PagesTyped'
  BY <1>1, <1>4, <1>5, GraphIs, PagesAre, PagesTurn DEF histories, PagesTyped
<1>7. SavesTheConfirmed(state) /\ Sound(state)
  BY <1>1, <1>3 DEF SavesTheConfirmed, Sound, Asking
<1>8. GraphInv'
  BY <1>1, <1>2, <1>3, <1>5, <1>6, <1>7, NoThreadIs, GraphKept DEF StoreInv
<1>9. QED
  BY <1>2, <1>8

\* The thread and the invocations stay as they are.
LEMMA ThreadStays ==
  ASSUME GraphInv, StoreTypeOK', NEW s \in Sessions, UNCHANGED <<thread, run, approved>>, PagesTyped'
  PROVE  GraphInv'
<1>1. run' = [run EXCEPT ![s] = run[s]]
  BY GraphIs
<1>2. QED
  BY <1>1, GraphIs, GraphKept

LEMMA ReturnStep ==
  ASSUME StoreInv, GraphInv, NEW s \in Sessions, Return(s)
  PROVE  StoreInv' /\ GraphInv'
<1>1. StoreInv'
  BY StoreQuiet DEF Return
<1>2. /\ UNCHANGED <<profile, thread, run, approved, astray, edits>>
      /\ result' = [result EXCEPT ![s] = Blank]
  BY DEF Return
<1>3. \/ page' = [page EXCEPT ![s] = result[s]] /\ missed' = missed \ {s}
      \/ page' = [page EXCEPT ![s] = page[s]] /\ missed' = missed \cup {s}
  BY GraphIs DEF Return, Show
<1>4. PagesTyped'
  BY <1>2, <1>3, GraphIs, NoThreadIs, PagesAre, PagesTurn DEF PagesTyped
<1>5. QED
  BY <1>1, <1>2, <1>4, ThreadStays DEF StoreInv

LEMMA RestoreStep ==
  ASSUME StoreInv, GraphInv, NEW s \in Sessions, Restore(s)
  PROVE  StoreInv' /\ GraphInv'
<1>1. /\ thread \in State /\ thread.next \in {"collect", "confirm"}
      /\ UNCHANGED <<storeVars, profile, thread, run, result, approved, astray, edits>>
  BY GraphIs DEF Restore, Sound, Asking
<1>2. StoreInv'
  BY <1>1, StoreQuiet DEF storeVars, Works
<1>3. Question \in Page
  BY <1>1 DEF State, Page, Question
<1>4. /\ page' = [page EXCEPT ![s] = Question] /\ missed' = missed \ {s}
      /\ result' = [result EXCEPT ![s] = result[s]]
  BY <1>1, GraphIs DEF Restore, Show
<1>5. PagesTyped'
  BY <1>1, <1>3, <1>4, GraphIs, PagesAre, PagesTurn DEF PagesTyped
<1>6. QED
  BY <1>1, <1>2, <1>5, ThreadStays DEF StoreInv

\* The state an answer resumes with.
Taken(s, reply) ==
  CASE thread.next = "collect" -> Collected(thread, reply, Missing(page[s].form))
    [] thread.next = "confirm" -> Confirmed(thread, reply)
    [] thread.next \in {"model", "validate", "save"} -> thread
    [] OTHER -> NoThread

LEMMA AnswerIs ==
  ASSUME NEW s, Answer(s)
  PROVE  \E reply \in Replies(page[s]) :
           /\ thread.next \notin {"none", "store", "extract"}
           /\ IF Taken(s, reply).next \in {"none", "end"} THEN Returns(s, Over)
              ELSE run' = [run EXCEPT ![s] = Taken(s, reply)] /\ UNCHANGED result
           /\ thread' = IF Taken(s, reply) = NoThread THEN thread ELSE Taken(s, reply)
           /\ approved' = IF thread.next = "confirm" /\ Taken(s, reply).confirmed
                          THEN approved \cup {[run |-> thread.run, form |-> Taken(s, reply).form]}
                          ELSE approved
           /\ astray' = IF thread.next = "confirm" /\ reply.kind = "confirm" /\ page[s].run # thread.run
                        THEN astray \cup reply.form.facts ELSE astray
BY DEF Answer, Taken

\* What an answer does, by the node the thread stands at.
LEMMA TakenIs ==
  ASSUME GraphInv, NEW s \in Sessions, NEW reply \in Replies(page[s]),
         thread.next \notin {"none", "store", "extract"}
  PROVE  LET taken == Taken(s, reply) IN
         /\ taken \in State /\ Sound(taken) /\ ~taken.wait
         /\ \/ /\ thread.next = "collect" /\ taken.next = "validate"
               /\ taken.run = thread.run /\ taken.ids = thread.ids
               /\ taken.form.facts = thread.form.facts
            \/ /\ thread.next = "confirm" /\ taken.next \in {"save", "confirm", "end"}
               /\ taken.run = thread.run /\ taken.ids = thread.ids
               /\ taken.form = IF reply.kind = "confirm" THEN reply.form ELSE thread.form
               /\ taken.confirmed = (taken.next = "save")
               /\ taken.next = "save" => Missing(taken.form) = {}
            \/ thread.next \in {"model", "validate", "save"} /\ taken = thread
            \/ thread.next = "end" /\ taken = NoThread
<1>1. /\ thread \in State /\ Sound(thread) /\ SavesTheConfirmed(thread) /\ page[s] \in Page
      /\ thread.run \in 0..MaxRuns /\ thread.run > 0 /\ thread.next \in Nodes
  BY GraphIs DEF Sound, State
<1>2. reply.form \in Form /\ reply.confirmed \in BOOLEAN
  BY <1>1, RepliesAre
<1> DEFINE taken == Taken(s, reply)
<1>3. CASE thread.next = "collect"
  <2>1. taken = Collected(thread, reply, Missing(page[s].form))
    BY <1>3 DEF Taken
  <2> HIDE DEF taken
  <2>2. /\ taken \in State /\ taken.next = "validate" /\ ~taken.wait /\ taken.run = thread.run
        /\ taken.ids = thread.ids /\ taken.form.facts = thread.form.facts
    BY <1>1, <1>2, <2>1, CollectedIs
  <2>3. QED
    BY <1>1, <1>3, <2>2 DEF Sound, taken
<1>4. CASE thread.next = "confirm"
  <2>1. taken = Confirmed(thread, reply)
    BY <1>4 DEF Taken
  <2> HIDE DEF taken
  <2>2. /\ taken \in State /\ taken.next \in {"save", "confirm", "end"} /\ ~taken.wait
        /\ taken.run = thread.run /\ taken.ids = thread.ids
        /\ taken.form = IF reply.kind = "confirm" THEN reply.form ELSE thread.form
        /\ taken.confirmed = (taken.next = "save")
        /\ taken.next = "save" => Missing(taken.form) = {}
    BY <1>1, <1>2, <2>1, ConfirmedIs
  <2>3. QED
    BY <1>1, <1>4, <2>2 DEF Sound, taken
<1>5. CASE thread.next \in {"model", "validate", "save"}
  <2>1. taken = thread
    BY <1>5 DEF Taken
  <2>2. QED
    BY <1>1, <1>5, <2>1 DEF Sound, Asking
<1>6. CASE thread.next = "end"
  <2>1. taken = NoThread
    BY <1>6 DEF Taken
  <2>2. ~NoThread.wait
    BY DEF NoThread
  <2>3. QED
    BY <1>6, <2>1, <2>2, NoThreadIs
<1>7. QED
  BY <1>1, <1>3, <1>4, <1>5, <1>6 DEF Nodes

LEMMA AnswerStep ==
  ASSUME StoreInv, GraphInv, NEW s \in Sessions, Answer(s)
  PROVE  StoreInv' /\ GraphInv'
<1>1. UNCHANGED <<storeVars, profile, page, missed, edits>> /\ s \in Tabs
  BY DEF Answer
<1>2. StoreInv'
  BY <1>1, StoreQuiet DEF storeVars, Works
<1>3. PICK reply \in Replies(page[s]) :
        /\ thread.next \notin {"none", "store", "extract"}
        /\ IF Taken(s, reply).next \in {"none", "end"} THEN Returns(s, Over)
           ELSE run' = [run EXCEPT ![s] = Taken(s, reply)] /\ UNCHANGED result
        /\ thread' = IF Taken(s, reply) = NoThread THEN thread ELSE Taken(s, reply)
        /\ approved' = IF thread.next = "confirm" /\ Taken(s, reply).confirmed
                       THEN approved \cup {[run |-> thread.run, form |-> Taken(s, reply).form]}
                       ELSE approved
        /\ astray' = IF thread.next = "confirm" /\ reply.kind = "confirm" /\ page[s].run # thread.run
                     THEN astray \cup reply.form.facts ELSE astray
  BY AnswerIs
<1> DEFINE taken == Taken(s, reply)
           st    == IF taken = NoThread THEN thread ELSE taken
           rn    == IF taken.next \in {"none", "end"} THEN NoThread ELSE taken
           res   == IF taken.next \in {"none", "end"} THEN Over ELSE result[s]
           more  == [run |-> thread.run, form |-> taken.form]
<1>4. /\ thread \in State /\ Sound(thread) /\ SavesTheConfirmed(thread)
      /\ page[s] \in Page /\ result[s] \in Page
      /\ page = [page EXCEPT ![s] = page[s]] /\ result = [result EXCEPT ![s] = result[s]]
      /\ thread.run \in 0..MaxRuns /\ thread.run > 0 /\ thread.next # "none"
  BY <1>1, <1>3, GraphIs DEF Sound, State
<1>5. taken \in State /\ Sound(taken) /\ NoThread \in State /\ Sound(NoThread) /\ Over \in Page
  BY <1>3, TakenIs, NoThreadIs
<1>6. st \in State /\ Sound(st) /\ rn \in State /\ Sound(rn) /\ res \in Page
  BY <1>4, <1>5
<1>7. /\ thread' = st /\ run' = [run EXCEPT ![s] = rn] /\ result' = [result EXCEPT ![s] = res]
      /\ page' = [page EXCEPT ![s] = page[s]]
  BY <1>1, <1>3, <1>4 DEF Returns, Stop
<1>8. PagesTyped'
  <2>1. reply.form \in Form
    BY <1>4, RepliesAre
  <2>2. astray' \subseteq Docs
    BY <1>3, <2>1, PagesAre DEF PagesTyped, Form
  <2> HIDE DEF res
  <2>3. QED
    BY <1>1, <1>4, <1>6, <1>7, <2>2, PagesTurn
<1>9. more \in [run : 1..MaxRuns, form : Form]
  BY <1>4, <1>5, OnboardingBounds DEF State
<1>10. /\ approved \subseteq approved' /\ approved' \subseteq [run : 1..MaxRuns, form : Form]
       /\ IsFiniteSet(approved')
  <2>1. approved \subseteq [run : 1..MaxRuns, form : Form] /\ IsFiniteSet(approved)
    BY DEF GraphInv, TypeOK
  <2>2. approved' = approved \/ approved' = approved \cup {more}
    BY <1>3
  <2>3. IsFiniteSet(approved \cup {more})
    BY <2>1, FS_AddElement
  <2> HIDE DEF more
  <2>4. QED
    BY <1>9, <2>1, <2>2, <2>3
<1>11. ASSUME taken.next = "save"
       PROVE  Missing(taken.form) = {} /\ [run |-> taken.run, form |-> taken.form] \in approved'
  <2>1. CASE thread.next = "confirm"
    BY <1>3, <1>11, <2>1, TakenIs
  <2>2. CASE thread.next = "save" /\ taken = thread
    BY <1>4, <1>10, <2>2 DEF SavesTheConfirmed
  <2>3. NoThread.next # "save"
    BY DEF NoThread
  <2>4. QED
    BY <1>3, <1>11, <2>1, <2>2, <2>3, TakenIs
<1>12. ASSUME thread.next = "save"
       PROVE  Missing(thread.form) = {} /\ [run |-> thread.run, form |-> thread.form] \in approved'
  BY <1>4, <1>10, <1>12 DEF SavesTheConfirmed
<1>13. NoThread.next # "save"
  BY DEF NoThread
<1>14. \A state \in {st, rn} : state.next = "save" =>
         Missing(state.form) = {} /\ [run |-> state.run, form |-> state.form] \in approved'
  BY <1>11, <1>12, <1>13
<1> HIDE DEF st, rn, res
<1>15. GraphInv'
  BY <1>2, <1>6, <1>7, <1>8, <1>10, <1>14, GraphGrown DEF StoreInv
<1>16. QED
  BY <1>2, <1>15

\* The transaction that saves records only documents that are on record.
LEMMA SourcesGrow ==
  ASSUME StoreInv, NEW ids, OwnedSources(ids), sources' = SourcesWith(ids), faults' \in 0..MaxFaults,
         UNCHANGED <<objects, rows, chunks, desk, issued, lost, leaked>>
  PROVE  StoreInv'
BY DEF StoreInv, StoreTypeOK, DeskTells, FreshIsOwn, Fresh, SourcesAreKept, SourcesAreOnRecord,
       RowsHaveOriginals, BeingDeleted, OwnedSources

LEMMA SaveStep ==
  ASSUME StoreInv, GraphInv, NEW s \in Sessions, Save(s)
  PROVE  StoreInv' /\ GraphInv'
<1> DEFINE ended == [run[s] EXCEPT !.next = "end"]
<1>1. /\ run[s] \in State /\ run[s].next = "save" /\ Sound(run[s]) /\ run[s].form \in Form
      /\ UNCHANGED <<objects, rows, chunks, desk, issued, lost, leaked>>
      /\ UNCHANGED <<page, approved, histories>>
      /\ faults' \in 0..MaxFaults
  BY GraphIs, StoreBounds DEF Save, Running, State, Works, Fault, StoreInv, StoreTypeOK
<1>2. ended \in State /\ ended.next = "end" /\ Sound(ended) /\ SavesTheConfirmed(ended)
  BY <1>1 DEF State, Nodes, Sound, Asking, SavesTheConfirmed
<1>3. CASE /\ Works /\ OwnedSources(run[s].ids) /\ sources' = SourcesWith(run[s].ids)
           /\ profile' = [n |-> profile.n + 1, content |-> run[s].form,
                          past |-> profile.past \cup run[s].form.facts]
           /\ run' = [run EXCEPT ![s].next = "end"] /\ UNCHANGED <<thread, result>>
  <2>1. StoreInv'
    BY <1>1, <1>3, SourcesGrow
  <2>2. /\ profile' \in [n : Nat, content : Form, past : SUBSET Docs]
        /\ profile'.content.facts \subseteq profile'.past
    BY <1>1, <1>3, GraphIs DEF Form
  <2>3. run' = [run EXCEPT ![s] = ended] /\ PagesTyped'
    BY <1>1, <1>3, <2>2, PagesAre DEF PagesTyped, histories
  <2> HIDE DEF ended
  <2>4. GraphInv'
    BY <1>1, <1>2, <1>3, <2>1, <2>3, GraphIs, GraphKept DEF StoreInv
  <2>5. QED
    BY <2>1, <2>4
<1>4. CASE /\ Works /\ run' = [run EXCEPT ![s].next = "end"]
           /\ UNCHANGED <<profile, sources, thread, result>>
  <2>1. StoreInv'
    BY <1>1, <1>4, StoreQuiet
  <2>2. run' = [run EXCEPT ![s] = ended] /\ PagesTyped'
    BY <1>1, <1>4, PagesStay
  <2> HIDE DEF ended
  <2>3. GraphInv'
    BY <1>1, <1>2, <1>4, <2>1, <2>2, GraphIs, GraphKept DEF StoreInv
  <2>4. QED
    BY <2>1, <2>3
<1>5. CASE Raised(s) /\ UNCHANGED <<profile, sources>> /\ (Works \/ Fault)
  <2>1. StoreInv'
    BY <1>1, <1>5, StoreQuiet
  <2>2. QED
    BY <1>1, <1>5, <2>1, RaisedKeeps DEF StoreInv
<1>6. QED
  BY <1>3, <1>4, <1>5 DEF Save

LEMMA FinishStep ==
  ASSUME StoreInv, GraphInv, NEW s \in Sessions, Finish(s)
  PROVE  StoreInv' /\ GraphInv'
<1>1. StoreInv'
  BY StoreQuiet DEF Finish
<1>2. UNCHANGED <<profile, page, approved, histories>>
  BY DEF Finish
<1>3. CASE Raised(s)
  BY <1>1, <1>2, <1>3, RaisedKeeps DEF StoreInv
<1>4. CASE thread' = run[s] /\ Returns(s, Over)
  <2>1. run' = [run EXCEPT ![s] = NoThread] /\ result' = [result EXCEPT ![s] = Over]
    BY <1>4 DEF Returns, Stop
  <2>2. PagesTyped'
    BY <1>2, <2>1, GraphIs, NoThreadIs, PagesAre, PagesTurn DEF histories, PagesTyped
  <2>3. GraphInv'
    BY <1>1, <1>2, <1>4, <2>1, <2>2, GraphIs, NoThreadIs, GraphKept DEF StoreInv
  <2>4. QED
    BY <1>1, <2>3
<1>5. QED
  BY <1>1, <1>3, <1>4 DEF Finish

LEMMA EditProfileStep ==
  ASSUME StoreInv, GraphInv, NEW s \in Sessions, EditProfile(s)
  PROVE  StoreInv' /\ GraphInv'
<1>1. StoreInv'
  BY StoreQuiet DEF EditProfile, storeVars, Works
<1>2. PICK form \in Form : form.facts \subseteq profile.past
                           /\ profile' = [profile EXCEPT !.n = @ + 1, !.content = form]
  BY DEF EditProfile
<1>3. /\ profile \in [n : Nat, content : Form, past : SUBSET Docs] /\ edits \in 0..MaxEdits
      /\ edits < MaxEdits /\ edits' = edits + 1
      /\ UNCHANGED <<thread, run, result, page, approved, missed, astray>>
  BY GraphIs DEF EditProfile
<1>4. /\ profile' \in [n : Nat, content : Form, past : SUBSET Docs]
      /\ profile'.content.facts \subseteq profile'.past
  <2>1. profile' = [n |-> profile.n + 1, content |-> form, past |-> profile.past]
    BY <1>2, <1>3
  <2>2. profile.n + 1 \in Nat /\ profile.past \in SUBSET Docs
    BY <1>3
  <2>3. QED
    BY <1>2, <2>1, <2>2
<1>5. edits' \in 0..MaxEdits
  BY <1>3, OnboardingBounds
<1>6. PagesTyped'
  BY <1>3, <1>4, <1>5, PagesAre DEF PagesTyped
<1>7. QED
  BY <1>1, <1>3, <1>6, ThreadStays DEF StoreInv

LEMMA DieStep ==
  ASSUME StoreInv, GraphInv, NEW s \in Sessions, Die(s)
  PROVE  StoreInv' /\ GraphInv'
<1>1. StoreInv'
  <2>1. faults' \in 0..MaxFaults
    BY StoreBounds DEF Die, Fault, StoreInv, StoreTypeOK
  <2>2. QED
    BY <2>1, AbandonedStep DEF Die
<1>2. /\ thread' = thread /\ run' = [run EXCEPT ![s] = NoThread] /\ UNCHANGED <<approved, profile, edits>>
      /\ result' = [result EXCEPT ![s] = Blank] /\ page' = [page EXCEPT ![s] = Blank]
      /\ missed' = missed \ {s} /\ UNCHANGED astray
  BY DEF Die, Returns, Show, Stop
<1>3. PagesTyped'
  BY <1>2, NoThreadIs, PagesAre, PagesTurn DEF PagesTyped
<1>4. GraphInv'
  BY <1>1, <1>2, <1>3, GraphIs, NoThreadIs, GraphKept DEF StoreInv
<1>5. QED
  BY <1>1, <1>4

\* The store acts, for the invocation or for the page, and the graph does not.
ShelfStep(s) ==
  \/ DeskStep(s)
  \/ /\ s \in Shelves /\ Stopped(s) /\ (StoreOnly(s) \/ \E d \in Docs : Delete(s, d))
     /\ UNCHANGED onboardingVars

LEMMA ShelfStepKeeps ==
  ASSUME StoreInv, GraphInv, NEW s \in Sessions, ShelfStep(s)
  PROVE  StoreInv' /\ GraphInv'
<1>1. StoreInv'
  BY StoreStepKeeps, StoreOnlyStep, DeleteStep DEF ShelfStep, DeskStep
<1>2. QED
  BY <1>1, GraphQuiet DEF ShelfStep, DeskStep, StoreInv

LEMMA StepKeeps ==
  ASSUME StoreInv, GraphInv, [Next]_vars
  PROVE  StoreInv' /\ GraphInv'
<1>1. CASE UNCHANGED vars
  <2>1. StoreInv'
    BY <1>1, StoreQuiet DEF vars, storeVars, Works
  <2>2. QED
    BY <1>1, <2>1, GraphQuiet DEF StoreInv, vars
<1>2. ASSUME NEW s \in Sessions, UserStep(s) \/ GraphStep(s) \/ DeskStep(s) \/ Die(s)
      PROVE  StoreInv' /\ GraphInv'
  <2>1. CASE UserStep(s)
    BY <2>1, AnalyzeStep, RestoreStep, AnswerStep, EditProfileStep, ShelfStepKeeps
    DEF UserStep, ShelfStep
  <2>2. CASE GraphStep(s)
    BY <2>2, StoredStep, ExtractStep, ProposeStep, ValidateStep, AskStep, SaveStep, FinishStep,
       ReturnStep
    DEF GraphStep
  <2>3. CASE DeskStep(s)
    BY <2>3, ShelfStepKeeps DEF ShelfStep
  <2>4. CASE Die(s)
    BY <2>4, DieStep
  <2>5. QED
    BY <1>2, <2>1, <2>2, <2>3, <2>4
<1>3. QED
  BY <1>1, <1>2 DEF Next

LEMMA Start == Init => StoreInv /\ GraphInv
<1> SUFFICES ASSUME Init PROVE StoreInv /\ GraphInv
  OBVIOUS
<1>1. StoreInv
  BY StoreStart DEF Init
<1>2. TypeOK
  <2>1. /\ profile \in [n : Nat, content : Form, past : SUBSET Docs]
        /\ profile.content.facts \subseteq profile.past
    BY NoFormIs DEF Init, NoForm
  <2>2. QED
    BY <1>1, <2>1, NoThreadIs, OnboardingBounds DEF Init, StoreInv, TypeOK
<1>3. QED
  BY <1>1, <1>2, NoThreadIs, FS_EmptySet DEF Init, GraphInv

LEMMA Kept == Spec => [](StoreInv /\ GraphInv)
<1>1. Init => StoreInv /\ GraphInv
  BY Start
<1>2. StoreInv /\ GraphInv /\ [Next]_vars => (StoreInv /\ GraphInv)'
  BY StepKeeps
<1>3. QED
  BY <1>1, <1>2, PTL DEF Spec

(***************************************************************************)
(* Theorems for every number of sessions and tabs.                         *)
(***************************************************************************)

\* The state of the store, of the thread, of every invocation and of every page
\* stays in its range: what a page shows has a question and a number.
THEOREM TypeCorrect == Spec => []TypeOK
<1>1. StoreInv /\ GraphInv => TypeOK
  BY DEF GraphInv
<1>2. QED
  BY <1>1, Kept, PTL

\* What the profile history names as a source stays on record with its
\* original, whatever the sessions upload, delete, undo and save in between,
\* whichever steps fail and whichever sessions die.
THEOREM SourcesKept == Spec => []SourcesAreKept
<1>1. StoreInv /\ GraphInv => SourcesAreKept
  BY DEF StoreInv
<1>2. QED
  BY <1>1, Kept, PTL

\* Only a complete form that was confirmed in the analysis that saves it becomes
\* the profile, unless the user edits it, from however many tabs it is answered.
SavesOnlyConfirmed ==
  profile' # profile /\ edits' = edits =>
    /\ Missing(profile'.content) = {}
    /\ \E s \in Sessions : [run |-> run[s].run, form |-> profile'.content] \in approved

LEMMA ProfileChanges ==
  ASSUME GraphInv, [Next]_vars, profile' # profile, edits' = edits
  PROVE  \E s \in Sessions :
           /\ Save(s) /\ Running(s, "save") /\ Works
           /\ Changes(run[s].form) /\ OwnedSources(run[s].ids)
           /\ profile'.n = profile.n + 1 /\ profile'.content = run[s].form
           /\ sources' = SourcesWith(run[s].ids)
<1>1. PICK s \in Sessions : Save(s) \/ EditProfile(s)
  BY DEF Next, UserStep, GraphStep, DeskStep, Die, Analyze, Restore, Answer, Stored, Extract,
         Propose, Validate, Ask, Finish, Return, vars, onboardingVars
<1>2. ~EditProfile(s)
  <2>1. edits \in Int
    BY GraphIs
  <2>2. EditProfile(s) => edits' = edits + 1
    BY DEF EditProfile
  <2>3. QED
    BY <2>1, <2>2
<1>3. QED
  BY <1>1, <1>2 DEF Save

THEOREM SavesConfirmed == Spec => [][SavesOnlyConfirmed]_vars
<1>1. StoreInv /\ GraphInv /\ [Next]_vars => [SavesOnlyConfirmed]_vars
  <2> SUFFICES ASSUME GraphInv, [Next]_vars, profile' # profile, edits' = edits
               PROVE  SavesOnlyConfirmed
    BY DEF SavesOnlyConfirmed
  <2>1. PICK s \in Sessions : Running(s, "save") /\ profile'.content = run[s].form
    BY ProfileChanges
  <2>2. SavesTheConfirmed(run[s])
    BY <2>1, GraphIs
  <2>3. QED
    BY <2>1, <2>2 DEF SavesOnlyConfirmed, SavesTheConfirmed, Running
<1>2. QED
  BY <1>1, Kept, PTL DEF Spec

(***************************************************************************)
(* One tab.                                                                *)
(***************************************************************************)

\* A step of the tab changes no other session's invocation, result or page.
LEMMA TabOnly ==
  ASSUME GraphInv, TabInv, NEW k \in Sessions, Tabs = {k}, NEW rn, NEW res, NEW pg,
         run' = [run EXCEPT ![k] = rn], result' = [result EXCEPT ![k] = res],
         page' = [page EXCEPT ![k] = pg]
  PROVE  run'[k] = rn /\ result'[k] = res /\ page'[k] = pg /\ OthersIdle'
<1>1. run \in [Sessions -> State] /\ result \in [Sessions -> Page] /\ page \in [Sessions -> Page]
  BY DEF GraphInv, TypeOK
<1>2. QED
  BY <1>1 DEF TabInv, OthersIdle

LEMMA TabRunsOnly ==
  ASSUME GraphInv, TabInv, NEW k \in Sessions, Tabs = {k}, NEW rn, NEW res,
         run' = [run EXCEPT ![k] = rn], result' = [result EXCEPT ![k] = res], UNCHANGED page
  PROVE  run'[k] = rn /\ result'[k] = res /\ page'[k] = page[k] /\ OthersIdle'
<1>1. run \in [Sessions -> State] /\ result \in [Sessions -> Page]
  BY DEF GraphInv, TypeOK
<1>2. QED
  BY <1>1 DEF TabInv, OthersIdle

\* What the tab knows.
LEMMA TabIs ==
  ASSUME GraphInv, TabInv, NEW k \in Sessions, Tabs = {k}
  PROVE  /\ run[k] # NoThread =>
              \/ run[k] = thread
              \/ thread.next = "save" /\ run[k] = [thread EXCEPT !.next = "end"]
         /\ thread.wait => run[k] = NoThread
         /\ result[k] # Blank => run[k] = NoThread
         /\ result[k].kind \in Asking => thread.wait /\ result[k] = Question
         /\ k \notin missed /\ thread.wait /\ result[k] = Blank /\ page[k].kind \in Asking =>
              page[k] = Question
         /\ page[k].kind \in Asking /\ thread.next # "none" /\ page[k].run = thread.run =>
              thread.next # "store" /\ page[k].form.facts \subseteq Known
         /\ thread.form.facts \subseteq Known
         /\ Blank.kind \notin Asking /\ Over.kind \notin Asking /\ Over # Blank
BY DEF TabInv, RunIsThread, WaitsWhenAsked, PageIsCurrent, FormsAreSourced, Asking, Blank, Over

\* Steps that leave the graph alone.
LEMMA TabQuiet ==
  ASSUME TabInv, UNCHANGED <<onboardingVars, sources>>
  PROVE  TabInv'
BY DEF TabInv, OthersIdle, RunIsThread, WaitsWhenAsked, PageIsCurrent, FormsAreSourced, Known,
       Question, VersionsAreConfirmed, onboardingVars, histories

\* An edit of the profile gives one version more, and a thread another one to spare.
LEMMA TabEditStep ==
  ASSUME GraphInv, TabInv, NEW s \in Sessions, EditProfile(s)
  PROVE  TabInv'
<1>1. /\ UNCHANGED <<thread, run, result, page, approved, missed, astray, sources>>
      /\ edits' = edits + 1
  BY DEF EditProfile, storeVars
<1>2. profile'.n = profile.n + 1 /\ profile'.past = profile.past
  BY GraphIs DEF EditProfile
<1>3. profile.n \in Nat /\ edits \in Nat /\ Cardinality(approved) \in Nat
  BY GraphIs, OnboardingBounds, FS_CardinalityType DEF GraphInv
<1>4. OthersIdle' /\ RunIsThread' /\ WaitsWhenAsked' /\ PageIsCurrent'
  BY <1>1 DEF TabInv, OthersIdle, RunIsThread, WaitsWhenAsked, PageIsCurrent, Question
<1>5. FormsAreSourced'
  BY <1>1, <1>2 DEF TabInv, FormsAreSourced, Known
<1>6. VersionsAreConfirmed'
  BY <1>1, <1>2, <1>3 DEF TabInv, VersionsAreConfirmed
<1>7. QED
  BY <1>4, <1>5, <1>6 DEF TabInv

\* A session other than the tab has nothing to run.
LEMMA OtherStep ==
  ASSUME GraphInv, TabInv, NEW k \in Sessions, Tabs = {k}, NEW s \in Sessions, s # k,
         UserStep(s) \/ GraphStep(s) \/ Die(s)
  PROVE  TabInv'
<1>1. s \notin Tabs /\ run[s] = NoThread /\ result[s] = Blank /\ page[s] = Blank
  BY DEF TabInv, OthersIdle
<1>2. CASE EditProfile(s)
  BY <1>2, TabEditStep
<1>3. CASE UserStep(s) /\ ~EditProfile(s)
  <2>1. UNCHANGED <<onboardingVars, sources>>
    BY <1>1, <1>3 DEF UserStep, Restore, Answer, StoreOnly, Delete
  <2>2. QED
    BY <2>1, TabQuiet
<1>4. CASE GraphStep(s)
  BY <1>1, <1>4 DEF GraphStep, Stored, Extract, Propose, Validate, Ask, Save, Finish, Return,
                    Running, Node, NoThread
<1>5. CASE Die(s)
  <2>1. run \in [Sessions -> State] /\ result \in [Sessions -> Page] /\ page \in [Sessions -> Page]
    BY DEF GraphInv, TypeOK
  <2>2. UNCHANGED <<profile, thread, run, result, page, approved, astray, edits, sources>>
    BY <1>1, <1>5, <2>1 DEF Die, Returns, Stop, Show
  <2>3. missed' = missed \ {s}
    BY <1>5 DEF Die, Show
  <2>4. OthersIdle' /\ RunIsThread' /\ WaitsWhenAsked'
    BY <2>2 DEF TabInv, OthersIdle, RunIsThread, WaitsWhenAsked, Question
  <2>5. PageIsCurrent'
    BY <1>1, <2>2, <2>3 DEF TabInv, PageIsCurrent, Question
  <2>6. FormsAreSourced' /\ VersionsAreConfirmed'
    BY <2>2 DEF TabInv, FormsAreSourced, Known, VersionsAreConfirmed
  <2>7. QED
    BY <2>4, <2>5, <2>6 DEF TabInv
<1>6. QED
  BY <1>2, <1>3, <1>4, <1>5

\* The tab's invocation ends with an exception, or the tab dies.
LEMMA TabStops ==
  ASSUME GraphInv, TabInv, NEW k \in Sessions, Tabs = {k}, NEW pg,
         run' = [run EXCEPT ![k] = NoThread], page' = [page EXCEPT ![k] = pg],
         \/ pg = Blank /\ result' = [result EXCEPT ![k] = Blank]
         \/ pg = page[k] /\ UNCHANGED <<result, missed>> /\ ~thread.wait,
         UNCHANGED <<profile, thread, approved, astray, edits, sources>>
  PROVE  TabInv'
<1>1. \E res \in {Blank, result[k]} :
        /\ result' = [result EXCEPT ![k] = res]
        /\ \/ res = Blank /\ pg = Blank
           \/ pg = page[k] /\ missed' = missed /\ ~thread.wait
  BY GraphIs
<1>2. PICK res \in {Blank, result[k]} :
        /\ result' = [result EXCEPT ![k] = res]
        /\ \/ res = Blank /\ pg = Blank
           \/ pg = page[k] /\ missed' = missed /\ ~thread.wait
  BY <1>1
<1>3. run'[k] = NoThread /\ result'[k] = res /\ page'[k] = pg /\ OthersIdle'
  BY <1>2, TabOnly
<1>4. Question' = Question /\ Known' = Known
  BY DEF Question, Known
<1>5. RunIsThread' /\ WaitsWhenAsked'
  BY <1>3, <1>4, TabIs DEF RunIsThread, WaitsWhenAsked
<1>6. PageIsCurrent'
  BY <1>2, <1>3, TabIs DEF PageIsCurrent, Asking
<1>7. FormsAreSourced'
  BY <1>2, <1>3, <1>4, TabIs DEF TabInv, FormsAreSourced
<1>8. VersionsAreConfirmed'
  BY DEF TabInv, VersionsAreConfirmed
<1>9. QED
  BY <1>3, <1>5, <1>6, <1>7, <1>8 DEF TabInv

\* A node before the answers is done.
LEMMA TabGoesOn ==
  ASSUME GraphInv, TabInv, NEW k \in Sessions, Tabs = {k}, NEW st \in State, Checkpoint(k, st),
         ~st.wait, st.next \in Unanswered, \A a \in approved : a.run # st.run,
         st.form.facts \subseteq sources \cup astray \cup ToSet(st.ids),
         st.next = "store" => st.form.facts \subseteq sources \cup astray,
         page[k].kind \in Asking /\ page[k].run = st.run =>
           st.next # "store" /\ page[k].form.facts \subseteq sources \cup astray \cup ToSet(st.ids),
         result[k] = Blank,
         UNCHANGED <<profile, result, page, approved, histories, sources>>
  PROVE  TabInv'
<1>1. /\ thread' = st /\ run' = [run EXCEPT ![k] = st]
      /\ result' = [result EXCEPT ![k] = Blank] /\ UNCHANGED page
      /\ UNCHANGED <<missed, astray, edits>>
  BY GraphIs DEF Checkpoint, histories
<1>2. run'[k] = st /\ result'[k] = Blank /\ page'[k] = page[k] /\ OthersIdle'
  BY <1>1, TabRunsOnly
<1>3. st # NoThread /\ Blank.kind \notin Asking
  BY TabIs DEF Unanswered, NoThread
<1>4. RunIsThread' /\ WaitsWhenAsked' /\ PageIsCurrent'
  BY <1>1, <1>2, <1>3 DEF RunIsThread, WaitsWhenAsked, PageIsCurrent
<1>5. FormsAreSourced'
  BY <1>1, <1>2 DEF TabInv, FormsAreSourced, Known
<1>6. st.next # "save"
  BY DEF Unanswered
<1>7. VersionsAreConfirmed'
  BY <1>1, <1>6 DEF TabInv, VersionsAreConfirmed
<1>8. QED
  BY <1>2, <1>4, <1>5, <1>7 DEF TabInv

LEMMA TabAnalyzeStep ==
  ASSUME StoreInv, GraphInv, TabInv, NEW k \in Sessions, Tabs = {k}, Analyze(k)
  PROVE  TabInv'
<1>1. run[k] = NoThread /\ UNCHANGED <<sources, profile, result, page, approved, histories>>
      /\ result[k] = Blank /\ Blank.kind \notin Asking
  BY DEF Analyze, Stopped, Blank, Asking
<1>2. /\ NoThread.next = "none" /\ ~NoThread.wait /\ NoThread.form.facts = {}
      /\ NoThread.ids = <<>> /\ NoThread.run = 0
  BY DEF NoThread, NoForm
<1>3. CASE thread' = NoThread /\ UNCHANGED run
  <2>1. OthersIdle' /\ RunIsThread' /\ WaitsWhenAsked' /\ PageIsCurrent'
    BY <1>1, <1>2, <1>3
    DEF TabInv, OthersIdle, RunIsThread, WaitsWhenAsked, PageIsCurrent, Asking, histories
  <2>2. FormsAreSourced'
    BY <1>1, <1>2, <1>3 DEF TabInv, FormsAreSourced, histories
  <2>3. VersionsAreConfirmed'
    BY <1>1, <1>2, <1>3 DEF TabInv, VersionsAreConfirmed, Unanswered, histories
  <2>4. QED
    BY <2>1, <2>2, <2>3 DEF TabInv
<1> DEFINE st == [NoThread EXCEPT !.run = LastRun + 1, !.next = "store", !.form = profile.content]
<1>4. CASE Checkpoint(k, st)
  <2>1. /\ LastRun + 1 \in 0..MaxRuns
        /\ \A a \in approved : a.run \in 1..MaxRuns /\ a.run <= LastRun
        /\ page[k].run \in 0..MaxRuns /\ page[k].run <= LastRun
    <3>1. \A a \in approved : a.run \in 1..MaxRuns /\ a.run \in Runs
      BY DEF GraphInv, TypeOK, Runs
    <3>2. page[k].run \in 0..MaxRuns /\ page[k].run \in Runs
      BY GraphIs DEF Page, Runs
    <3>3. QED
      BY <3>1, <3>2, LastRunIs, OnboardingBounds DEF Analyze, GraphInv
  <2>2. profile.content \in Form /\ profile.content.facts \subseteq sources \cup astray
    BY GraphIs DEF TabInv, FormsAreSourced
  <2>3. /\ st \in State /\ st.next = "store" /\ ~st.wait /\ st.run = LastRun + 1
        /\ st.form = profile.content
    BY <1>2, <2>1, <2>2, NoThreadIs DEF State, Nodes
  <2> HIDE DEF st
  <2>4. (\A a \in approved : a.run # st.run) /\ page[k].run # st.run
    BY <2>1, <2>3, LastRunIs, OnboardingBounds DEF GraphInv
  <2>5. QED
    BY <1>1, <1>4, <2>2, <2>3, <2>4, TabGoesOn DEF Unanswered
<1>5. QED
  BY <1>3, <1>4 DEF Analyze

\* An invocation at a node before the end works on the thread.
LEMMA TabRuns ==
  ASSUME GraphInv, TabInv, NEW k \in Sessions, Tabs = {k}, run[k].next \notin {"none", "end"}
  PROVE  run[k] = thread /\ run[k] \in State /\ ~thread.wait
<1>1. run[k] # NoThread /\ thread \in State
  BY GraphIs DEF NoThread
<1>2. run[k] # [thread EXCEPT !.next = "end"]
  BY <1>1 DEF State
<1>3. QED
  BY <1>1, <1>2, TabIs, GraphIs

LEMMA TabRaises ==
  ASSUME GraphInv, TabInv, NEW k \in Sessions, Tabs = {k}, Raised(k),
         run[k].next \notin {"none", "end"},
         UNCHANGED <<profile, page, approved, histories, sources>>
  PROVE  TabInv'
<1>1. /\ run' = [run EXCEPT ![k] = NoThread] /\ page' = [page EXCEPT ![k] = page[k]]
      /\ UNCHANGED <<thread, result, missed, astray, edits>>
  BY GraphIs DEF Raised, Stop, histories
<1>2. ~thread.wait
  BY TabRuns
<1>3. QED
  BY <1>1, <1>2, TabStops

LEMMA TabWorksStep ==
  ASSUME StoreInv, GraphInv, TabInv, NEW k \in Sessions, Tabs = {k},
         Stored(k) \/ Extract(k) \/ Propose(k) \/ Validate(k)
  PROVE  TabInv'
<1>1. /\ run[k].next \in {"store", "extract", "model", "validate"}
      /\ UNCHANGED <<profile, page, approved, histories, sources>>
  BY DEF Stored, Extract, Propose, Validate, Running, storeVars
<1>2. /\ run[k] = thread /\ run[k] \in State /\ ~run[k].wait
      /\ run[k].form \in Form /\ run[k].ids \in Seq(Docs) /\ result[k] = Blank
  BY <1>1, TabRuns, TabIs DEF State, NoThread
<1>3. /\ \A a \in approved : a.run # run[k].run
      /\ run[k].form.facts \subseteq sources \cup astray \cup ToSet(run[k].ids)
      /\ run[k].next = "store" => run[k].form.facts \subseteq sources \cup astray
      /\ page[k].kind \in Asking /\ page[k].run = run[k].run =>
           /\ run[k].next # "store"
           /\ page[k].form.facts \subseteq sources \cup astray \cup ToSet(run[k].ids)
  BY <1>1, <1>2 DEF TabInv, VersionsAreConfirmed, FormsAreSourced, Known, Unanswered
<1>4. CASE Raised(k)
  BY <1>1, <1>4, TabRaises DEF Asking
<1>5. CASE Stored(k) /\ ~Raised(k)
  <2> DEFINE st == [run[k] EXCEPT !.next = "extract", !.ids = desk[k].done]
  <2>1. desk[k].done \in Seq(Docs)
    BY DEF StoreInv, StoreTypeOK, Desks
  <2>2. /\ st \in State /\ st.next = "extract" /\ ~st.wait /\ st.run = run[k].run
        /\ st.form = run[k].form
    BY <1>2, <2>1 DEF State, Nodes
  <2>3. Checkpoint(k, st) /\ UNCHANGED result /\ run[k].next = "store"
    BY <1>5 DEF Stored, Running
  <2> HIDE DEF st
  <2>4. QED
    BY <1>1, <1>2, <1>3, <2>2, <2>3, TabGoesOn DEF Unanswered
<1>6. CASE Extract(k) /\ ~Raised(k)
  <2> DEFINE st == [run[k] EXCEPT !.next = "model"]
  <2>1. /\ st \in State /\ st.next = "model" /\ ~st.wait /\ st.run = run[k].run
        /\ st.form = run[k].form /\ st.ids = run[k].ids
    BY <1>2 DEF State, Nodes
  <2>2. CASE Checkpoint(k, st) /\ UNCHANGED result
    <3> HIDE DEF st
    <3>1. QED
      BY <1>1, <1>2, <1>3, <2>1, <2>2, TabGoesOn DEF Unanswered
  <2>3. CASE UNCHANGED <<thread, run, result>>
    <3>1. UNCHANGED <<onboardingVars, sources>>
      BY <1>1, <1>6, <2>3 DEF Extract, onboardingVars, histories
    <3>2. QED
      BY <3>1, TabQuiet
  <2>4. QED
    BY <1>6, <2>2, <2>3 DEF Extract
<1>7. CASE Propose(k) /\ ~Raised(k)
  <2>1. PICK fields \in Fields :
          Checkpoint(k, [run[k] EXCEPT !.next = "validate",
                           !.form = Merged(@, [facts |-> ToSet(run[k].ids), fields |-> fields])])
    BY <1>7 DEF Propose
  <2> DEFINE extracted == [facts |-> ToSet(run[k].ids), fields |-> fields]
             form == Merged(run[k].form, extracted)
             st   == [run[k] EXCEPT !.next = "validate", !.form = form]
  <2>2. ToSet(run[k].ids) \subseteq Docs
    BY <1>2 DEF ToSet
  <2>3. extracted \in Form
    BY <2>2 DEF Form
  <2>4. form \in Form /\ form.facts = run[k].form.facts \cup ToSet(run[k].ids)
    BY <1>2, <2>3, MergedIs
  <2>5. Checkpoint(k, st)
    BY <2>1
  <2> HIDE DEF form
  <2>6. /\ st \in State /\ st.next = "validate" /\ ~st.wait /\ st.run = run[k].run
        /\ st.form = form /\ st.ids = run[k].ids
    BY <1>2, <2>4 DEF State, Nodes
  <2>7. UNCHANGED result
    BY <1>7 DEF Propose
  <2> HIDE DEF st
  <2>8. QED
    BY <1>1, <1>2, <1>3, <2>4, <2>5, <2>6, <2>7, TabGoesOn DEF Unanswered
<1>8. CASE Validate(k)
  <2> DEFINE next == IF Missing(run[k].form) # {} THEN "collect" ELSE "confirm"
             st   == [run[k] EXCEPT !.next = next]
  <2>1. next \in {"collect", "confirm"}
    OBVIOUS
  <2>2. Checkpoint(k, st) /\ UNCHANGED result
    BY <1>8 DEF Validate
  <2> HIDE DEF next
  <2>3. /\ st \in State /\ st.next \in {"collect", "confirm"} /\ ~st.wait /\ st.run = run[k].run
        /\ st.form = run[k].form /\ st.ids = run[k].ids
    BY <1>2, <2>1 DEF State, Nodes
  <2> HIDE DEF st
  <2>4. QED
    BY <1>1, <1>2, <1>3, <2>2, <2>3, TabGoesOn DEF Unanswered
<1>9. QED
  BY <1>4, <1>5, <1>6, <1>7, <1>8

LEMMA TabAskStep ==
  ASSUME GraphInv, TabInv, NEW k \in Sessions, Tabs = {k}, Ask(k)
  PROVE  TabInv'
<1> DEFINE st  == [run[k] EXCEPT !.wait = TRUE]
           res == [kind |-> run[k].next, run |-> run[k].run, form |-> run[k].form]
<1>1. /\ run[k].next \in Asking
      /\ UNCHANGED <<sources, profile, approved, missed, astray, edits>> /\ UNCHANGED page
  BY DEF Ask, Node, Asking, storeVars, histories
<1>2. run[k] = thread /\ run[k] \in State
  BY <1>1, TabRuns DEF Asking
<1>3. /\ st.wait /\ st.next = thread.next /\ st.run = thread.run /\ st.form = thread.form
      /\ st.ids = thread.ids /\ thread' = st
      /\ run' = [run EXCEPT ![k] = NoThread] /\ result' = [result EXCEPT ![k] = res]
      /\ res = [kind |-> thread.next, run |-> thread.run, form |-> thread.form]
  BY <1>1, <1>2, GraphIs DEF State, Ask, Returns, Stop
<1>4. res = Question' /\ res.kind \in Asking
  BY <1>1, <1>3 DEF Question
<1> HIDE DEF st, res
<1>5. run'[k] = NoThread /\ result'[k] = res /\ page'[k] = page[k] /\ OthersIdle'
  <2>1. run' = [run EXCEPT ![k] = NoThread]
    BY <1>3
  <2>2. result' = [result EXCEPT ![k] = res]
    BY <1>3
  <2>3. UNCHANGED page
    BY <1>1
  <2>4. QED
    BY <2>1, <2>2, <2>3, TabRunsOnly
<1>6. RunIsThread' /\ WaitsWhenAsked' /\ PageIsCurrent'
  BY <1>3, <1>4, <1>5, TabIs DEF RunIsThread, WaitsWhenAsked, PageIsCurrent
<1>7. FormsAreSourced' /\ VersionsAreConfirmed'
  BY <1>1, <1>2, <1>3, <1>5 DEF TabInv, FormsAreSourced, Known, VersionsAreConfirmed
<1>8. QED
  BY <1>5, <1>6, <1>7 DEF TabInv

\* The question of the thread is on the page, or the page stays behind.
LEMMA TabReturnStep ==
  ASSUME GraphInv, TabInv, NEW k \in Sessions, Tabs = {k}, Return(k)
  PROVE  TabInv'
<1>1. /\ UNCHANGED <<sources, profile, thread, run, approved, astray, edits>> /\ result[k] # Blank
      /\ run' = [run EXCEPT ![k] = run[k]] /\ result' = [result EXCEPT ![k] = Blank]
  BY GraphIs DEF Return
<1>2. \E pg \in {result[k], page[k]} :
        /\ page' = [page EXCEPT ![k] = pg]
        /\ \/ pg = result[k]
           \/ pg = page[k] /\ k \in missed'
  BY GraphIs DEF Return, Show
<1>3. PICK pg \in {result[k], page[k]} :
        /\ page' = [page EXCEPT ![k] = pg]
        /\ \/ pg = result[k]
           \/ pg = page[k] /\ k \in missed'
  BY <1>2
<1>4. run'[k] = run[k] /\ result'[k] = Blank /\ page'[k] = pg /\ OthersIdle'
  BY <1>1, <1>3, TabOnly
<1>5. Question' = Question /\ Known' = Known
  BY <1>1 DEF Question, Known
<1>6. RunIsThread' /\ WaitsWhenAsked'
  BY <1>1, <1>4, <1>5, TabIs DEF RunIsThread, WaitsWhenAsked
<1>7. PageIsCurrent'
  BY <1>1, <1>3, <1>4, <1>5, TabIs DEF PageIsCurrent, Asking
<1>8. FormsAreSourced'
  <2>1. Question.form = thread.form /\ (thread.wait => thread.next # "store")
    BY GraphIs DEF Question, Sound, Asking
  <2>2. QED
    BY <1>1, <1>3, <1>4, <1>5, <2>1, TabIs DEF TabInv, FormsAreSourced
<1>9. VersionsAreConfirmed'
  BY <1>1 DEF TabInv, VersionsAreConfirmed
<1>10. QED
  BY <1>4, <1>6, <1>7, <1>8, <1>9 DEF TabInv

LEMMA TabRestoreStep ==
  ASSUME GraphInv, TabInv, NEW k \in Sessions, Tabs = {k}, Restore(k)
  PROVE  TabInv'
<1>1. /\ run' = [run EXCEPT ![k] = run[k]] /\ result' = [result EXCEPT ![k] = result[k]]
      /\ page' = [page EXCEPT ![k] = Question]
      /\ UNCHANGED <<sources, profile, thread, run, result, approved, astray, edits>> /\ thread.wait
  BY GraphIs DEF Restore, Show, storeVars
<1>2. run'[k] = run[k] /\ result'[k] = result[k] /\ page'[k] = Question /\ OthersIdle'
  BY <1>1, TabOnly
<1>3. Question' = Question /\ Known' = Known /\ Question.form = thread.form
  BY <1>1 DEF Question, Known
<1>4. RunIsThread' /\ WaitsWhenAsked' /\ PageIsCurrent'
  BY <1>1, <1>2, <1>3 DEF TabInv, RunIsThread, WaitsWhenAsked, PageIsCurrent
<1>5. FormsAreSourced'
  <2>1. thread.next # "store"
    BY <1>1, GraphIs DEF Sound, Asking
  <2>2. QED
    BY <1>1, <1>2, <1>3, <2>1, TabIs DEF TabInv, FormsAreSourced
<1>6. VersionsAreConfirmed'
  BY <1>1 DEF TabInv, VersionsAreConfirmed
<1>7. QED
  BY <1>2, <1>4, <1>5, <1>6 DEF TabInv

\* An answer to the question of this analysis names facts of this analysis; the documents
\* of another one are on record as astray.  Its confirmation is a new one.
LEMMA TabAnswerStep ==
  ASSUME GraphInv, TabInv, NEW k \in Sessions, Tabs = {k}, Answer(k)
  PROVE  TabInv'
<1>1. /\ run[k] = NoThread /\ result[k] = Blank
      /\ UNCHANGED <<sources, profile, page, missed, edits>>
  BY DEF Answer, Stopped, storeVars
<1>2. PICK reply \in Replies(page[k]) :
        /\ thread.next \notin {"none", "store", "extract"}
        /\ IF Taken(k, reply).next \in {"none", "end"} THEN Returns(k, Over)
           ELSE run' = [run EXCEPT ![k] = Taken(k, reply)] /\ UNCHANGED result
        /\ thread' = IF Taken(k, reply) = NoThread THEN thread ELSE Taken(k, reply)
        /\ approved' = IF thread.next = "confirm" /\ Taken(k, reply).confirmed
                       THEN approved \cup {[run |-> thread.run, form |-> Taken(k, reply).form]}
                       ELSE approved
        /\ astray' = IF thread.next = "confirm" /\ reply.kind = "confirm" /\ page[k].run # thread.run
                     THEN astray \cup reply.form.facts ELSE astray
  BY AnswerIs
<1> DEFINE taken == Taken(k, reply)
           over  == taken.next \in {"none", "end"}
           rn    == IF over THEN NoThread ELSE taken
           res   == IF over THEN Over ELSE Blank
<1>3. /\ taken \in State /\ ~taken.wait
      /\ \/ /\ thread.next = "collect" /\ taken.next = "validate"
            /\ taken.run = thread.run /\ taken.ids = thread.ids
            /\ taken.form.facts = thread.form.facts
         \/ /\ thread.next = "confirm" /\ taken.next \in {"save", "confirm", "end"}
            /\ taken.run = thread.run /\ taken.ids = thread.ids
            /\ taken.form = IF reply.kind = "confirm" THEN reply.form ELSE thread.form
            /\ taken.confirmed = (taken.next = "save")
         \/ thread.next \in {"model", "validate", "save"} /\ taken = thread
         \/ thread.next = "end" /\ taken = NoThread
  BY <1>2, TakenIs
<1>4. NoThread.next = "none" /\ ~NoThread.wait
  BY DEF NoThread
<1>5. /\ page[k].kind \in Asking
      /\ thread.next = "confirm" /\ reply.kind = "confirm" =>
           reply.form.facts \subseteq sources \cup astray' \cup ToSet(thread.ids)
      /\ astray \subseteq astray'
  <2>1. page[k] \in Page
    BY GraphIs
  <2>2. page[k].kind \in Asking /\ reply.form.facts \subseteq page[k].form.facts
    BY <2>1, RepliesAre
  <2>3. page[k].run = thread.run => page[k].form.facts \subseteq Known
    BY <1>2, <2>2, TabIs
  <2>4. QED
    BY <1>2, <2>2, <2>3 DEF Known
<1>6. /\ thread' = IF taken = NoThread THEN thread ELSE taken
      /\ run' = [run EXCEPT ![k] = rn] /\ result' = [result EXCEPT ![k] = res]
      /\ page' = [page EXCEPT ![k] = page[k]]
  BY <1>1, <1>2, GraphIs DEF Returns, Stop
<1>7. run'[k] = rn /\ result'[k] = res /\ page'[k] = page[k] /\ OthersIdle'
  BY <1>6, TabOnly
<1>8. approved' = approved \/ approved' = approved \cup {[run |-> thread.run, form |-> taken.form]}
  BY <1>2
<1>9. thread.next # "save" \/ taken = thread
  BY <1>3
<1>10. ~thread'.wait
  <2>1. Sound(thread)
    BY GraphIs
  <2>2. taken = NoThread => thread.next = "end" \/ thread = NoThread
    BY <1>2, <1>3, <1>4
  <2>3. thread.wait => taken # NoThread
    BY <1>4, <2>1, <2>2 DEF Sound, Asking
  <2>4. QED
    BY <1>3, <1>6, <2>3
<1> HIDE DEF taken
<1>11. RunIsThread'
  BY <1>4, <1>6, <1>7 DEF RunIsThread
<1>12. WaitsWhenAsked' /\ PageIsCurrent'
  <2>1. res = Blank \/ (res = Over /\ rn = NoThread)
    OBVIOUS
  <2>2. QED
    BY <1>7, <1>10, <2>1, TabIs DEF WaitsWhenAsked, PageIsCurrent
<1>13. FormsAreSourced'
  <2>1. thread'.run = thread.run /\ thread'.ids = thread.ids /\ thread'.next # "store"
    BY <1>2, <1>3, <1>6
  <2>2. Known \subseteq Known' /\ Known' = sources \cup astray' \cup ToSet(thread.ids)
    BY <1>1, <1>5, <2>1 DEF Known
  <2>3. thread'.form.facts \subseteq Known'
    BY <1>3, <1>5, <1>6, <2>2, TabIs DEF Asking
  <2>4. profile'.past \subseteq sources' \cup astray'
    BY <1>1, <1>5 DEF TabInv, FormsAreSourced
  <2>5. page[k].kind \in Asking /\ page[k].run = thread.run => page[k].form.facts \subseteq Known
    BY <1>2, TabIs
  <2>6. QED
    BY <1>7, <2>1, <2>2, <2>3, <2>4, <2>5 DEF FormsAreSourced
<1>14. VersionsAreConfirmed'
  <2>1. CASE thread.next = "confirm" /\ taken.next = "save"
    <3> DEFINE more == [run |-> thread.run, form |-> taken.form]
    <3>1. approved' = approved \cup {more} /\ more \notin approved
      BY <1>2, <1>3, <2>1 DEF TabInv, VersionsAreConfirmed, Unanswered, taken
    <3>2. IsFiniteSet(approved)
      BY DEF GraphInv
    <3> HIDE DEF more
    <3>3. Cardinality(approved') = Cardinality(approved) + 1 /\ Cardinality(approved) \in Nat
      BY <3>1, <3>2, FS_AddElement, FS_CardinalityType
    <3>4. profile.n \in Nat /\ edits \in Nat
      BY GraphIs, OnboardingBounds
    <3>5. thread'.next = "save"
      BY <1>4, <1>6, <2>1
    <3>6. QED
      BY <1>1, <3>3, <3>4, <3>5 DEF TabInv, VersionsAreConfirmed, Unanswered
  <2>2. CASE thread.next # "confirm" \/ taken.next # "save"
    <3>1. approved' = approved
      BY <1>2, <1>3, <2>2 DEF taken
    <3>2. QED
      BY <1>1, <1>3, <1>6, <2>2, <3>1 DEF TabInv, VersionsAreConfirmed, Unanswered
  <2>3. QED
    BY <2>1, <2>2
<1>15. QED
  BY <1>7, <1>11, <1>12, <1>13, <1>14 DEF TabInv

LEMMA TabSaveStep ==
  ASSUME StoreInv, GraphInv, TabInv, NEW k \in Sessions, Tabs = {k}, Save(k)
  PROVE  TabInv'
<1> DEFINE ended == [run[k] EXCEPT !.next = "end"]
           spare == Cardinality(approved) + 2 * edits
<1>1. run[k].next = "save" /\ UNCHANGED <<page, approved, histories>>
      /\ UNCHANGED <<missed, astray, edits>>
  BY DEF Save, Running, histories
<1>2. /\ run[k] = thread /\ thread \in State /\ ~thread.wait /\ profile.n \in Nat
      /\ run[k] # NoThread /\ result[k] = Blank
  BY <1>1, TabRuns, TabIs, GraphIs DEF NoThread
<1>3. CASE Raised(k) /\ UNCHANGED <<profile, sources>>
  BY <1>1, <1>3, TabRaises
<1>4. CASE /\ run' = [run EXCEPT ![k].next = "end"] /\ UNCHANGED <<thread, result>>
           /\ profile'.content = thread.form /\ sources \subseteq sources'
           /\ profile'.past \subseteq sources' \cup astray /\ profile'.n <= spare
  <2>1. /\ run' = [run EXCEPT ![k] = ended] /\ page' = [page EXCEPT ![k] = page[k]]
        /\ result' = [result EXCEPT ![k] = result[k]]
    BY <1>1, <1>4, GraphIs
  <2>2. run'[k] = ended /\ result'[k] = Blank /\ page'[k] = page[k] /\ OthersIdle'
    BY <1>2, <2>1, TabOnly
  <2>3. RunIsThread' /\ WaitsWhenAsked' /\ PageIsCurrent'
    BY <1>1, <1>2, <1>4, <2>2, TabIs DEF RunIsThread, WaitsWhenAsked, PageIsCurrent
  <2>4. FormsAreSourced'
    <3>1. Known \subseteq Known' /\ thread.next # "store"
      BY <1>1, <1>2, <1>4 DEF Known
    <3>2. QED
      BY <1>1, <1>4, <2>2, <3>1, TabIs DEF FormsAreSourced
  <2>5. VersionsAreConfirmed'
    BY <1>1, <1>2, <1>4 DEF TabInv, VersionsAreConfirmed, Unanswered
  <2>6. QED
    BY <2>2, <2>3, <2>4, <2>5 DEF TabInv
<1>5. /\ thread.form.facts \subseteq Known /\ profile.past \subseteq sources \cup astray
      /\ profile.n <= spare /\ spare \in Nat
      /\ thread.form # profile.content => profile.n < spare
  <2>1. Cardinality(approved) \in Nat /\ edits \in Nat
    BY GraphIs, OnboardingBounds, FS_CardinalityType DEF GraphInv
  <2>2. QED
    BY <1>1, <1>2, <2>1, TabIs DEF TabInv, FormsAreSourced, VersionsAreConfirmed
<1> HIDE DEF spare
<1>6. CASE /\ Changes(run[k].form) /\ sources' = SourcesWith(run[k].ids)
           /\ profile' = [n |-> profile.n + 1, content |-> run[k].form,
                          past |-> profile.past \cup run[k].form.facts]
           /\ run' = [run EXCEPT ![k].next = "end"] /\ UNCHANGED <<thread, result>>
  <2>1. profile.n + 1 <= spare
    BY <1>2, <1>5, <1>6 DEF Changes
  <2>2. QED
    BY <1>2, <1>4, <1>5, <1>6, <2>1 DEF SourcesWith, Known
<1>7. CASE /\ ~Changes(run[k].form) /\ UNCHANGED <<profile, sources, thread, result>>
           /\ run' = [run EXCEPT ![k].next = "end"]
  BY <1>2, <1>4, <1>5, <1>7 DEF Changes
<1>8. QED
  BY <1>3, <1>6, <1>7 DEF Save

LEMMA TabFinishStep ==
  ASSUME GraphInv, TabInv, NEW k \in Sessions, Tabs = {k}, Finish(k)
  PROVE  TabInv'
<1>1. /\ run[k].next = "end"
      /\ UNCHANGED <<profile, page, approved, missed, astray, edits, sources>>
  BY DEF Finish, Running, histories
<1>2. /\ thread \in State /\ run[k] \in State /\ ~run[k].wait /\ run[k] # NoThread
      /\ thread.next \notin Asking /\ thread.next \notin {"none", "store"}
      /\ run[k].form = thread.form /\ run[k].ids = thread.ids /\ run[k].run = thread.run
  <2>1. thread \in State /\ run[k] \in State /\ ~run[k].wait /\ run[k] # NoThread
    BY <1>1, GraphIs DEF Sound, Asking, NoThread
  <2>2. QED
    BY <1>1, <2>1, TabIs DEF Asking, State
<1>3. CASE Raised(k)
  <2>1. /\ run' = [run EXCEPT ![k] = NoThread] /\ page' = [page EXCEPT ![k] = page[k]]
        /\ UNCHANGED <<thread, result>>
    BY <1>1, <1>3, GraphIs DEF Raised, Stop
  <2>2. ~thread.wait
    BY <1>2, TabIs
  <2>3. QED
    BY <1>1, <2>1, <2>2, TabStops
<1>4. CASE thread' = run[k] /\ Returns(k, Over)
  <2>1. /\ run' = [run EXCEPT ![k] = NoThread] /\ result' = [result EXCEPT ![k] = Over]
        /\ page' = [page EXCEPT ![k] = page[k]]
    BY <1>1, <1>4, GraphIs DEF Returns, Stop
  <2>2. run'[k] = NoThread /\ result'[k] = Over /\ page'[k] = page[k] /\ OthersIdle'
    BY <2>1, TabOnly
  <2>3. RunIsThread' /\ WaitsWhenAsked' /\ PageIsCurrent'
    BY <1>2, <1>4, <2>2, TabIs DEF RunIsThread, WaitsWhenAsked, PageIsCurrent
  <2>4. FormsAreSourced'
    BY <1>1, <1>2, <1>4, <2>2, TabIs DEF TabInv, FormsAreSourced, Known
  <2>5. VersionsAreConfirmed'
    BY <1>1, <1>2, <1>4 DEF TabInv, VersionsAreConfirmed, Unanswered
  <2>6. QED
    BY <2>2, <2>3, <2>4, <2>5 DEF TabInv
<1>5. QED
  BY <1>3, <1>4 DEF Finish

LEMMA TabDieStep ==
  ASSUME GraphInv, TabInv, NEW k \in Sessions, Tabs = {k}, Die(k)
  PROVE  TabInv'
BY TabStops DEF Die, Returns, Stop, Show

LEMMA TabStepKeeps ==
  ASSUME StoreInv, GraphInv, TabInv, OneTab, [Next]_vars
  PROVE  TabInv'
<1>1. PICK k \in Sessions : Tabs = {k}
  BY DEF OneTab
<1>2. CASE UNCHANGED vars
  BY <1>2, TabQuiet DEF vars, storeVars
<1>3. ASSUME NEW s \in Sessions, ShelfStep(s) PROVE TabInv'
  <2>1. UNCHANGED <<onboardingVars, sources>>
    BY <1>3 DEF ShelfStep, DeskStep, StoreStep, StoreOnly, Delete, PutObject, CreateRow, TakeBack,
                UndoNext, RemoveObject, RemoveRow, PutBack
  <2>2. QED
    BY <2>1, TabQuiet
<1>4. CASE UserStep(k)
  BY <1>1, <1>3, <1>4, TabAnalyzeStep, TabRestoreStep, TabAnswerStep, TabEditStep
  DEF UserStep, ShelfStep
<1>5. CASE GraphStep(k)
  BY <1>1, <1>5, TabWorksStep, TabAskStep, TabSaveStep, TabFinishStep, TabReturnStep DEF GraphStep
<1>6. CASE Die(k)
  BY <1>1, <1>6, TabDieStep
<1>7. ASSUME NEW s \in Sessions, s # k, UserStep(s) \/ GraphStep(s) \/ Die(s) PROVE TabInv'
  BY <1>1, <1>7, OtherStep
<1>8. QED
  BY <1>2, <1>3, <1>4, <1>5, <1>6, <1>7 DEF Next, ShelfStep

LEMMA TabStart == Init => TabInv
<1> SUFFICES ASSUME Init PROVE TabInv
  OBVIOUS
<1>1. /\ thread = NoThread /\ run = [s \in Sessions |-> NoThread]
      /\ result = [s \in Sessions |-> Blank] /\ page = [s \in Sessions |-> Blank]
      /\ approved = {} /\ edits = 0
      /\ profile = [n |-> 0, content |-> NoForm, past |-> {}]
  BY DEF Init
<1>2. /\ NoThread.next = "none" /\ ~NoThread.wait /\ NoThread.form.facts = {} /\ NoForm.facts = {}
      /\ Blank.kind = "none" /\ Cardinality({}) = 0
  BY FS_EmptySet DEF NoThread, NoForm, Blank
<1>3. Tabs \subseteq Sessions
  BY TabAssumption
<1>4. OthersIdle /\ RunIsThread /\ WaitsWhenAsked /\ PageIsCurrent
  BY <1>1, <1>2, <1>3 DEF OthersIdle, RunIsThread, WaitsWhenAsked, PageIsCurrent, Asking
<1>5. FormsAreSourced /\ VersionsAreConfirmed
  BY <1>1, <1>2 DEF FormsAreSourced, VersionsAreConfirmed, Unanswered
<1>6. QED
  BY <1>4, <1>5 DEF TabInv

LEMMA TabKept == ASSUME OneTab PROVE Spec => []TabInv
<1>1. StoreInv /\ GraphInv /\ TabInv /\ [Next]_vars => TabInv'
  BY TabStepKeeps
<1>2. QED
  BY <1>1, Kept, TabStart, PTL DEF Spec

(***************************************************************************)
(* Theorems for one tab, and any number of sessions that store and delete. *)
(***************************************************************************)

\* Every fact any version of the profile has had comes from a document it names as its
\* source, but for the facts of forms that were confirmed for a later analysis.
THEOREM Sourced == ASSUME OneTab PROVE Spec => []FactsAreSourced
<1>1. TabInv => FactsAreSourced
  BY DEF TabInv, FormsAreSourced, FactsAreSourced
<1>2. QED
  BY <1>1, TabKept, PTL

\* While a thread waits, and the script is done, the form on the page is the one it waits
\* for, unless a click kept the last result from the page.
THEOREM PageCurrent == ASSUME OneTab PROVE Spec => []PageIsCurrent
<1>1. TabInv => PageIsCurrent
  BY DEF TabInv
<1>2. QED
  BY <1>1, TabKept, PTL

\* Every version the onboarding saves is a complete form, confirmed in its analysis.  Of
\* each confirmation there is one version, and one more for an edit of the profile that
\* came between two runs of a save whose end could not be recorded.
THEOREM SavedOnceConfirmed == ASSUME OneTab PROVE Spec => SavedAsConfirmed
<1> DEFINE Saved == profile' # profile /\ edits' = edits =>
             /\ Missing(profile'.content) = {}
             /\ \E s \in Sessions : [run |-> run[s].run, form |-> profile'.content] \in approved
             /\ profile'.n - edits <= Cardinality(approved) + edits
<1>1. StoreInv /\ GraphInv /\ TabInv /\ TabInv' /\ [Next]_vars => [Saved]_vars
  <2> SUFFICES ASSUME GraphInv, TabInv', [Next]_vars, profile' # profile, edits' = edits
               PROVE  Saved
    OBVIOUS
  <2>1. PICK s \in Sessions : /\ Running(s, "save") /\ Save(s)
                              /\ profile'.n = profile.n + 1 /\ profile'.content = run[s].form
    BY ProfileChanges
  <2>2. /\ SavesTheConfirmed(run[s]) /\ approved' = approved
        /\ profile'.n <= Cardinality(approved') + 2 * edits'
    BY <2>1, GraphIs DEF Save, TabInv, VersionsAreConfirmed
  <2>3. Cardinality(approved) \in Nat /\ edits \in Nat /\ profile.n \in Nat
    BY GraphIs, OnboardingBounds, FS_CardinalityType DEF GraphInv
  <2>4. profile'.n - edits <= Cardinality(approved) + edits
    BY <2>1, <2>2, <2>3
  <2>5. QED
    BY <2>1, <2>2, <2>4 DEF SavesTheConfirmed, Running
<1>2. Spec => [][Saved]_vars
  BY <1>1, Kept, TabKept, PTL DEF Spec
<1>3. QED
  BY <1>2 DEF SavedAsConfirmed
=============================================================================
