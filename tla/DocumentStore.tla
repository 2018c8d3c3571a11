--------------------------- MODULE DocumentStore ---------------------------
(***************************************************************************)
(* Original documents: an object in private storage and a row in the       *)
(* database, written one after the other and kept together by compensating *)
(* steps.  An upload puts the object, then inserts the row, and takes the  *)
(* object away again when the row is refused.  A delete takes the object   *)
(* away, then deletes the row, and puts the object back when the row must  *)
(* stay.  The batch of an analysis that fails is deleted again, last       *)
(* document first.  Sessions act in between, a step may fail, and the      *)
(* process serving a session may die.                                      *)
(***************************************************************************)
EXTENDS Naturals, Sequences, FiniteSets, SequencesExt, FiniteSetsExt

CONSTANTS
  Sessions,  \* browser sessions of the user
  Docs,      \* document ids, each given to one upload
  NoDoc,     \* no document
  MaxFiles,  \* bound: files of one upload
  MaxFaults  \* bound: steps that fail, answers that get lost, sessions that die, in all

ASSUME DocAssumption == NoDoc \notin Docs
ASSUME StoreBounds == MaxFiles \in Nat \ {0} /\ MaxFaults \in Nat

VARIABLES
  objects,  \* documents whose object is in storage
  rows,     \* documents with a row
  sources,  \* documents the profile history names as its sources
  chunks,   \* documents with active retrieval rows
  desk,     \* the upload or delete each session is running
  issued,   \* ids given so far
  lost,     \* documents whose object could not be put back
  leaked,   \* documents whose object could not be taken away
  faults    \* steps that failed, answers that got lost, sessions that died so far

storeVars == <<objects, rows, sources, chunks, desk, issued, lost, leaked, faults>>

Free == [pc |-> "idle", call |-> "none", doc |-> NoDoc, todo |-> 0, done |-> <<>>]

Desks ==
  [pc   : {"idle", "put", "row", "unput", "fetch", "remove", "unrow", "restore",
           "stored", "failed", "index"},
   call : {"none", "analyze", "only", "delete"},
   doc  : Docs \cup {NoDoc},
   todo : 0..MaxFiles,
   done : Seq(Docs)]

StoreTypeOK ==
  /\ objects \subseteq Docs /\ rows \subseteq Docs /\ sources \subseteq Docs
  /\ chunks \subseteq Docs /\ issued \subseteq Docs
  /\ lost \subseteq Docs /\ leaked \subseteq Docs
  /\ desk \in [Sessions -> Desks]
  /\ faults \in 0..MaxFaults

StoreInit ==
  /\ objects = {} /\ rows = {} /\ sources = {} /\ chunks = {} /\ issued = {}
  /\ lost = {} /\ leaked = {}
  /\ desk = [s \in Sessions |-> Free]
  /\ faults = 0

At(s, pc)  == desk[s].pc = pc
Goto(s, r) == desk' = [desk EXCEPT ![s] = r]
Fault      == faults < MaxFaults /\ faults' = faults + 1
Works      == UNCHANGED faults

-----------------------------------------------------------------------------
(***************************************************************************)
(* Upload.                                                                 *)
(***************************************************************************)

\* Bound: the ids suffice for the uploads under way and this one.
IdsLeft(n) ==
  n + MapThenSumSet(LAMBDA t : desk[t].todo, Sessions) <= Cardinality(Docs \ issued)

Upload(s, call, n) ==
  /\ IdsLeft(n)
  /\ Goto(s, [Free EXCEPT !.pc = "put", !.call = call, !.todo = n])

\* "Store document": the files are kept without an analysis.
StoreOnly(s) ==
  /\ At(s, "idle")
  /\ \E n \in 1..MaxFiles : Upload(s, "only", n)
  /\ UNCHANGED <<objects, rows, sources, chunks, issued, lost, leaked, faults>>

\* The upload raised: an analysis deletes what it has stored so far, the last
\* document first; "Store document" keeps it.
UploadRaised(r) ==
  IF r.call = "analyze" THEN [r EXCEPT !.pc = IF r.done = <<>> THEN "failed" ELSE "fetch"]
  ELSE Free

\* The file is checked and its object put under a fresh id.
PutObject(s) ==
  /\ At(s, "put")
  /\ \/ /\ Works
        /\ \E d \in Docs \ issued :
             /\ objects' = objects \cup {d}
             /\ issued' = issued \cup {d}
             /\ Goto(s, [desk[s] EXCEPT !.pc = "row", !.doc = d])
     \/ /\ Fault
        /\ Goto(s, UploadRaised(desk[s]))
        /\ UNCHANGED <<objects, issued>>
  /\ UNCHANGED <<rows, sources, chunks, lost, leaked>>

\* Mutant: one file too many.
RowCreatedOnceMore(r) ==
  LET kept == [r EXCEPT !.todo = @ - 1, !.done = Append(@, r.doc), !.doc = NoDoc]
  IN  IF r.todo >= 1 THEN [kept EXCEPT !.pc = "put"]
      ELSE IF r.call = "analyze" THEN [kept EXCEPT !.pc = "stored"]
      ELSE Free

RowCreated(r) ==
  LET kept == [r EXCEPT !.todo = @ - 1, !.done = Append(@, r.doc), !.doc = NoDoc]
  IN  IF r.todo > 1 THEN [kept EXCEPT !.pc = "put"]
      ELSE IF r.call = "analyze" THEN [kept EXCEPT !.pc = "stored"]
      ELSE Free

CreateRow(s) ==
  /\ At(s, "row")
  /\ \/ Works /\ rows' = rows \cup {desk[s].doc} /\ Goto(s, RowCreated(desk[s]))
     \/ Fault /\ Goto(s, [desk[s] EXCEPT !.pc = "unput"]) /\ UNCHANGED rows
  /\ UNCHANGED <<objects, sources, chunks, issued, lost, leaked>>

\* The row was refused: the object is taken away again, and the error raised.
TakeBack(s) ==
  /\ At(s, "unput")
  /\ \/ Works /\ objects' = objects \ {desk[s].doc} /\ UNCHANGED leaked
     \/ Fault /\ leaked' = leaked \cup {desk[s].doc} /\ UNCHANGED objects
  /\ Goto(s, UploadRaised([desk[s] EXCEPT !.doc = NoDoc]))
  /\ UNCHANGED <<rows, sources, chunks, issued, lost>>

-----------------------------------------------------------------------------
(***************************************************************************)
(* Delete, by the user or to undo an analysis.                             *)
(***************************************************************************)

\* Mutant: undoing is tried until it works.
DeleteRetried(r) ==
  IF r.call = "analyze" THEN [r EXCEPT !.pc = "fetch", !.doc = NoDoc] ELSE Free

\* How a delete ends: the page goes on, the undoing raises what interrupted it.
DeleteRaised(r) ==
  IF r.call = "analyze" THEN [r EXCEPT !.pc = "failed", !.doc = NoDoc] ELSE Free

\* The row is read and the object fetched, to be put back if need be.
Delete(s, d) ==
  /\ At(s, "idle")
  /\ d \in rows \cap objects
  /\ Goto(s, [Free EXCEPT !.pc = "remove", !.call = "delete", !.doc = d])
  /\ UNCHANGED <<objects, rows, sources, chunks, issued, lost, leaked, faults>>

UndoNext(s) ==
  /\ At(s, "fetch")
  /\ LET d == Last(desk[s].done)
     IN  \/ Works /\ d \in rows \cap objects /\ Goto(s, [desk[s] EXCEPT !.pc = "remove", !.doc = d])
         \/ Works /\ d \notin rows \cap objects /\ Goto(s, DeleteRaised(desk[s]))
         \/ Fault /\ Goto(s, DeleteRaised(desk[s]))
  /\ UNCHANGED <<objects, rows, sources, chunks, issued, lost, leaked>>

RemoveObject(s) ==
  /\ At(s, "remove")
  /\ \/ /\ Works
        /\ objects' = objects \ {desk[s].doc}
        /\ Goto(s, [desk[s] EXCEPT !.pc = "unrow"])
     \/ Fault /\ Goto(s, DeleteRaised(desk[s])) /\ UNCHANGED objects
  /\ UNCHANGED <<rows, sources, chunks, issued, lost, leaked>>

RowRemoved(r) ==
  IF r.call = "delete" THEN Free
  ELSE [r EXCEPT !.done = Front(@), !.doc = NoDoc,
                 !.pc = IF Len(r.done) = 1 THEN "failed" ELSE "fetch"]

\* Mutant: a document of the profile history is deleted too.
DeletableAny(d) == d \in rows

\* A document that the profile history names cannot be deleted.
Deletable(d) == d \in rows /\ d \notin sources

\* Mutant: a refused delete is only reported.
RefusedSilently(r) == DeleteRaised(r)

Refused(r) == [r EXCEPT !.pc = "restore"]

RemoveRow(s) ==
  LET d == desk[s].doc
  IN  /\ At(s, "unrow")
      /\ \/ /\ Works /\ Deletable(d)
            /\ rows' = rows \ {d} /\ chunks' = chunks \ {d}
            /\ Goto(s, RowRemoved(desk[s]))
         \/ /\ (Works /\ ~Deletable(d)) \/ Fault
            /\ Goto(s, Refused(desk[s]))
            /\ UNCHANGED <<rows, chunks>>
      /\ UNCHANGED <<objects, sources, issued, lost, leaked>>

PutBack(s) ==
  /\ At(s, "restore")
  /\ \/ Works /\ objects' = objects \cup {desk[s].doc} /\ UNCHANGED lost
     \/ Fault /\ lost' = lost \cup {desk[s].doc} /\ UNCHANGED objects
  /\ Goto(s, DeleteRaised(desk[s]))
  /\ UNCHANGED <<rows, sources, chunks, issued, leaked>>

\* What a death leaves behind: an object taken away whose row may stay, or an
\* object put whose row was never written.
Abandoned(s) ==
  /\ lost' = IF desk[s].pc \in {"unrow", "restore"} THEN lost \cup {desk[s].doc} ELSE lost
  /\ leaked' = IF desk[s].pc \in {"row", "unput"} THEN leaked \cup {desk[s].doc} ELSE leaked

StoreStep(s) ==
  \/ PutObject(s) \/ CreateRow(s) \/ TakeBack(s)
  \/ UndoNext(s) \/ RemoveObject(s) \/ RemoveRow(s) \/ PutBack(s)

-----------------------------------------------------------------------------
\* Documents between the two halves of a delete.
BeingDeleted ==
  {desk[s].doc : s \in {t \in Sessions : desk[t].pc \in {"unrow", "restore"}}}

\* Every document the profile history names is still on record: the delete
\* that looks for its use and the save that records it cannot miss each other,
\* whatever is deleted while a profile waits to be confirmed.
SourcesAreOnRecord == sources \subseteq rows

\* A document on record has its original: a delete that is refused, because
\* the profile history uses the document or the database failed, puts it back.
\* Only a delete under way, or one that died or failed half way, is excepted.
RowsHaveOriginals == rows \subseteq objects \cup BeingDeleted \cup lost

\* What the profile history names as a source can be opened: it is on record, with its
\* original.
SourcesAreKept == SourcesAreOnRecord /\ RowsHaveOriginals
=============================================================================
