-------------------------- MODULE ProfileVersions --------------------------
(***************************************************************************)
(* The profile, its versions and field history, the revision drafts that   *)
(* conversations propose, and the index rows of the current version.       *)
(*                                                                         *)
(* A form posts every field, a draft only its accepted ones; either way    *)
(* one transaction composes the facts with the current snapshot, appends a *)
(* version and switches off the rows of the former one.  After a form the  *)
(* new version is indexed, a transaction per step; a draft is read, saved  *)
(* and closed in three transactions.  Other sessions act in between, an    *)
(* index step may fail, and the process may die.                           *)
(*                                                                         *)
(* Name and email of a Google user are the account's: every save puts the  *)
(* account's values back, and every sign-in may bring new ones.            *)
(***************************************************************************)
EXTENDS Integers, Sequences, FiniteSets

CONSTANTS
  Sessions,    \* browser sessions of the user; each runs one script at a time
  Fields,      \* profile fields
  Locked,      \* of these, the account's: name and email of a Google user
  Values,      \* valid values of a field
  None,        \* no value, no draft
  Drafts,      \* revision drafts
  Slots,       \* the changes of a draft; two of them may be of one field
  Parts,       \* how many index rows a version has: resume chunks, then projects
  MaxVersions, \* bound: versions
  MaxFailures, \* bound: index steps that raise
  MaxCrashes   \* bound: crashes

ASSUME FieldAssumption == Fields # {} /\ Values # {} /\ Locked \subseteq Fields
ASSUME NoneAssumption == None \notin Values \cup Drafts
ASSUME CountAssumption ==
  /\ Parts \in Nat \ {0} /\ MaxVersions \in Nat \ {0}
  /\ MaxFailures \in Nat /\ MaxCrashes \in Nat

VARIABLES
  account,   \* the account's values of the locked fields
  versions,  \* the snapshots; the last one is current
  revisions, \* the field history
  rows,      \* the active index rows, as <<version, part>>
  drafts,    \* the revision drafts
  pc,        \* what each session is doing
  job,       \* what a session works with
  failures,  \* index steps that raised so far
  crashes    \* crashes so far

vars == <<account, versions, revisions, rows, drafts, pc, job, failures, crashes>>

Facts     == [Fields -> Values]
Posted    == [Fields -> Values \cup {None}]  \* None: the field is not posted
Version   == [facts : Facts, index : {"pending", "ready", "failed"}]
Revision  == [version : 1..MaxVersions, field : Fields, previous : Values, new : Values,
              draft : Drafts \cup {None}]
Change    == [status : {"pending", "accepted", "rejected", "stale", "applied"},
              field : Fields, before : Values, proposed : Values]
NoChange  == [status |-> "pending", field |-> CHOOSE f \in Fields : TRUE,
              before |-> CHOOSE v \in Values : TRUE, proposed |-> CHOOSE v \in Values : TRUE]
Draft     == [status : {"none", "pending", "applied"}, changes : [Slots -> Change]]
Job       == [posted : Posted, draft : Drafts \cup {None}, version : 0..MaxVersions,
              stored : 0..Parts, error : BOOLEAN]
Steps     == {"idle", "editing", "purge", "store", "record", "applying", "closing"}

Current  == Len(versions)
Profile  == versions[Current].facts
Shown    == [f \in Fields |-> IF f \in Locked THEN account[f] ELSE Profile[f]]
Nothing  == [f \in Fields |-> None]
NoJob    == [posted |-> Nothing, draft |-> None, version |-> 0, stored |-> 0, error |-> FALSE]

TypeOK ==
  /\ account \in [Locked -> Values]
  /\ versions \in Seq(Version) /\ Len(versions) \in 1..MaxVersions
  /\ revisions \subseteq Revision
  /\ rows \subseteq (1..MaxVersions) \X (1..Parts)
  /\ drafts \in [Drafts -> Draft]
  /\ pc \in [Sessions -> Steps]
  /\ job \in [Sessions -> Job]
  /\ failures \in 0..MaxFailures
  /\ crashes \in 0..MaxCrashes

\* The state after onboarding: one confirmed version, indexed.
Init ==
  /\ \E facts \in Facts :
       /\ versions = <<[facts |-> facts, index |-> "ready"]>>
       /\ account = [f \in Locked |-> facts[f]]
  /\ revisions = {}
  /\ rows = {1} \X (1..Parts)
  /\ drafts = [d \in Drafts |-> [status |-> "none", changes |-> [i \in Slots |-> NoChange]]]
  /\ pc = [s \in Sessions |-> "idle"]
  /\ job = [s \in Sessions |-> NoJob]
  /\ failures = 0
  /\ crashes = 0

-----------------------------------------------------------------------------
(***************************************************************************)
(* Saving fields: one transaction.                                         *)
(***************************************************************************)

\* What is posted replaces the current fact, the rest is kept; locked fields get the
\* account's value, whatever is posted.
Composed(posted) ==
  [f \in Fields |-> IF f \in Locked THEN account[f]
                   ELSE IF posted[f] = None THEN Profile[f] ELSE posted[f]]

\* Mutant: compared with what was onboarded.
ChangedSinceFirst(facts) == {f \in Fields : facts[f] # versions[1].facts[f]}

Changed(facts) == {f \in Fields : facts[f] # Profile[f]}

\* Mutant: the former version's rows stay until the new one is indexed.
RowsKept == rows

RowsAfterSave == {}

\* A version and one revision per changed field; the former rows are switched off.
Save(facts, draft) ==
  /\ Changed(facts) # {} /\ Current < MaxVersions
  /\ versions' = Append(versions, [facts |-> facts, index |-> "pending"])
  /\ revisions' = revisions \cup
       {[version |-> Current + 1, field |-> f, previous |-> Profile[f], new |-> facts[f],
         draft |-> draft] : f \in Changed(facts)}
  /\ rows' = RowsAfterSave

\* Nothing changed: no version.
SaveNothing(facts) ==
  /\ Changed(facts) = {}
  /\ UNCHANGED <<versions, revisions, rows>>

Goto(s, from, to) == pc[s] = from /\ pc' = [pc EXCEPT ![s] = to]

-----------------------------------------------------------------------------
(***************************************************************************)
(* The form.  Restoring a former value, and confirming an uploaded resume, *)
(* post through the same service.                                          *)
(***************************************************************************)

\* The form shows the current facts, the locked ones as the account has them.
FormFacts == Shown

OpenForm(s) ==
  /\ Goto(s, "idle", "editing")
  /\ job' = [job EXCEPT ![s] = [NoJob EXCEPT !.posted = FormFacts]]
  /\ UNCHANGED <<account, versions, revisions, rows, drafts, failures, crashes>>

LeaveForm(s) ==
  /\ Goto(s, "editing", "idle")
  /\ job' = [job EXCEPT ![s] = NoJob]
  /\ UNCHANGED <<account, versions, revisions, rows, drafts, failures, crashes>>

\* The fields the user edited, and the others as they were shown.
Submitted(s, edits) ==
  [f \in Fields |-> IF edits[f] = None THEN job[s].posted[f] ELSE edits[f]]

\* The new version is saved, and indexed in the steps that follow.
SubmitForm(s, edits) ==
  LET posted == Submitted(s, edits) IN
  /\ Goto(s, "editing", "purge")
  /\ Save(Composed(posted), None)
  /\ job' = [job EXCEPT ![s] = [NoJob EXCEPT !.posted = posted, !.version = Current + 1]]
  /\ UNCHANGED <<account, drafts, failures, crashes>>

SubmitUnchanged(s, edits) ==
  /\ Goto(s, "editing", "idle")
  /\ SaveNothing(Composed(Submitted(s, edits)))
  /\ job' = [job EXCEPT ![s] = NoJob]
  /\ UNCHANGED <<account, drafts, failures, crashes>>

-----------------------------------------------------------------------------
(***************************************************************************)
(* Indexing the new version.                                               *)
(***************************************************************************)

\* The rows of every other version are switched off.
Purge(s) ==
  /\ Goto(s, "purge", "store")
  /\ rows' = {r \in rows : r[1] = job[s].version}
  /\ UNCHANGED <<account, versions, revisions, drafts, job, failures, crashes>>

Stored(j) == j.stored + 1 = Parts

\* A part is stored, active, without a look at which version is current.  A version
\* is indexed once, so it has no former rows of its own to switch off.
StorePart(s) ==
  LET j == job[s] IN
  /\ pc[s] = "store"
  /\ rows' = rows \cup {<<j.version, j.stored + 1>>}
  /\ job' = [job EXCEPT ![s] = [j EXCEPT !.stored = j.stored + 1]]
  /\ pc' = [pc EXCEPT ![s] = IF Stored(j) THEN "record" ELSE "store"]
  /\ UNCHANGED <<account, versions, revisions, drafts, failures, crashes>>

\* Mutant: the error ends the script.
Abandon == "idle"

AfterFailure == "record"

IndexStepFails(s) ==
  /\ pc[s] \in {"purge", "store"} /\ failures < MaxFailures
  /\ pc' = [pc EXCEPT ![s] = AfterFailure]
  /\ job' = [job EXCEPT ![s] = [@ EXCEPT !.error = TRUE]]
  /\ failures' = failures + 1
  /\ UNCHANGED <<account, versions, revisions, rows, drafts, crashes>>

\* Mutant: an error is not passed on.
AlwaysReady(j) == "ready"

\* "sparse_only", rows without embeddings, counts as ready here.
Outcome(j) == IF j.error THEN "failed" ELSE "ready"

RecordOutcome(s) ==
  /\ Goto(s, "record", "idle")
  /\ versions' = [versions EXCEPT ![job[s].version] = [@ EXCEPT !.index = Outcome(job[s])]]
  /\ job' = [job EXCEPT ![s] = NoJob]
  /\ UNCHANGED <<account, revisions, rows, drafts, failures, crashes>>

-----------------------------------------------------------------------------
(***************************************************************************)
(* Revision drafts.                                                        *)
(***************************************************************************)

\* The extractor proposes changes of the facts it read.  The draft is stored in a
\* transaction of its own, but nothing reads it in between.
Propose(d, fields, values) ==
  /\ drafts[d].status = "none"
  /\ drafts' = [drafts EXCEPT ![d] =
       [status |-> "pending",
        changes |-> [i \in Slots |-> [status |-> "pending", field |-> fields[i],
                                      before |-> Shown[fields[i]],
                                      proposed |-> values[i]]]]]
  /\ UNCHANGED <<account, versions, revisions, rows, pc, job, failures, crashes>>

\* Mutant: a change is due whatever became of its field.
Overdue(c) == c.status = "accepted"

\* An accepted change is due while its field still has the value it was read with.
StillDue(c) == c.status = "accepted" /\ Shown[c.field] = c.before

\* The page offers the pending changes of pending drafts; the page of one of several
\* sessions may be older than what another one did.
Offered(s, d, c) ==
  \/ drafts[d].status = "pending" /\ c.status = "pending"
  \/ drafts[d].status # "none" /\ c.status \in {"pending", "accepted"} /\ Sessions # {s}

\* Accepting a change whose field has another value by now marks it stale.
Review(s, d, i, accept) ==
  LET c == drafts[d].changes[i] IN
  /\ pc[s] = "idle" /\ Offered(s, d, c)
  /\ drafts' = [drafts EXCEPT ![d].changes[i].status =
       IF ~accept THEN "rejected" ELSE IF Shown[c.field] = c.before THEN "accepted" ELSE "stale"]
  /\ UNCHANGED <<account, versions, revisions, rows, pc, job, failures, crashes>>

\* The accepted changes are read, those of a field that changed meanwhile are marked
\* stale.  Two changes of one field: the one read last counts.  Without a change to
\* apply the transaction is rolled back.
StartApply(s, d) ==
  LET changes == drafts[d].changes
      due     == {i \in Slots : StillDue(changes[i])} IN
  /\ drafts[d].status = "pending" /\ due # {}
  /\ Goto(s, "idle", "applying")
  /\ drafts' = [drafts EXCEPT ![d].changes =
       [i \in Slots |-> IF changes[i].status = "accepted" /\ i \notin due
                        THEN [changes[i] EXCEPT !.status = "stale"] ELSE changes[i]]]
  /\ \E posted \in Posted :
       /\ \A f \in Fields :
            LET offered == {changes[i].proposed : i \in {j \in due : changes[j].field = f}}
            IN  IF offered = {} THEN posted[f] = None ELSE posted[f] \in offered
       /\ job' = [job EXCEPT ![s] = [NoJob EXCEPT !.draft = d, !.posted = posted]]
  /\ UNCHANGED <<account, versions, revisions, rows, failures, crashes>>

\* The repository saves; the index is not refreshed.
SaveDraft(s) ==
  LET facts == Composed(job[s].posted) IN
  /\ Goto(s, "applying", "closing")
  /\ \/ Save(facts, job[s].draft)
     \/ SaveNothing(facts)
  /\ UNCHANGED <<account, drafts, job, failures, crashes>>

\* Mutant: whatever was not rejected counts as applied.
NotRejected(c, posted) == c.status # "rejected"

IsApplied(c, posted) == c.status = "accepted" /\ posted[c.field] # None

CloseDraft(s) ==
  LET j == job[s] IN
  /\ Goto(s, "closing", "idle")
  /\ drafts' = [drafts EXCEPT ![j.draft] =
       [status |-> "applied",
        changes |-> [i \in Slots |->
          IF IsApplied(@.changes[i], j.posted)
          THEN [@.changes[i] EXCEPT !.status = "applied"] ELSE @.changes[i]]]]
  /\ job' = [job EXCEPT ![s] = NoJob]
  /\ UNCHANGED <<account, versions, revisions, rows, failures, crashes>>

-----------------------------------------------------------------------------
\* A Google sign-in brings the account's name and email; the profile keeps its version.
SignIn(s, values) ==
  /\ pc[s] = "idle"
  /\ account' = values
  /\ UNCHANGED <<versions, revisions, rows, drafts, pc, job, failures, crashes>>

\* The process dies, or a transaction raises.
Crash(s) ==
  /\ pc[s] \notin {"idle", "editing"} /\ crashes < MaxCrashes
  /\ pc' = [pc EXCEPT ![s] = "idle"]
  /\ job' = [job EXCEPT ![s] = NoJob]
  /\ crashes' = crashes + 1
  /\ UNCHANGED <<account, versions, revisions, rows, drafts, failures>>

Form(s) ==
  \/ OpenForm(s) \/ LeaveForm(s)
  \/ \E edits \in Posted : SubmitForm(s, edits) \/ SubmitUnchanged(s, edits)

Index(s) == Purge(s) \/ StorePart(s) \/ RecordOutcome(s)

Apply(s) == (\E d \in Drafts : StartApply(s, d)) \/ SaveDraft(s) \/ CloseDraft(s)

Next ==
  \/ \E d \in Drafts, fields \in [Slots -> Fields], values \in [Slots -> Values] :
       Propose(d, fields, values)
  \/ \E s \in Sessions :
       \/ Form(s) \/ Index(s) \/ Apply(s) \/ IndexStepFails(s) \/ Crash(s)
       \/ \E d \in Drafts, i \in Slots, accept \in BOOLEAN : Review(s, d, i, accept)
       \/ \E values \in [Locked -> Values] : SignIn(s, values)

Spec == Init /\ [][Next]_vars

\* A script that indexes goes on: nothing in it waits for another one.
FairSpec == Spec /\ \A s \in Sessions : WF_vars(Index(s))

-----------------------------------------------------------------------------
(***************************************************************************)
(* Properties.                                                             *)
(***************************************************************************)

\* The field history explains every version: a version differs from the one before in
\* the fields it has revisions for, from and to the values recorded there.
HistoryIsComplete ==
  \A n \in 2..Len(versions) :
    LET written == {r \in revisions : r.version = n} IN
    /\ written # {}
    /\ \A r \in written : /\ r.previous = versions[n - 1].facts[r.field]
                          /\ r.new = versions[n].facts[r.field]
    /\ {r.field : r \in written} =
         {f \in Fields : versions[n].facts[f] # versions[n - 1].facts[f]}

\* No row of a former version is searchable, not even while indexing (one session).
RowsAreCurrent == \A r \in rows : r[1] = Current

\* The same, once every session is done ("external embedding work can never leave stale
\* profile data marked current", apply_profile_field_changes).
StaleRowsGoAway == (\A s \in Sessions : pc[s] = "idle") => RowsAreCurrent

\* A current version recorded as ready has all its rows (one session).
ReadyIsSearchable ==
  versions[Current].index = "ready" => {Current} \X (1..Parts) \subseteq rows

\* The index tells of the current version only and, once it is recorded as ready, all
\* of it (one session).
IndexTellsCurrent == RowsAreCurrent /\ ReadyIsSearchable

\* What a draft wrote was accepted and written over the value it was read with: a
\* newer value of the field is never overwritten (one session).  A change that a crash
\* kept from being marked applied is stale when the draft is applied again.  A locked
\* field takes the account's value, which the save records as the draft's.
DraftWritesWereDue ==
  \A r \in revisions : r.draft # None /\ r.field \notin Locked =>
    \E i \in Slots :
      LET c == drafts[r.draft].changes[i] IN
      /\ c.status \in {"accepted", "applied"} \/ (c.status = "stale" /\ crashes > 0)
      /\ <<c.field, c.before, c.proposed>> = <<r.field, r.previous, r.new>>

\* A field with an applied change did get the value of one of its applied changes
\* (one session), unless the account locks it: such a change is marked applied too.
AppliedReachesProfile ==
  \A d \in Drafts : \A i \in Slots :
    drafts[d].changes[i].status = "applied" /\ drafts[d].changes[i].field \notin Locked =>
    \E j \in Slots, n \in 1..Len(versions) :
      LET c == drafts[d].changes[j] IN
      /\ c.status = "applied" /\ c.field = drafts[d].changes[i].field
      /\ versions[n].facts[c.field] = c.proposed

\* Drafts and history agree on the fields that are the user's own: what drafts wrote was
\* due, what they mark applied was written (one session).
DraftsMatchHistory == DraftWritesWereDue /\ AppliedReachesProfile

\* Every applied change did get its value into the profile: "Accepted profile fields were applied."
EveryAppliedChangeReachesProfile ==
  \A d \in Drafts : \A i \in Slots :
    LET c == drafts[d].changes[i] IN
    c.status = "applied" => \E n \in 1..Len(versions) : versions[n].facts[c.field] = c.proposed

\* An index refresh that starts records an outcome, unless the process dies.
RefreshEnds ==
  \A n \in 1..MaxVersions :
    (\E s \in Sessions : pc[s] = "purge" /\ job[s].version = n) ~>
      (crashes > 0 \/ (n <= Len(versions) /\ versions[n].index # "pending"))
=============================================================================
