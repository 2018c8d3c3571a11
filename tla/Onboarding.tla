----------------------------- MODULE Onboarding -----------------------------
(***************************************************************************)
(* The profile-onboarding workflow.  "Analyze documents" drops the user's  *)
(* checkpointed thread and starts it anew: the files are stored, their     *)
(* text is indexed, a model proposes the fields, and the graph stops for   *)
(* the user, who fills in what is missing and confirms or cancels.  After  *)
(* each node the state is checkpointed; an answer resumes the thread from  *)
(* its checkpoint, whatever form the page shows.  A page holds the last    *)
(* result that reached it: a click at the wrong moment ends the script     *)
(* between the graph's return and the page.  A new page takes a stopped    *)
(* thread up again.  Meanwhile the user may edit the profile itself.       *)
(***************************************************************************)
EXTENDS DocumentStore

CONSTANTS
  Tabs,       \* the sessions that open the onboarding page
  Shelves,    \* the sessions that store and delete documents
  Required,   \* required profile fields
  Year,       \* the one of them that can be present and out of range
  MaxRuns,    \* bound: analyses started
  MaxEdits    \* bound: edits of the profile outside the onboarding

ASSUME TabAssumption == Tabs \subseteq Sessions /\ Shelves \subseteq Sessions
ASSUME RequiredAssumption == Year \in Required
ASSUME OnboardingBounds == MaxRuns \in Nat \ {0} /\ MaxEdits \in Nat

VARIABLES
  profile,  \* the current version: its number and content, and whose facts versions have had
  thread,   \* the checkpointed state of the user's thread
  run,      \* the state each session's invocation works on
  result,   \* what an invocation returned and the page has not got yet
  page,     \* the result each session's page shows
  approved, \* the forms confirmed, with the analysis they were confirmed in
  missed,   \* history: the sessions whose last result did not reach the page
  astray,   \* history: the documents of forms confirmed for a later analysis
  edits     \* edits of the profile so far

histories      == <<missed, astray, edits>>
onboardingVars == <<profile, thread, run, result, page, approved, histories>>
vars == <<storeVars, onboardingVars>>

Quality(f) == IF f = Year THEN {"absent", "bad", "ok"} ELSE {"absent", "ok"}
Fields   == {v \in [Required -> {"absent", "bad", "ok"}] : \A f \in Required : v[f] \in Quality(f)}
Form     == [facts : SUBSET Docs, fields : Fields]  \* facts: the documents they come from
NoForm   == [facts |-> {}, fields |-> [f \in Required |-> "absent"]]
Missing(form) == {f \in Required : form.fields[f] # "ok"}

Nodes    == {"none", "store", "extract", "model", "validate", "collect", "confirm", "save", "end"}
State    == [run : 0..MaxRuns, next : Nodes, wait : BOOLEAN, ids : Seq(Docs), form : Form,
             confirmed : BOOLEAN]
NoThread == [run |-> 0, next |-> "none", wait |-> FALSE, ids |-> <<>>, form |-> NoForm,
             confirmed |-> FALSE]
Page     == [kind : {"none", "collect", "confirm", "over"}, run : 0..MaxRuns, form : Form]
Blank    == [kind |-> "none", run |-> 0, form |-> NoForm]
Over     == [Blank EXCEPT !.kind = "over"]

TypeOK ==
  /\ StoreTypeOK
  /\ profile \in [n : Nat, content : Form, past : SUBSET Docs]
  /\ profile.content.facts \subseteq profile.past
  /\ thread \in State
  /\ run \in [Sessions -> State]
  /\ result \in [Sessions -> Page]
  /\ page \in [Sessions -> Page]
  /\ approved \subseteq [run : 1..MaxRuns, form : Form]
  /\ missed \subseteq Sessions /\ astray \subseteq Docs
  /\ edits \in 0..MaxEdits

Init ==
  /\ StoreInit
  /\ profile = [n |-> 0, content |-> NoForm, past |-> {}]
  /\ thread = NoThread
  /\ run = [s \in Sessions |-> NoThread]
  /\ result = [s \in Sessions |-> Blank]
  /\ page = [s \in Sessions |-> Blank]
  /\ approved = {}
  /\ missed = {} /\ astray = {}
  /\ edits = 0

\* The analyses started so far are numbered; an invocation may outlive its thread.
Runs == UNION {{thread.run}, {run[s].run : s \in Sessions}, {result[s].run : s \in Sessions},
               {page[s].run : s \in Sessions}, {a.run : a \in approved}}
LastRun == CHOOSE n \in Runs : \A m \in Runs : m <= n

Node(s) == run[s].next
Running(s, node) == run[s].next = node
Stopped(s) == run[s] = NoThread /\ result[s] = Blank /\ At(s, "idle")

\* A node is done: the state it leaves is checkpointed, and the invocation goes on.
Checkpoint(s, state) == thread' = state /\ run' = [run EXCEPT ![s] = state]

\* The invocation ends, with a result or raising.
Stop(s)      == run' = [run EXCEPT ![s] = NoThread]
Returns(s, p) == Stop(s) /\ result' = [result EXCEPT ![s] = p]
Raised(s)    == Stop(s) /\ UNCHANGED <<thread, result>>

\* The page gets a result.
Show(s, p) == page' = [page EXCEPT ![s] = p] /\ missed' = missed \ {s}

Question == [kind |-> thread.next, run |-> thread.run, form |-> thread.form]

-----------------------------------------------------------------------------
(***************************************************************************)
(* From the files to the proposed profile.                                 *)
(***************************************************************************)

\* "Analyze documents": the thread is dropped and a new one checkpointed with
\* the current profile, unless reading that fails in between.
Analyze(s) ==
  /\ Stopped(s) /\ LastRun < MaxRuns
  /\ \/ /\ Works
        /\ Checkpoint(s, [NoThread EXCEPT !.run = LastRun + 1, !.next = "store",
                                          !.form = profile.content])
        /\ \E n \in 1..MaxFiles : Upload(s, "analyze", n)
     \/ Fault /\ thread' = NoThread /\ UNCHANGED <<run, desk>>
  /\ UNCHANGED <<objects, rows, sources, chunks, issued, lost, leaked>>
  /\ UNCHANGED <<profile, result, page, approved, histories>>

\* store_document is done, or it raised after it undid what it could.
Stored(s) ==
  /\ Running(s, "store")
  /\ \/ /\ At(s, "stored")
        /\ Checkpoint(s, [run[s] EXCEPT !.next = "extract", !.ids = desk[s].done])
        /\ Goto(s, [desk[s] EXCEPT !.pc = "index"])
        /\ UNCHANGED result
     \/ At(s, "failed") /\ Raised(s) /\ Goto(s, Free)
  /\ UNCHANGED <<objects, rows, sources, chunks, issued, lost, leaked, faults>>
  /\ UNCHANGED <<profile, page, approved, histories>>

\* extract_resume reads the files, then indexes their text, one document after
\* the other, and checkpoints; a file without text or a failed write raises.
Extract(s) ==
  /\ Running(s, "extract") /\ At(s, "index")
  /\ \/ /\ Works /\ desk[s].done # <<>>
        /\ chunks' = chunks \cup {Head(desk[s].done)}
        /\ Goto(s, [desk[s] EXCEPT !.done = Tail(@)])
        /\ UNCHANGED <<thread, run, result>>
     \/ /\ Works /\ desk[s].done = <<>>
        /\ Checkpoint(s, [run[s] EXCEPT !.next = "model"])
        /\ Goto(s, Free)
        /\ UNCHANGED <<chunks, result>>
     \/ Fault /\ Raised(s) /\ Goto(s, Free) /\ UNCHANGED chunks
  /\ UNCHANGED <<objects, rows, sources, issued, lost, leaked>>
  /\ UNCHANGED <<profile, page, approved, histories>>

\* A field the documents give replaces the one on file, and lists are united.
Merged(existing, extracted) ==
  [facts |-> existing.facts \cup extracted.facts,
   fields |-> [f \in Required |->
     CASE extracted.fields[f] = "absent" -> existing.fields[f]
       [] OTHER -> extracted.fields[f]]]

\* extract_profile: the model proposes the fields, or the call fails.
Propose(s) ==
  /\ Running(s, "model")
  /\ \/ /\ Works
        /\ \E fields \in Fields :
             LET extracted == [facts |-> ToSet(run[s].ids), fields |-> fields]
             IN  Checkpoint(s, [run[s] EXCEPT !.next = "validate",
                                              !.form = Merged(@, extracted)])
        /\ UNCHANGED result
     \/ Fault /\ Raised(s)
  /\ UNCHANGED <<objects, rows, sources, chunks, desk, issued, lost, leaked>>
  /\ UNCHANGED <<profile, page, approved, histories>>

Validate(s) ==
  /\ Running(s, "validate")
  /\ Checkpoint(s, [run[s] EXCEPT !.next = IF Missing(run[s].form) # {} THEN "collect"
                                           ELSE "confirm"])
  /\ UNCHANGED <<storeVars, profile, result, page, approved, histories>>

-----------------------------------------------------------------------------
(***************************************************************************)
(* The user's answers.                                                     *)
(***************************************************************************)

\* The graph stops: the interrupt is saved, and the invocation returns it.
Ask(s) ==
  /\ Node(s) \in {"collect", "confirm"}
  /\ thread' = [run[s] EXCEPT !.wait = TRUE]
  /\ Returns(s, [kind |-> run[s].next, run |-> run[s].run, form |-> run[s].form])
  /\ UNCHANGED <<storeVars, profile, page, approved, histories>>

\* The result reaches the page, unless a click ended the script before: the page then
\* goes on with what it showed.
Return(s) ==
  /\ result[s] # Blank /\ result' = [result EXCEPT ![s] = Blank]
  /\ \/ Works /\ Show(s, result[s])
     \/ Fault /\ missed' = missed \cup {s} /\ UNCHANGED page
  /\ UNCHANGED <<objects, rows, sources, chunks, desk, issued, lost, leaked>>
  /\ UNCHANGED <<profile, thread, run, approved, astray, edits>>

\* A page without a result takes up a thread that waits for an answer.
Restore(s) ==
  /\ s \in Tabs /\ Stopped(s) /\ page[s].kind = "none" /\ thread.wait
  /\ Show(s, Question)
  /\ UNCHANGED <<storeVars, profile, thread, run, result, approved, astray, edits>>

Reply == [kind : {"collect"}, confirmed : {FALSE}, form : Form]
           \cup [kind : {"confirm"}, confirmed : BOOLEAN, form : Form]

\* What the page can send: the missing fields, or the whole form as edited,
\* with "Confirm and save" off while a required field is missing.
Replies(p) ==
  CASE p.kind = "collect" ->
         {[kind |-> "collect", confirmed |-> FALSE, form |-> [facts |-> p.form.facts, fields |-> v]] :
            v \in {w \in Fields : \A f \in Required \ Missing(p.form) : w[f] = "ok"}}
    [] p.kind = "confirm" ->
         {[kind |-> "confirm", confirmed |-> c, form |-> [facts |-> g, fields |-> v]] :
            c \in BOOLEAN, g \in SUBSET p.form.facts, v \in Fields}
           \ {[kind |-> "confirm", confirmed |-> TRUE, form |-> e] : e \in {x \in Form : Missing(x) # {}}}
    [] OTHER -> {}

\* collect_missing_information: only the posted fields are taken over.
Collected(state, reply, asked) ==
  [state EXCEPT !.wait = FALSE, !.confirmed = FALSE, !.next = "validate",
     !.form.fields = [f \in Required |->
        IF reply.kind = "collect" /\ f \in asked THEN reply.form.fields[f] ELSE @[f]]]

\* Mutant: the route looks at the form only.
ConfirmedIfComplete(state, reply) ==
  LET form == IF reply.kind = "confirm" THEN reply.form ELSE state.form
  IN  [state EXCEPT !.wait = FALSE, !.form = form, !.confirmed = reply.confirmed,
                    !.next = IF Missing(form) = {} THEN "save" ELSE "confirm"]

\* Mutant: the interrupt stays pending after it was answered.
ConfirmedStillWaiting(state, reply) ==
  LET form == IF reply.kind = "confirm" THEN reply.form ELSE state.form
      yes  == reply.confirmed /\ Missing(form) = {}
  IN  [state EXCEPT !.form = form, !.confirmed = yes,
                    !.next = IF yes THEN "save"
                             ELSE IF Missing(form) # {} THEN "confirm" ELSE "end"]

\* confirm_profile: the posted form replaces the proposal; it is saved when it
\* was confirmed and complete, asked for again when a required field is missing
\* (also when it was cancelled), and dropped otherwise.  The fields of the
\* other form are not a form: the proposal stays, unconfirmed.
Confirmed(state, reply) ==
  LET form == IF reply.kind = "confirm" THEN reply.form ELSE state.form
      yes  == reply.confirmed /\ Missing(form) = {}
  IN  [state EXCEPT !.wait = FALSE, !.form = form, !.confirmed = yes,
                    !.next = IF yes THEN "save"
                             ELSE IF Missing(form) # {} THEN "confirm" ELSE "end"]

\* An answer resumes the thread.  A thread that stopped to ask takes it; one
\* that failed runs the failed node again and drops it; the files of an
\* upload are gone by then, and a dropped thread cannot be resumed, so these
\* raise and change nothing.
Answer(s) ==
  /\ s \in Tabs /\ Stopped(s)
  /\ \E reply \in Replies(page[s]) :
       LET taken == CASE thread.next = "collect" ->
                           Collected(thread, reply, Missing(page[s].form))
                      [] thread.next = "confirm" -> Confirmed(thread, reply)
                      [] thread.next \in {"model", "validate", "save"} -> thread
                      [] OTHER -> NoThread
       IN  /\ thread.next \notin {"none", "store", "extract"}
           /\ IF taken.next \in {"none", "end"} THEN Returns(s, Over)
              ELSE run' = [run EXCEPT ![s] = taken] /\ UNCHANGED result
           /\ thread' = IF taken = NoThread THEN thread ELSE taken
           /\ approved' = IF thread.next = "confirm" /\ taken.confirmed
                          THEN approved \cup {[run |-> thread.run, form |-> taken.form]}
                          ELSE approved
           /\ astray' = IF thread.next = "confirm" /\ reply.kind = "confirm" /\ page[s].run # thread.run
                        THEN astray \cup reply.form.facts ELSE astray
  /\ UNCHANGED <<storeVars, profile, page, missed, edits>>

-----------------------------------------------------------------------------
(***************************************************************************)
(* Saving.                                                                 *)
(***************************************************************************)

\* Mutant: only the new documents are recorded with the version.
SourcesOfBatch(ids) == ToSet(ids)

\* A version keeps the sources of the one before it.
SourcesWith(ids) == sources \cup ToSet(ids)

OwnedSources(ids) == SourcesWith(ids) \subseteq rows

\* Mutant: saving the same facts again makes a version.
Rewrites(form) == TRUE

Changes(form) == form # profile.content

\* save_profile: one transaction writes a version when the profile changes; it
\* raises when a document is no longer on record or the database fails.
Save(s) ==
  /\ Running(s, "save")
  /\ LET form == run[s].form
         ids  == run[s].ids
     IN  \/ /\ Works /\ Changes(form) /\ OwnedSources(ids)
            /\ profile' = [n |-> profile.n + 1, content |-> form,
                           past |-> profile.past \cup form.facts]
            /\ sources' = SourcesWith(ids)
            /\ run' = [run EXCEPT ![s].next = "end"]
            /\ UNCHANGED <<thread, result>>
         \/ /\ Works /\ ~Changes(form)
            /\ run' = [run EXCEPT ![s].next = "end"]
            /\ UNCHANGED <<profile, sources, thread, result>>
         \/ /\ (Works /\ Changes(form) /\ ~OwnedSources(ids)) \/ Fault
            /\ Raised(s) /\ UNCHANGED <<profile, sources>>
  /\ UNCHANGED <<objects, rows, chunks, desk, issued, lost, leaked, page, approved, histories>>

\* The saved run is checkpointed as ended, or that write fails.
Finish(s) ==
  /\ Running(s, "end")
  /\ \/ Works /\ thread' = run[s] /\ Returns(s, Over)
     \/ Fault /\ Raised(s)
  /\ UNCHANGED <<objects, rows, sources, chunks, desk, issued, lost, leaked>>
  /\ UNCHANGED <<profile, page, approved, histories>>

\* The Profile page, or a draft of a conversation, saves a version of its own: the user
\* keeps facts, drops some, or takes up values of former versions; sources stay.
EditProfile(s) ==
  /\ Stopped(s) /\ profile.n > 0 /\ sources \subseteq rows
  /\ edits < MaxEdits /\ edits' = edits + 1
  /\ \E form \in Form :
       /\ Missing(form) = {} /\ form.facts \subseteq profile.past /\ Changes(form)
       /\ profile' = [profile EXCEPT !.n = @ + 1, !.content = form]
  /\ UNCHANGED <<storeVars, thread, run, result, page, approved, missed, astray>>

\* The process of a session dies, and its page with it.
Die(s) ==
  /\ ~Stopped(s) \/ page[s].kind # "none"
  /\ Fault
  /\ Abandoned(s) /\ Goto(s, Free)
  /\ Returns(s, Blank) /\ Show(s, Blank)
  /\ UNCHANGED <<objects, rows, sources, chunks, issued, profile, thread, approved>>
  /\ UNCHANGED <<astray, edits>>

GraphStep(s) ==
  \/ Stored(s) \/ Extract(s) \/ Propose(s) \/ Validate(s) \/ Ask(s) \/ Save(s) \/ Finish(s)
  \/ Return(s)

DeskStep(s) == StoreStep(s) /\ UNCHANGED onboardingVars

UserStep(s) ==
  \/ s \in Tabs /\ Analyze(s)
  \/ Restore(s) \/ Answer(s) \/ EditProfile(s)
  \/ /\ s \in Shelves /\ Stopped(s) /\ (StoreOnly(s) \/ \E d \in Docs : Delete(s, d))
     /\ UNCHANGED onboardingVars

Next == \E s \in Sessions : UserStep(s) \/ GraphStep(s) \/ DeskStep(s) \/ Die(s)

Spec == Init /\ [][Next]_vars

\* A script that is running goes on.
FairSpec == Spec /\ \A s \in Sessions : WF_vars(GraphStep(s) \/ DeskStep(s))

-----------------------------------------------------------------------------
(***************************************************************************)
(* Properties.                                                             *)
(***************************************************************************)

\* What any version of the profile has said comes from documents it names as its
\* sources: the form that is confirmed and the documents recorded with it belong to
\* the same analysis, through failed nodes, repeated answers, restarts and edits of
\* the profile.  Only a form confirmed for a later analysis than its own brings facts
\* of other documents.
FactsAreSourced == profile.past \subseteq sources \cup astray

\* The onboarding saves only a form the user confirmed, complete, in the analysis that
\* saves it, and one confirmation makes one version: no cancelled form, no answer given
\* to a failed thread and no restart brings another one to the profile, and the save
\* may run again after the write that records its end failed.  When it does so after
\* the user edited the profile, once for each edit, it saves the old form again.
SavedAsConfirmed ==
  [][profile' # profile /\ edits' = edits =>
       /\ Missing(profile'.content) = {}
       /\ \E s \in Sessions :
            [run |-> run[s].run, form |-> profile'.content] \in approved
       /\ profile'.n - edits <= Cardinality(approved) + edits]_vars

\* The form on the page is the one its thread waits for, once the script is done and
\* unless its result was lost: no answer is taken for another analysis or another
\* question, whatever fails.
PageIsCurrent ==
  \A s \in Tabs \ missed :
    thread.wait /\ result[s] = Blank /\ page[s].kind \in {"collect", "confirm"} =>
      page[s] = Question

\* Every call returns: the storing, undoing, extracting and saving of an
\* invocation come to an end, and the page is given back to the user.
CallEnds == \A s \in Sessions : ~Stopped(s) ~> Stopped(s)
=============================================================================
