--------------------------- MODULE SearchSession ---------------------------
(***************************************************************************)
(* One search session of a run: the same request, searched again and again *)
(* and paged through.  A search takes the next sources not yet on record,  *)
(* reserves a call for each, fetches them at once, reserves more calls to  *)
(* read what they point to, records each source as done, stores what it    *)
(* said as evidence, may discover more on the web, and finally merges,     *)
(* filters, ranks and saves the records.  Only the last step saves them: a *)
(* search that raises keeps its reservations and its sources on record.    *)
(* Job and people searches have this shape and differ in what is marked.   *)
(***************************************************************************)
EXTENDS Naturals, Sequences, FiniteSets, SequencesExt, FiniteSetsExt, Selection

CONSTANTS
  Catalog,      \* the job sources of the request, in its order: a source it names twice, twice
  Registers,    \* the people sources, in the order they are asked
  Closed,       \* catalog entries that are disabled or not verified
  Boards,       \* sources whose answer is final; a careers page only points to jobs
  Candidates,   \* jobs or people that sources may return
  Offers,       \* what each source may return
  Web,          \* what discovery may lead to
  Connections,  \* people the user entered
  Verdict,      \* what the request's hard requirements say of each candidate
  Official,     \* candidates whose source is approved for claims
  Samples,      \* the demo snapshot, in file order
  Budget,       \* source calls the run may make
  PerIteration, \* sources of one search
  Shortlist,    \* candidates that are ranked
  Shown,        \* records that are saved
  PageSize,     \* records of one page
  Requested,    \* records the request asks for
  Useful,       \* live records that make the demo snapshot unnecessary
  MaxSearches,  \* bound: searches started
  MaxFailures   \* bound: searches that raise

Sources == ToSet(Catalog) \cup ToSet(Registers)

ASSUME SourceAssumption ==
  /\ Catalog \in Seq(Sources) /\ Registers \in Seq(Sources)
  /\ Closed \subseteq ToSet(Catalog) /\ Boards \subseteq Sources
  /\ Offers \in [Sources -> SUBSET Candidates] /\ Web \subseteq Candidates
  /\ Connections \subseteq Candidates
ASSUME CandidateAssumption ==
  /\ IsFiniteSet(Candidates)
  /\ Samples \in Seq(ToSet(Samples)) /\ IsInjective(Samples)
  /\ Verdict \in [Candidates \cup ToSet(Samples) -> {"verified", "unverified", "conflict"}]
  /\ ToSet(Samples) \cap Candidates = {}
  /\ \A x \in ToSet(Samples) : Verdict[x] = "unverified"
ASSUME SearchBounds ==
  /\ Budget \in Nat /\ PerIteration \in Nat \ {0} /\ PageSize \in Nat \ {0}
  /\ Shortlist \in Nat /\ Shown \in 1..Shortlist /\ Requested \in 1..Shown
  /\ Useful \in Nat /\ MaxSearches \in Nat /\ MaxFailures \in Nat

VARIABLES
  setting,  \* what the search is for, and which optional providers are on
  session,  \* the search session's row and the sources it has on record
  search,   \* the search that is running
  page,     \* the last page the run was given
  counted,  \* source calls reported to the run
  made,     \* requests sent to providers
  asked,    \* how often each source was fetched
  searches, \* searches started
  failures  \* searches that raised

tally == <<counted, made, asked, searches, failures>>
vars  == <<setting, session, search, page, tally>>

Known  == Candidates \cup ToSet(Samples)
Labels == {"own", "official", "public", "sample"}
Record == [id : Known, label : Labels]
Session == [remaining : 0..Budget, records : Seq(Record), exhausted : SUBSET Sources]
Ids(records) == {records[i].id : i \in DOMAIN records}
Listed(records) == [i \in DOMAIN records |-> records[i].id]

\* The records from one index to another, as far as there are any.
Slice(seq, from, to) == SubSeq(seq, from, Min({to, Len(seq)}))

NoSearch ==
  [pc |-> "idle", offset |-> 0, known |-> {}, todo |-> <<>>, tasks |-> <<>>,
   answer |-> [ok |-> FALSE, found |-> {}], found |-> {}, calls |-> 0, late |-> FALSE]
Searches ==
  [pc : {"idle", "plan", "read", "record", "keep", "discover", "rank"},
   offset : 0..Shown, known : SUBSET Sources, todo : Seq(Sources), tasks : Seq(Sources),
   answer : [ok : BOOLEAN, found : SUBSET Candidates], found : SUBSET Candidates,
   calls : 0..Budget, late : BOOLEAN]

\* shown: what the pages of the walk showed, from the start and without a gap (whole).
NoPage == [next |-> 0, shown |-> <<>>, whole |-> FALSE]
Pages  == [next : 0..Shown, shown : Seq(Known), whole : BOOLEAN]

TypeOK ==
  /\ setting \in [kind : {"job", "people"}, judge : BOOLEAN, web : BOOLEAN, render : BOOLEAN]
  /\ session \in Session
  /\ search \in Searches
  /\ page \in Pages
  /\ counted \in 0..Budget /\ made \in 0..Budget
  /\ asked \in [Sources -> Nat]
  /\ searches \in 0..MaxSearches /\ failures \in 0..MaxFailures

Init ==
  /\ setting \in [kind : {"job", "people"}, judge : BOOLEAN, web : BOOLEAN, render : BOOLEAN]
  /\ session = [remaining |-> Budget, records |-> <<>>, exhausted |-> {}]
  /\ search = NoSearch
  /\ page = NoPage
  /\ counted = 0 /\ made = 0
  /\ asked = [s \in Sources |-> 0]
  /\ searches = 0 /\ failures = 0

At(pc)   == search.pc = pc
ForJobs  == setting.kind = "job"
MaxCalls == Budget - counted

\* Calls are reserved as far as the session has some left.
CanReserve == session.remaining > 0
Reserved(n) == [session EXCEPT !.remaining = @ - Min({n, @})]

-----------------------------------------------------------------------------
(***************************************************************************)
(* Paging.                                                                 *)
(***************************************************************************)

\* Mutant: the next page starts one record late.
SkippingPage(records, offset) ==
  LET items == Slice(records, offset + 1, offset + PageSize)
      next  == offset + Len(items) + 1
  IN  [items |-> Listed(items), next |-> IF next < Len(records) THEN next ELSE 0]

\* A page is a window on the saved records; its next cursor is where it ends, if more follow.
PageAt(records, offset) ==
  LET items == Slice(records, offset + 1, offset + PageSize)
      next  == offset + Len(items)
  IN  [items |-> Listed(items), next |-> IF next < Len(records) THEN next ELSE 0]

\* The run sees a page; it goes on with the walk if it starts where the last one ended.
Shows(records, offset) ==
  LET p       == PageAt(records, offset)
      follows == offset # 0 /\ page.whole /\ offset = page.next
  IN  page' = [next  |-> p.next,
               shown |-> IF follows THEN page.shown \o p.items ELSE p.items,
               whole |-> offset = 0 \/ follows]

\* A cursor, when there are records: no source is asked.  It need not be the last one.
TurnPage(offset) ==
  /\ At("idle") /\ session.records # <<>>
  /\ Shows(session.records, offset)
  /\ UNCHANGED <<setting, session, search, tally>>

-----------------------------------------------------------------------------
(***************************************************************************)
(* One search.                                                             *)
(***************************************************************************)

\* Mutant: sources on record are planned again.
PlannedAnew == Slice(Catalog, 1, PerIteration)

NotOnRecord == Sources \ session.exhausted

\* The next few sources of the catalog that are not on record.
PlannedJobs == Slice(Selected(Catalog, NotOnRecord), 1, PerIteration)

\* All the registers that are not on record.
PlannedPeople == Selected(Registers, NotOnRecord)

\* No cursor, or a cursor of a session without records.
Begin(offset, sources, found) ==
  /\ At("idle") /\ searches < MaxSearches
  /\ offset = 0 \/ session.records = <<>>
  /\ search' = [NoSearch EXCEPT !.pc = "plan", !.offset = offset,
                                !.known = session.exhausted, !.todo = sources, !.found = found]
  /\ searches' = searches + 1
  /\ UNCHANGED <<setting, session, page, counted, made, asked, failures>>

StartJobSearch(offset) == ForJobs /\ Begin(offset, PlannedJobs, {})

\* The user's connections are always among the people.
StartPeopleSearch(offset) == ~ForJobs /\ Begin(offset, PlannedPeople, Connections)

\* A catalog entry that must not be asked is put on record as it is.
SkipClosed ==
  /\ ForJobs /\ At("plan") /\ search.todo # <<>> /\ Head(search.todo) \in Closed
  /\ search.calls < MaxCalls
  /\ session' = [session EXCEPT !.exhausted = @ \cup {Head(search.todo)}]
  /\ search' = [search EXCEPT !.todo = Tail(@)]
  /\ UNCHANGED <<setting, page, tally>>

\* A call is reserved for the next source; without one the plan ends here.
Plan(paid) ==
  /\ At("plan") /\ search.todo # <<>>
  /\ IF paid
     THEN /\ session' = Reserved(1)
          /\ search' = [search EXCEPT !.todo = Tail(@), !.calls = @ + 1,
                                      !.tasks = Append(@, Head(search.todo))]
     ELSE /\ search' = [search EXCEPT !.todo = <<>>]
          /\ UNCHANGED session
  /\ UNCHANGED <<setting, page, tally>>

PlanSource ==
  /\ ForJobs /\ At("plan") /\ search.todo # <<>>
  /\ \/ Head(search.todo) \notin Closed /\ search.calls < MaxCalls /\ Plan(CanReserve)
     \/ search.calls >= MaxCalls /\ Plan(FALSE)

PlanRegister == ~ForJobs /\ Plan(CanReserve)

\* run_provider_fetches: the planned sources are asked at once, a source planned twice with
\* two requests, of which the last one's answer is kept.
Fetch ==
  /\ At("plan") /\ search.todo = <<>>
  /\ search' = [search EXCEPT !.pc = "read", !.tasks = Distinct(@)]
  /\ made' = made + Len(search.tasks)
  /\ asked' = [s \in Sources |-> asked[s] + Times(search.tasks, s)]
  /\ UNCHANGED <<setting, session, page, counted, searches, failures>>

\* Mutant: what cannot be reserved is read all the same.
Unreserved(wanted, left) == Cardinality(wanted)

\* What is worth a call of its own gets one, as long as the session has some left.
Readable(wanted, left) == Min({Cardinality(wanted), left})

Answered(found, n) ==
  /\ search' = [search EXCEPT !.pc = "record", !.calls = @ + n,
                              !.answer = [ok |-> TRUE, found |-> found]]
  /\ session' = Reserved(n)
  /\ made' = made + n
  /\ UNCHANGED <<setting, page, counted, asked, searches, failures>>

\* A browser may render the careers page of a company for which nothing is listed.
Renders == setting.render /\ CanReserve

\* A job source answers.  A board lists records; a careers page only says where the jobs
\* are, and each is read with a call of its own.  A search for a judge that takes too long
\* stops early.
ReadAnswer(listed, rendered) ==
  LET s    == Head(search.tasks)
      r    == IF rendered THEN 1 ELSE 0
      most == Readable(listed, session.remaining - r)
  IN
  /\ At("read") /\ search.tasks # <<>> /\ ForJobs
  /\ listed \subseteq Offers[s]
  /\ rendered => Renders
  /\ rendered \/ ~Renders \/ listed # {} \/ setting.judge
  /\ \/ s \in Boards /\ Answered(listed, r)
     \/ /\ s \notin Boards
        /\ \E n \in 0..most, kept \in SUBSET listed :
             /\ n = most \/ setting.judge
             /\ Cardinality(kept) <= n
             /\ Answered(kept, r + n)

\* A register of people answers.
ReadRegister(listed) ==
  /\ At("read") /\ search.tasks # <<>> /\ ~ForJobs
  /\ listed \subseteq Offers[Head(search.tasks)]
  /\ Answered(listed, 0)

\* The source fails, or a judge's search is over before it answers: its answer is dropped.
ReadNothing(late) ==
  /\ At("read") /\ search.tasks # <<>>
  /\ late => setting.judge
  /\ search' = [search EXCEPT !.pc = "record", !.late = @ \/ late,
                              !.answer = [ok |-> FALSE, found |-> {}]]
  /\ UNCHANGED <<setting, session, page, tally>>

\* Mutant: only a source that answered is put on record.
RecordedIfOk(s) == IF search.answer.ok THEN {s} ELSE {}

\* No adapter ever has more: whatever the answer, the source is done with.
Recorded(s) == {s}

RecordSource ==
  /\ At("record")
  /\ session' = [session EXCEPT !.exhausted = @ \cup Recorded(Head(search.tasks))]
  /\ search' = [search EXCEPT !.pc = IF search.answer.ok THEN "keep" ELSE "read",
                              !.tasks = IF search.answer.ok THEN @ ELSE Tail(@)]
  /\ UNCHANGED <<setting, page, tally>>

\* The answer is stored as evidence, and its records count.
KeepEvidence ==
  /\ At("keep")
  /\ search' = [search EXCEPT !.pc = "read", !.tasks = Tail(@),
                              !.found = @ \cup search.answer.found]
  /\ UNCHANGED <<setting, session, page, tally>>

\* No more answers: one call discovers pages on the web, n more read them, and some are
\* rendered with yet another call.
Discovered(pages, n, again) ==
  LET calls == 1 + n + again IN
  /\ At("read") /\ search.tasks = <<>>
  /\ setting.web /\ search.calls < MaxCalls /\ CanReserve
  /\ pages \subseteq Web /\ n <= Cardinality(pages) /\ calls <= session.remaining
  /\ \E kept \in SUBSET pages :
       /\ Cardinality(kept) <= n
       /\ search' = [search EXCEPT !.pc = "rank", !.calls = @ + calls,
                                   !.found = @ \cup kept]
  /\ session' = Reserved(calls)
  /\ made' = made + calls
  /\ UNCHANGED <<setting, page, counted, asked, searches, failures>>

\* The pages are read as long as there are calls for it.
ReadsAll(pages, n, again) ==
  \/ n = Cardinality(pages)
  \/ 1 + n + again = session.remaining
  \/ search.calls + 1 + n + again >= MaxCalls

DiscoverJobs(pages, n) ==
  /\ ForJobs
  /\ ReadsAll(pages, n, 0) \/ setting.judge
  /\ Discovered(pages, n, 0)

\* A person's page that says nothing may be rendered.
DiscoverPeople(pages, n, again) ==
  /\ ~ForJobs
  /\ again <= IF setting.render THEN n ELSE 0
  /\ ReadsAll(pages, n, again)
  /\ Discovered(pages, n, again)

\* Discovery is off, not paid for, or too late for a judge.
NoDiscovery ==
  /\ At("read") /\ search.tasks = <<>>
  /\ ~setting.web \/ search.calls >= MaxCalls \/ ~CanReserve \/ setting.judge
  /\ search' = [search EXCEPT !.pc = "rank"]
  /\ UNCHANGED <<setting, session, page, tally>>

-----------------------------------------------------------------------------
(***************************************************************************)
(* What a search saves.                                                    *)
(***************************************************************************)

Meets(id)     == Verdict[id] = "verified"
Conflicts(id) == Verdict[id] = "conflict"
Met           == {id \in Known : Meets(id)}

\* Mutant: a job that contradicts the request is ranked.
UnfilteredJobs == Ids(session.records) \cup search.found

\* The saved records and the new ones, without those the request rules out.
FitJobs == {id \in Ids(session.records) \cup search.found : ~Conflicts(id)}

\* People who are not what is asked for are dropped when they are found.
FitPeople == Ids(session.records) \cup {id \in search.found : ~Conflicts(id)}

Fit == IF ForJobs THEN FitJobs ELSE FitPeople

\* The best by words, ranked in some order by the retrieval index.
Rankings ==
  LET size == Min({Cardinality(Fit), Shortlist})
  IN  UNION {SetToSeqs(S) : S \in kSubset(size, Fit)}

\* Mutant: jobs are saved as they are ranked.
AsRanked(ranking) == ranking

\* Jobs that meet every requirement come before those not fully verified.
InOrder(ranking) ==
  IF ForJobs THEN Selected(ranking, Met) \o Selected(ranking, Known \ Met)
  ELSE ranking

\* Jobs are labelled anew at each search.
JobLabel(id) == IF id \in Official THEN "official" ELSE "public"

\* People are labelled when they are found.
PersonLabel(id) ==
  LET saved == {r \in Range(session.records) : r.id = id} IN
  IF id \notin search.found THEN (CHOOSE r \in saved : TRUE).label
  ELSE IF id \in Connections THEN "own"
  ELSE JobLabel(id)

LabelOf(id) == IF ForJobs THEN JobLabel(id) ELSE PersonLabel(id)

Live(ranking) ==
  LET ids == Slice(InOrder(ranking), 1, Shown)
  IN  [i \in DOMAIN ids |-> [id |-> ids[i], label |-> LabelOf(ids[i])]]

\* A judge's search that found too little and took too long is filled up.
Needy(live) == setting.judge /\ Len(live) < Useful

Filled(live) ==
  LET rest == Selected(Samples, Known \ Ids(live))
      more == Slice(rest, 1, IF Len(live) < Requested THEN Requested - Len(live) ELSE 0)
  IN  live \o [i \in DOMAIN more |-> [id |-> more[i], label |-> "sample"]]

Save(records) ==
  /\ session' = [session EXCEPT !.records = records]
  /\ Shows(records, search.offset)
  /\ counted' = counted + search.calls
  /\ search' = NoSearch

Rank ==
  /\ At("rank")
  /\ \E ranking \in Rankings :
       LET live == Live(ranking)
       IN  \/ ~(Needy(live) /\ search.late) /\ Save(live)
           \/ Needy(live) /\ Save(Filled(live))
  /\ UNCHANGED <<setting, made, asked, searches, failures>>

\* A write, an index or an answer too large to store raises: the tool reports a failure
\* and no calls; what is committed stays.
Raise ==
  /\ ~At("idle") /\ failures < MaxFailures
  /\ failures' = failures + 1
  /\ search' = NoSearch
  /\ UNCHANGED <<setting, session, page, counted, made, asked, searches>>

-----------------------------------------------------------------------------
Step ==
  \/ SkipClosed \/ PlanSource \/ PlanRegister \/ Fetch
  \/ \E listed \in SUBSET Candidates, rendered \in BOOLEAN : ReadAnswer(listed, rendered)
  \/ \E listed \in SUBSET Candidates : ReadRegister(listed)
  \/ \E late \in BOOLEAN : ReadNothing(late)
  \/ RecordSource \/ KeepEvidence
  \/ \E pages \in SUBSET Web, n \in 0..Cardinality(Web) :
       \/ DiscoverJobs(pages, n)
       \/ \E again \in 0..n : DiscoverPeople(pages, n, again)
  \/ NoDiscovery \/ Rank

Next ==
  \/ \E offset \in 0..Shown :
       TurnPage(offset) \/ StartJobSearch(offset) \/ StartPeopleSearch(offset)
  \/ Step
  \/ Raise

Spec == Init /\ [][Next]_vars

-----------------------------------------------------------------------------
(***************************************************************************)
(* Properties.                                                             *)
(***************************************************************************)

\* How often the request names a source.
Named(s) == Times(IF ForJobs THEN Catalog ELSE Registers, s)

\* A source is asked as often as the request names it, and again only as often as a search
\* raised before the source was put on record.
AskedWithin == \A s \in Sources : asked[s] <= (1 + failures) * Named(s)

\* No request goes to a provider without a call reserved for it, the calls reported to
\* the run are calls that were reserved, also when searches raise half-way, and no source
\* is asked more often than the request and the searches that raised account for.
CallsAreReserved ==
  /\ made + (IF At("plan") THEN Len(search.tasks) ELSE 0) <= Budget - session.remaining
  /\ counted + search.calls <= Budget - session.remaining
  /\ AskedWithin

\* Following the cursors from the first page to the last shows the saved records, each once.
WalkShowsAll ==
  page.whole /\ page.next = 0 => page.shown = Listed(session.records)

\* A search that completes with calls left has put a source on record, unless all that
\* were to be asked were: searching again and again comes to an end.
Completes == At("rank") /\ search'.pc = "idle" /\ failures' = failures
SearchProgresses ==
  [][Completes /\ session.remaining > 0 =>
       \/ session.exhausted # search.known
       \/ (IF ForJobs THEN ToSet(Catalog) ELSE ToSet(Registers)) \subseteq search.known]_vars

\* No more records than a session may save, each once, none that contradicts the request,
\* and for jobs the verified ones first.
FitRecords(records) ==
  /\ Len(records) <= Shown
  /\ \A i, j \in DOMAIN records : records[i].id = records[j].id => i = j
  /\ \A i \in DOMAIN records : ~Conflicts(records[i].id)
  /\ ForJobs => \A i, j \in DOMAIN records :
       i < j /\ Meets(records[j].id) => Meets(records[i].id)

\* A search saves records that are fit, and leaves a fit one out, saved or newly found,
\* only for others: the page is full, and for jobs a verified one gives way to verified
\* ones only, unless too many were found to rank them all.
SavesTheBest ==
  [][Completes =>
       /\ FitRecords(session'.records)
       /\ \A id \in Fit \ Ids(session'.records) :
            /\ Len(session'.records) = Shown
            /\ ForJobs /\ Meets(id) /\ Cardinality(Fit) <= Shortlist =>
                 \A kept \in Ids(session'.records) : Meets(kept)]_vars
=============================================================================
