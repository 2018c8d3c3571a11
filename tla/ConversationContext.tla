------------------------ MODULE ConversationContext ------------------------
(***************************************************************************)
(* What the agent knows when it answers.  A turn stores the user's         *)
(* message, records the hints it gives about the profile and memories, and *)
(* then puts its context together from reads that are transactions of      *)
(* their own: the conversation, its latest summary, the saved profile, the *)
(* times its fields were written, the hints, a catalog of the active       *)
(* memories, the details of those it selects, and the messages they came   *)
(* from.  A context that is too long has its older half summarised and is  *)
(* put together again.  Other browser tabs ask in the same conversation,   *)
(* save the profile and approve or retire memories in between.             *)
(***************************************************************************)
EXTENDS Naturals, Sequences, FiniteSets, SequencesExt, FiniteSetsExt, Selection

CONSTANTS
  Tabs,        \* browser tabs with the conversation open
  Texts,       \* what a user may write
  Topics,      \* profile fields and kinds of memory a hint may be about
  Fields,      \* the profile fields among them
  Scalars,     \* the fields that hold one value
  Words,       \* values of a field or statements of a kind
  Says,        \* the hints a text gives, in order
  Memories,
  KindOf,      \* the kind of each memory
  Legacy,      \* memories of the older table
  Saves,       \* profiles the user may save
  Opening,     \* the conversation when it is opened again: texts that give no hints
  Fits,        \* messages of a history that stay below the compression threshold
  CardLimit,   \* memories whose details may be loaded at once
  SourceLimit, \* memories whose source messages are read
  MaxToolTurns, \* bound: times one turn asks the model again after its tools
  MaxMessages, \* bound: messages of the conversation
  MaxSaves     \* bound: profile saves

Values    == SUBSET Words
Statement == {s \in [about : Topics, op : {"add", "replace", "remove"}, words : Values] :
                s.about \in Scalars => Cardinality(s.words) <= 1}
Profiles  == {p \in [Fields -> Values] : \A f \in Scalars : Cardinality(p[f]) <= 1}

ASSUME TabAssumption == IsFiniteSet(Tabs)
ASSUME TopicAssumption ==
  /\ Scalars \subseteq Fields /\ Fields \subseteq Topics
  /\ Says \in [Texts -> Seq(Statement)]
  /\ KindOf \in [Memories -> Topics \ Fields] /\ Legacy \subseteq Memories
  /\ Saves \subseteq Profiles
  /\ Opening \in Seq(Texts) /\ \A i \in DOMAIN Opening : Says[Opening[i]] = <<>>
ASSUME ContextBounds ==
  /\ Fits \in Nat /\ CardLimit \in Nat /\ SourceLimit \in 0..CardLimit
  /\ MaxMessages \in Nat /\ Len(Opening) <= MaxMessages /\ MaxSaves \in Nat
  /\ MaxToolTurns \in Nat

VARIABLES
  messages,  \* the conversation
  hints,     \* the hints recorded from it, in the order they were recorded
  profile,   \* the saved profile
  written,   \* when each field was last written: how many hints were recorded before
  saves,     \* profile saves
  memory,    \* the state of each memory
  summaries, \* the summaries of the conversation, oldest first
  turn,      \* what each tab is doing
  replayed,  \* each topic after all that the user has said and saved, one after the other
  doubtful   \* topics of which something was not recorded as the user said or saved it

store   == <<messages, hints, profile, written, saves, memory, summaries>>
account == <<replayed, doubtful>>
vars    == <<store, turn, account>>

Message == [role : {"user", "assistant"}, text : Texts]
Hint    == [from : Nat, says : Statement]
Summary == [through : 1..MaxMessages, batch : SUBSET (1..MaxMessages)]

\* A context in the making: ask is the message it answers, seen and base are how many
\* messages and summaries it read, profile, written and heard the profile, the times and
\* the hints it read, cards the memories it selected, held those it loaded, gone those
\* that had been retired and then the saves when the user asked, round the saves when it
\* read the profile, again how often the model was asked again.
NoTurn ==
  [pc |-> "idle", ask |-> 0, seen |-> 0, base |-> 0, profile |-> [f \in Fields |-> {}],
   written |-> [f \in Fields |-> 0], heard |-> 0,
   cards |-> {}, held |-> {}, gone |-> {}, then |-> 0, round |-> 0, again |-> 0]
Turns ==
  [pc : {"idle", "classify", "conversation", "summary", "profile", "revisions", "hints",
         "catalog", "details", "sources", "fit", "compress", "ready", "failed"},
   ask : 0..MaxMessages, seen : 0..MaxMessages, base : Nat, profile : Profiles,
   written : [Fields -> Nat], heard : Nat,
   cards : SUBSET Memories, held : SUBSET Memories, gone : SUBSET Memories,
   then : 0..MaxSaves, round : 0..MaxSaves, again : 0..MaxToolTurns]

TypeOK ==
  /\ messages \in Seq(Message) /\ Len(messages) <= MaxMessages
  /\ hints \in Seq(Hint)
  /\ profile \in Profiles
  /\ written \in [Fields -> Nat]
  /\ saves \in 0..MaxSaves
  /\ memory \in [Memories -> {"new", "active", "retired"}]
  /\ summaries \in Seq(Summary)
  /\ turn \in [Tabs -> Turns]
  /\ replayed \in [Topics -> Values] /\ [f \in Fields |-> replayed[f]] \in Profiles
  /\ doubtful \subseteq Topics

Init ==
  /\ messages = [i \in DOMAIN Opening |->
                   [role |-> IF i % 2 = 1 THEN "user" ELSE "assistant", text |-> Opening[i]]]
  /\ hints = <<>> /\ summaries = <<>>
  /\ profile \in Saves
  /\ written = [f \in Fields |-> 0]
  /\ saves = 0
  /\ memory = [m \in Memories |-> "new"]
  /\ turn = [t \in Tabs |-> NoTurn]
  /\ replayed = [k \in Topics |-> IF k \in Fields THEN profile[k] ELSE {}]
  /\ doubtful = {}

With(s)  == {m \in Memories : memory[m] = s}
At(t, p) == turn[t].pc = p

\* A step of a turn that only reads.
Read(t, p, q, read) ==
  /\ At(t, p)
  /\ turn' = [turn EXCEPT ![t] = [read EXCEPT !.pc = q]]
  /\ UNCHANGED <<store, account>>

-----------------------------------------------------------------------------
(***************************************************************************)
(* The history and the hints.                                              *)
(***************************************************************************)

\* The request itself is not history: a last message of the same text is taken off.
Earlier(t) ==
  LET n == turn[t].seen
  IN  IF n > 0 /\ messages[n] = messages[turn[t].ask] THEN 1..(n - 1) ELSE 1..n

\* Mutant: the message after the summary is taken for summarised as well.
ShortHistory(t) ==
  IF turn[t].base = 0 THEN Earlier(t)
  ELSE {i \in Earlier(t) : i > summaries[turn[t].base].through + 1}

\* The history starts after the latest summary, or from the start when the message the
\* summary ends with is not among the messages that were read.
History(t) ==
  LET through == summaries[turn[t].base].through
  IN  IF turn[t].base = 0 \/ through \notin Earlier(t) THEN Earlier(t)
      ELSE {i \in Earlier(t) : i > through}

\* The older half of the history, and two messages at least.
Older(t) ==
  LET h == History(t)
      n == Max({2, Cardinality(h) \div 2})
  IN  {i \in h : Cardinality({j \in h : j <= i}) <= n}

\* Mutant: a new single value joins the old one.
KeptBoth(value, s) == IF s.op = "remove" THEN value \ s.words ELSE value \cup s.words

\* A list takes a hint as it says; a single value is cleared or taken over.
Applied(value, s) ==
  IF s.about \in Scalars
  THEN IF s.op = "remove" THEN {} ELSE IF s.words = {} THEN value ELSE s.words
  ELSE CASE s.op = "remove"  -> value \ s.words
         [] s.op = "replace" -> s.words
         [] OTHER            -> value \cup s.words

\* Mutant: every hint counts, however old it is next to the field.
AnyHint(k, at, i) == hints[i].says.about = k

\* A hint counts for a field if it was recorded after the field was last written.
Counts(k, at, i) ==
  /\ hints[i].says.about = k
  /\ k \in Fields => i > at[k]

\* A value after the first n statements, applied one after the other as far as they count.
AppliedInTurn(value, says, counting, n) ==
  LET after[i \in Nat] ==
        IF i = 0 THEN value
        ELSE IF i \in counting THEN Applied(after[i - 1], says[i]) ELSE after[i - 1]
  IN  after[n]

\* What the first so many hints make of a topic, from the saved profile.
Overlaid(k, from, at, heard) ==
  AppliedInTurn(IF k \in Fields THEN from[k] ELSE {}, [i \in 1..heard |-> hints[i].says],
                {i \in 1..heard : Counts(k, at, i)}, heard)
Overlay(t, k) == Overlaid(k, turn[t].profile, turn[t].written, turn[t].heard)

\* The kinds of memory the conversation has spoken of itself.
Restated(t) == {hints[i].says.about : i \in 1..turn[t].heard} \ Fields

-----------------------------------------------------------------------------
(***************************************************************************)
(* A turn.                                                                 *)
(***************************************************************************)

Ask(t, text) ==
  /\ At(t, "idle")
  /\ Len(messages) + Cardinality({o \in Tabs : ~At(o, "idle")}) + 2 <= MaxMessages
  /\ messages' = Append(messages, [role |-> "user", text |-> text])
  /\ turn' = [turn EXCEPT ![t] = [NoTurn EXCEPT !.pc = "classify",
                                    !.ask = Len(messages'), !.gone = With("retired"), !.then = saves]]
  /\ UNCHANGED <<hints, profile, written, saves, memory, summaries, account>>

\* Topics of a message that others have overtaken: a later message's hint was recorded
\* first, or the profile was saved after the user wrote it.
Overtaken(t, said) ==
  {k \in {said[i].about : i \in DOMAIN said} :
     \/ k \in Fields /\ saves # turn[t].then
     \/ \E i \in DOMAIN hints : hints[i].says.about = k /\ hints[i].from > turn[t].ask}

\* Once the request is classified its hints replace those recorded from the same message.
Classify(t) ==
  /\ At(t, "classify")
  /\ LET said == Says[messages[turn[t].ask].text]
         late == Overtaken(t, said)
         kept == Selected(hints, {h \in ToSet(hints) : h.from # turn[t].ask})
     IN  /\ hints' = IF said = <<>> THEN hints
                     ELSE kept \o [i \in DOMAIN said |-> [from |-> turn[t].ask, says |-> said[i]]]
         /\ replayed' = [k \in Topics |->
              AppliedInTurn(replayed[k], said,
                            {i \in DOMAIN said : said[i].about = k /\ k \notin late}, Len(said))]
         /\ doubtful' = doubtful \cup late
  /\ turn' = [turn EXCEPT ![t].pc = "conversation"]
  /\ UNCHANGED <<messages, profile, written, saves, memory, summaries>>

\* A request that has to be clarified is answered without any context.
Clarify(t) == Read(t, "conversation", "ready", turn[t]) /\ turn[t].seen = 0

ReadConversation(t) ==
  Read(t, "conversation", "summary", [turn[t] EXCEPT !.seen = Len(messages)])
ReadSummary(t) ==
  Read(t, "summary", "profile", [turn[t] EXCEPT !.base = Len(summaries)])
ReadProfile(t) ==
  Read(t, "profile", "revisions", [turn[t] EXCEPT !.profile = profile, !.round = saves])
ReadRevisions(t) ==
  Read(t, "revisions", "hints", [turn[t] EXCEPT !.written = written])
ReadHints(t) ==
  Read(t, "hints", "catalog", [turn[t] EXCEPT !.heard = Len(hints)])

\* Mutant: retired memories stay in the catalog.
CatalogOfAll(t) == With("active") \cup With("retired")

\* A legacy memory gives way to what the conversation itself says of its kind.
Catalog(t) == {m \in With("active") : ~(m \in Legacy /\ KindOf[m] \in Restated(t))}

ReadCatalog(t) ==
  \E cards \in SUBSET Catalog(t) :
    /\ Cardinality(cards) <= CardLimit
    /\ Read(t, "catalog", "details", [turn[t] EXCEPT !.cards = cards])

Standing(t) == turn[t].cards \subseteq With("active")

ReadDetails(t) ==
  \/ Standing(t) /\ Read(t, "details", "sources", [turn[t] EXCEPT !.held = turn[t].cards])
  \/ ~Standing(t) /\ Read(t, "details", "failed", turn[t])

\* A request that asks where a memory comes from has the messages around it read too.
ReadSources(t) ==
  \/ Read(t, "sources", "fit", turn[t])
  \/ \E some \in SUBSET turn[t].held :
       /\ Cardinality(some) = Min({SourceLimit, Cardinality(turn[t].held)})
       /\ \/ some \subseteq With("active") /\ Read(t, "sources", "fit", turn[t])
          \/ ~(some \subseteq With("active")) /\ Read(t, "sources", "failed", turn[t])

TooLong(t) == Cardinality(History(t)) > Fits /\ Cardinality(History(t)) >= 4

Fit(t)   == ~TooLong(t) /\ Read(t, "fit", "ready", turn[t])
Unfit(t) == TooLong(t) /\ Read(t, "fit", "compress", turn[t])

\* Mutant: the summary is used but not saved.
CompressInMemory(t) == Read(t, "compress", "conversation", turn[t])

\* The summary is of the older half alone, whether the model wrote it or it was cut short.
Compress(t) ==
  /\ At(t, "compress")
  /\ summaries' = Append(summaries, [through |-> Max(Older(t)), batch |-> Older(t)])
  /\ turn' = [turn EXCEPT ![t].pc = "conversation"]
  /\ UNCHANGED <<messages, hints, profile, written, saves, memory, account>>

\* After its tools the model is asked again, with a context put together anew.
CallTools(t) ==
  /\ turn[t].again < MaxToolTurns
  /\ Read(t, "ready", "conversation", [turn[t] EXCEPT !.again = @ + 1])

Answer(t) ==
  /\ At(t, "ready")
  /\ messages' = Append(messages, [role |-> "assistant", text |-> messages[turn[t].ask].text])
  /\ turn' = [turn EXCEPT ![t] = NoTurn]
  /\ UNCHANGED <<hints, profile, written, saves, memory, summaries, account>>

\* A turn that raised leaves the question without an answer.
GiveUp(t) == Read(t, "failed", "idle", NoTurn)

Step(t) ==
  \/ Classify(t) \/ Clarify(t)
  \/ ReadConversation(t) \/ ReadSummary(t)
  \/ ReadProfile(t) \/ ReadRevisions(t) \/ ReadHints(t)
  \/ ReadCatalog(t) \/ ReadDetails(t) \/ ReadSources(t)
  \/ Fit(t) \/ Unfit(t) \/ Compress(t)
  \/ CallTools(t) \/ Answer(t) \/ GiveUp(t)

-----------------------------------------------------------------------------
(***************************************************************************)
(* The other pages of the same user.                                       *)
(***************************************************************************)

\* A field has a revision, with a time, only when the save changes it.
WrittenBy(p) == [f \in Fields |-> IF p[f] # profile[f] THEN Len(hints) ELSE written[f]]

\* The user saves a field as it was although the conversation has said otherwise: no
\* revision is recorded that would outrank the hints.
Unsaid(p) == {f \in Fields : p[f] = profile[f] /\ replayed[f] # p[f]}

SaveProfile(p) ==
  /\ saves < MaxSaves
  /\ saves' = saves + 1
  /\ profile' = p
  /\ written' = WrittenBy(p)
  /\ replayed' = [k \in Topics |-> IF k \in Fields THEN p[k] ELSE replayed[k]]
  /\ doubtful' = (doubtful \ {f \in Fields : p[f] # profile[f]}) \cup Unsaid(p)
  /\ UNCHANGED <<messages, hints, memory, summaries, turn>>

Review(m) ==
  /\ \/ memory[m] = "new" /\ memory' = [memory EXCEPT ![m] = "active"]
     \/ memory[m] = "active" /\ memory' = [memory EXCEPT ![m] = "retired"]
  /\ UNCHANGED <<messages, hints, profile, written, saves, summaries, turn, account>>

Next ==
  \/ \E t \in Tabs : Step(t) \/ \E text \in Texts : Ask(t, text)
  \/ \E p \in Saves : SaveProfile(p)
  \/ \E m \in Memories : Review(m)

Spec == Init /\ [][Next]_vars

\* A turn is one call that runs to its end; nobody has to ask, save or review.
FairSpec == Spec /\ \A t \in Tabs : WF_vars(Step(t))

-----------------------------------------------------------------------------
(***************************************************************************)
(* Properties.                                                             *)
(***************************************************************************)

\* A message is never lost between a summary and the history: whatever other tabs were
\* summarising meanwhile, every earlier message a context was made from is in its history
\* or was part of what some summary was made from (context_manager.py, build_messages).
NothingSkipped ==
  \A t \in Tabs : At(t, "ready") =>
    \A i \in Earlier(t) \ History(t) :
      \E n \in 1..turn[t].base : i \in summaries[n].batch

\* A turn fails for its memories only when one of those it selected was retired while the
\* turn was running: one that was retired before the user asked is never selected, however
\* late the index hears of it (memory_retrieval.py, build_context and get_memory_details).
FailsOnlyByRetirement ==
  \A t \in Tabs : At(t, "failed") =>
    \E m \in turn[t].cards : memory[m] = "retired" /\ m \notin turn[t].gone

\* When no save falls between the reads, the overlay that is worked out anew from the saved
\* profile, the times of its fields and all hints is what the user has said and saved, one
\* after the other, a save being the last word on every field of the form (repository.py,
\* get_effective_conversation_context).  Two cases are left out: a save that leaves a field as
\* it was against a hint, and a hint recorded only when others had overtaken its message.  A
\* save that changes the field settles both.
OverlayIsReplay ==
  [][\A t \in Tabs : At(t, "hints") /\ turn'[t].pc = "catalog" /\ turn[t].round = saves =>
       \A k \in Topics \ doubtful :
         Overlaid(k, turn[t].profile, turn[t].written, Len(hints)) = replayed[k]]_vars

\* Every turn ends: putting a context together again after each summary comes to an end
\* also when another tab summarises the same conversation (context_manager.py,
\* _compress_if_needed calling build_messages).
TurnEnds == \A t \in Tabs : ~At(t, "idle") ~> At(t, "idle")

=============================================================================
