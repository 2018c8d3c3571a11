---------------------------- MODULE ReviewInbox ----------------------------
(***************************************************************************)
(* What the extraction of a conversation promises, without its runs, its   *)
(* request flag and its transactions: the conversation is worked off part  *)
(* by part from front to back, and no part counts as done before the       *)
(* newest statement of each type in it lies in the user's review inbox or  *)
(* is a known memory, as far as it is valid, among the first Budget user   *)
(* messages and not spoiled by the model's own copy of it.                 *)
(***************************************************************************)
EXTENDS Integers, Sequences, FiniteSets

CONSTANTS Statements, Plain, Assistant, Budget

VARIABLES
  said,     \* the messages
  noted,    \* positions of the statements the rules detected
  spoiled,  \* of these, the ones given up for a copy that is turned down
  inbox,    \* the facts offered, each with the beginning of its part
  known,    \* the facts that are memories
  done      \* the prefix that has been worked off

inboxVars == <<said, noted, spoiled, inbox, known, done>>

Fact(m) == [type |-> said[m].type, value |-> said[m].value]
Unread  == (done + 1)..Len(said)

InboxInit ==
  said = <<>> /\ noted = {} /\ spoiled = {} /\ inbox = {} /\ known = {} /\ done = 0

Say ==
  /\ \E kind \in Statements \cup {Plain, Assistant} : said' = Append(said, kind)
  /\ UNCHANGED <<noted, spoiled, inbox, known, done>>

\* A statement is noted before its part of the conversation is worked off.
Note ==
  /\ \E m \in Unread : said[m] \in Statements /\ noted' = noted \cup {m}
  /\ UNCHANGED <<said, spoiled, inbox, known, done>>

\* Each attempt at the unread part has copies of its own, of statements noted there.
Spoil ==
  /\ spoiled' \in SUBSET (noted \cap Unread)
  /\ UNCHANGED <<said, noted, inbox, known, done>>

\* What is offered was told in messages that are not yet worked off.
Offer ==
  /\ \E facts \in SUBSET {Fact(m) : m \in {n \in Unread : said[n] \in Statements}} :
       inbox' = inbox \cup ({done} \X facts)
  /\ UNCHANGED <<said, noted, spoiled, known, done>>

\* Only what was offered becomes a memory.
Learn ==
  /\ \E offer \in inbox : known' = known \cup {offer[2]}
  /\ UNCHANGED <<said, noted, spoiled, inbox, done>>

Newest(ms) == {m \in ms : \A n \in ms : said[n].type = said[m].type => n <= m}

Readable(ms) ==
  LET own == {m \in ms : said[m] # Assistant}
  IN  {m \in own : Cardinality({n \in own : n < m}) < Budget}

WorkOff ==
  /\ \E m \in Unread :
       LET part == (done + 1)..m
           due  == {n \in Newest(noted \cap part) \cap Readable(part) : said[n].valid}
       IN  /\ \A n \in due \ spoiled : <<done, Fact(n)>> \in inbox \/ Fact(n) \in known
           /\ done' = m
  /\ spoiled' = {}
  /\ UNCHANGED <<said, noted, inbox, known>>

InboxNext == Say \/ Note \/ Spoil \/ Offer \/ Learn \/ WorkOff

InboxSpec == InboxInit /\ [][InboxNext]_inboxVars
=============================================================================
