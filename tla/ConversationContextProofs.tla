---------------------- MODULE ConversationContextProofs ----------------------
(***************************************************************************)
(* Theorems about ConversationContext, for every number of tabs, messages, *)
(* topics, memories, hints and saves.                                      *)
(***************************************************************************)
EXTENDS ConversationContext, FiniteSetTheorems, SequenceTheorems, WellFoundedInduction, TLAPS

(***************************************************************************)
(* The inductive invariant.                                                *)
(***************************************************************************)

\* Every turn under way has room for its answer.
Busy == {t \in Tabs : ~At(t, "idle")}
Room == Len(messages) + Cardinality(Busy) <= MaxMessages

\* No two turns answer the same message.
AsksAreOwn ==
  /\ \A t \in Busy : turn[t].ask \in 1..Len(messages)
  /\ \A t, u \in Busy : turn[t].ask = turn[u].ask => t = u

\* A message that is not yet classified has given no hints.
HintsAreHeard ==
  /\ \A i \in DOMAIN hints : hints[i].from \in 1..Len(messages)
  /\ \A t \in Tabs : At(t, "classify") => \A i \in DOMAIN hints : hints[i].from # turn[t].ask

\* What a turn has read was there, and what it selected was active when it did.
Past(r) ==
  /\ r.seen <= Len(messages) /\ r.base <= Len(summaries) /\ r.round <= saves
  /\ r.pc \in {"revisions", "hints"} /\ r.round = saves => r.profile = profile
  /\ r.pc = "hints" /\ r.round = saves => r.written = written
SelectedActive(r) ==
  /\ \A m \in r.gone : memory[m] = "retired"
  /\ \A m \in r.cards : memory[m] \in {"active", "retired"} /\ m \notin r.gone
  /\ r.pc = "sources" => r.held \subseteq r.cards
ReadsArePast    == \A t \in Tabs : Past(turn[t])
CardsWereActive == \A t \in Tabs : SelectedActive(turn[t])

\* Up to where a summary ends, every message is part of it or of an earlier one.
SummariesCover ==
  \A n \in DOMAIN summaries : \A i \in 1..summaries[n].through :
    \E m \in 1..n : i \in summaries[m].batch
CompressesLong == \A t \in Tabs : At(t, "compress") => TooLong(t)

\* The overlay of the moment is what hints and saves have made of each topic of which all
\* was recorded as the user said or saved it.
FieldsAreWritten == \A f \in Fields : written[f] <= Len(hints)
OverlayIsCurrent ==
  \A k \in Topics \ doubtful : Overlaid(k, profile, written, Len(hints)) = replayed[k]

Inv ==
  /\ TypeOK /\ Room /\ AsksAreOwn /\ HintsAreHeard
  /\ ReadsArePast /\ CardsWereActive /\ FailsOnlyByRetirement
  /\ SummariesCover /\ CompressesLong
  /\ FieldsAreWritten /\ OverlayIsCurrent

(***************************************************************************)
(* Numbers.                                                                *)
(***************************************************************************)

\* A set of numbers has a least one, and a greatest one when it has a bound.
LEMMA Least ==
  ASSUME NEW S \in SUBSET Nat, S # {}
  PROVE  \E n \in S : \A m \in S : n <= m
<1>1. PICK x \in S : \A y \in S : ~(<<y, x>> \in OpToRel(<, Nat))
  BY NatLessThanWellFounded, WFMin
<1>2. \A y \in S : x \in Nat /\ y \in Nat /\ ~(y < x)
  BY <1>1 DEF OpToRel
<1>3. \A y \in S : x <= y
  BY <1>2
<1>4. QED
  BY <1>1, <1>3

LEMMA MaxIs ==
  ASSUME NEW N \in Nat, NEW S \in SUBSET (0..N), S # {}
  PROVE  Max(S) \in S /\ \A m \in S : m <= Max(S)
<1> DEFINE T == {k \in Nat : \A m \in S : m <= k}
<1>1. T \in SUBSET Nat /\ N \in T
  OBVIOUS
<1>2. PICK x \in T : \A y \in T : x <= y
  <2> HIDE DEF T
  <2>1. QED
    BY <1>1, Least
<1>3. x \in S
  <2>1. SUFFICES ASSUME x \notin S PROVE FALSE
    OBVIOUS
  <2>2. x \in Nat /\ \A m \in S : m \in Nat /\ m < x
    BY <2>1
  <2>3. PICK m \in S : TRUE
    OBVIOUS
  <2>4. x - 1 \in T
    BY <2>2, <2>3
  <2>5. QED
    BY <1>2, <2>2, <2>4
<1>4. \E n \in S : \A m \in S : n >= m
  BY <1>3
<1>5. Max(S) \in S /\ \A m \in S : Max(S) >= m
  BY <1>4 DEF Max
<1>6. QED
  BY <1>5

\* Induction with a set for the predicate.
LEMMA SetInduction ==
  ASSUME NEW T, 0 \in T, \A n \in Nat : n \in T => n + 1 \in T
  PROVE  Nat \subseteq T
<1>1. SUFFICES ASSUME Nat \ T # {} PROVE FALSE
  OBVIOUS
<1>2. PICK x \in Nat \ T : \A y \in Nat \ T : x <= y
  BY <1>1, Least
<1>3. x # 0 /\ x \in Nat /\ x \notin T
  BY <1>2
<1>4. x - 1 \in Nat /\ x - 1 < x /\ (x - 1) + 1 = x
  BY <1>3
<1>5. x - 1 \in T
  BY <1>2, <1>3, <1>4
<1>6. (x - 1) + 1 \in T
  BY <1>4, <1>5
<1>7. QED
  BY <1>3, <1>4, <1>6

(***************************************************************************)
(* Statements applied one after the other.                                 *)
(***************************************************************************)

\* The recursion is well founded: each value comes from the one before it.
LEMMA AppliedInTurnIs ==
  ASSUME NEW value, NEW says, NEW counting
  PROVE  \A n \in Nat :
           AppliedInTurn(value, says, counting, n) =
             IF n = 0 THEN value
             ELSE IF n \in counting
                  THEN Applied(AppliedInTurn(value, says, counting, n - 1), says[n])
                  ELSE AppliedInTurn(value, says, counting, n - 1)
<1> DEFINE One(v, i) == IF i \in counting THEN Applied(v, says[i]) ELSE v
           Upto(g, n) == g[0] = value /\ \A i \in 0..(n - 1) : g[i + 1] = One(g[i], i + 1)
           Whole(g) == g = [i \in Nat |-> IF i = 0 THEN value ELSE One(g[i - 1], i)]
           after == CHOOSE g : Whole(g)
<1>1. \A n \in Nat : AppliedInTurn(value, says, counting, n) = after[n]
  BY DEF AppliedInTurn
<1>2. \A v, i : One(v, i) = IF i \in counting THEN Applied(v, says[i]) ELSE v
  OBVIOUS
<1> HIDE DEF One
<1>3. \A n \in Nat : \E g : Upto(g, n)
  <2> DEFINE T == {n \in Nat : \E g : Upto(g, n)}
  <2>1. 0 \in T
    <3>1. Upto([i \in {0} |-> value], 0)
      OBVIOUS
    <3>2. QED
      BY <3>1
  <2>2. ASSUME NEW n \in Nat, n \in T PROVE n + 1 \in T
    <3>1. PICK g : Upto(g, n)
      BY <2>2
    <3> DEFINE h == [i \in 0..(n + 1) |-> IF i = n + 1 THEN One(g[n], n + 1) ELSE g[i]]
    <3>2. \A i \in 0..n : h[i] = g[i]
      OBVIOUS
    <3>3. h[0] = value /\ h[n + 1] = One(h[n], n + 1)
      BY <3>1, <3>2
    <3>4. \A i \in 0..(n - 1) : h[i + 1] = One(h[i], i + 1)
      BY <3>1, <3>2
    <3> HIDE DEF h
    <3>5. \A i \in 0..((n + 1) - 1) : h[i + 1] = One(h[i], i + 1)
      <4>1. \A i \in 0..((n + 1) - 1) : i \in 0..(n - 1) \/ i = n
        OBVIOUS
      <4>2. QED
        BY <3>3, <3>4, <4>1
    <3>6. Upto(h, n + 1)
      BY <3>3, <3>5
    <3> HIDE DEF Upto
    <3>7. n + 1 \in Nat /\ \E f : Upto(f, n + 1)
      BY <3>6
    <3>8. QED
      BY <3>7
  <2>3. Nat \subseteq T
    <3> HIDE DEF T
    <3>1. QED
      BY <2>1, <2>2, SetInduction
  <2>4. QED
    BY <2>3
<1>4. ASSUME NEW g, NEW h, NEW n \in Nat, Upto(g, n), Upto(h, n + 1)
      PROVE  \A i \in 0..n : g[i] = h[i]
  <2> DEFINE T == {i \in Nat : i <= n => g[i] = h[i]}
  <2>1. 0 \in T
    BY <1>4
  <2>2. ASSUME NEW i \in Nat, i \in T PROVE i + 1 \in T
    BY <1>4, <2>2
  <2>3. Nat \subseteq T
    <3> HIDE DEF T
    <3>1. QED
      BY <2>1, <2>2, SetInduction
  <2>4. QED
    BY <2>3
<1> DEFINE first == [n \in Nat |-> CHOOSE g : Upto(g, n)]
           all   == [n \in Nat |-> first[n][n]]
<1>5. \A n \in Nat : Upto(first[n], n)
  <2> HIDE DEF Upto
  <2>1. QED
    BY <1>3
<1> HIDE DEF first
<1>6. Whole(all)
  <2>1. all[0] = value
    BY <1>5
  <2>2. ASSUME NEW n \in Nat PROVE all[n + 1] = One(all[n], n + 1)
    <3>1. first[n + 1][n + 1] = One(first[n + 1][n], n + 1)
      BY <1>5
    <3>2. first[n][n] = first[n + 1][n]
      <4>1. Upto(first[n], n) /\ Upto(first[n + 1], n + 1)
        BY <1>5
      <4> HIDE DEF Upto
      <4>2. \A i \in 0..n : first[n][i] = first[n + 1][i]
        BY <1>4, <4>1
      <4>3. QED
        BY <4>2
    <3>3. QED
      BY <3>1, <3>2
  <2>3. \A i \in Nat : all[i] = IF i = 0 THEN value ELSE One(all[i - 1], i)
    <3>1. \A i \in Nat : i # 0 => i - 1 \in Nat /\ (i - 1) + 1 = i
      OBVIOUS
    <3>2. QED
      BY <2>1, <2>2, <3>1
  <2>4. QED
    BY <2>3
<1>7. Whole(after)
  <2> HIDE DEF Whole, all
  <2>1. QED
    BY <1>6
<1> HIDE DEF after
<1>8. \A n \in Nat : after[n] = IF n = 0 THEN value ELSE One(after[n - 1], n)
  BY <1>7
<1>9. QED
  BY <1>1, <1>2, <1>8

LEMMA AppliedStarts ==
  ASSUME NEW value, NEW says, NEW counting
  PROVE  AppliedInTurn(value, says, counting, 0) = value
<1>1. QED
  BY AppliedInTurnIs

LEMMA AppliedGoesOn ==
  ASSUME NEW value, NEW says, NEW counting, NEW n \in Nat
  PROVE  AppliedInTurn(value, says, counting, n + 1) =
           IF n + 1 \in counting
           THEN Applied(AppliedInTurn(value, says, counting, n), says[n + 1])
           ELSE AppliedInTurn(value, says, counting, n)
<1>1. n + 1 \in Nat /\ n + 1 # 0 /\ (n + 1) - 1 = n
  OBVIOUS
<1>2. QED
  BY <1>1, AppliedInTurnIs

\* Statements that agree as far as they count make the same of a value, and those that
\* follow carry on from what the first ones made of it.
LEMMA SameStatements ==
  ASSUME NEW value, NEW says, NEW counting, NEW others, NEW also, NEW n \in Nat,
         \A i \in 1..n : /\ i \in counting <=> i \in also
                         /\ i \in also => says[i] = others[i]
  PROVE  AppliedInTurn(value, says, counting, n) = AppliedInTurn(value, others, also, n)
<1> DEFINE one(i) == AppliedInTurn(value, says, counting, i)
           two(i) == AppliedInTurn(value, others, also, i)
           T == {i \in Nat : i <= n => one(i) = two(i)}
<1>1. /\ one(0) = value /\ two(0) = value
      /\ \A i \in Nat : /\ one(i + 1) = IF i + 1 \in counting THEN Applied(one(i), says[i + 1]) ELSE one(i)
                        /\ two(i + 1) = IF i + 1 \in also THEN Applied(two(i), others[i + 1]) ELSE two(i)
  BY AppliedStarts, AppliedGoesOn
<1> HIDE DEF one, two
<1>2. 0 \in T
  BY <1>1
<1>3. ASSUME NEW i \in Nat, i \in T PROVE i + 1 \in T
  <2>1. SUFFICES ASSUME i + 1 <= n PROVE one(i + 1) = two(i + 1)
    OBVIOUS
  <2>2. i + 1 \in 1..n /\ i <= n
    BY <2>1
  <2>3. one(i) = two(i)
    BY <1>3, <2>2
  <2>4. QED
    BY <1>1, <2>2, <2>3
<1>4. Nat \subseteq T
  <2> HIDE DEF T
  <2>1. QED
    BY <1>2, <1>3, SetInduction
<1>5. one(n) = two(n)
  BY <1>4
<1>6. QED
  BY <1>5 DEF one, two

LEMMA StatementsGoOn ==
  ASSUME NEW value, NEW n \in Nat, NEW m \in Nat, NEW total, total = n + m,
         NEW says, NEW counting, NEW others, NEW also, NEW all, NEW either,
         \A i \in 1..n : /\ i \in either <=> i \in counting
                         /\ i \in counting => all[i] = says[i],
         \A i \in 1..m : /\ n + i \in either <=> i \in also
                         /\ i \in also => all[n + i] = others[i]
  PROVE  AppliedInTurn(value, all, either, total) =
           AppliedInTurn(AppliedInTurn(value, says, counting, n), others, also, m)
<1> DEFINE start == AppliedInTurn(value, says, counting, n)
           one(i) == AppliedInTurn(value, all, either, i)
           two(i) == AppliedInTurn(start, others, also, i)
           T == {i \in Nat : i <= m => one(n + i) = two(i)}
<1>1. one(n) = start
  BY SameStatements
<1>2. /\ two(0) = start
      /\ \A i \in Nat : /\ one(i + 1) = IF i + 1 \in either THEN Applied(one(i), all[i + 1]) ELSE one(i)
                        /\ two(i + 1) = IF i + 1 \in also THEN Applied(two(i), others[i + 1]) ELSE two(i)
  BY AppliedStarts, AppliedGoesOn
<1> HIDE DEF one, two, start
<1>3. 0 \in T
  <2>1. n + 0 = n
    OBVIOUS
  <2>2. one(n + 0) = two(0)
    BY <1>1, <1>2, <2>1
  <2>3. QED
    BY <2>2
<1>4. ASSUME NEW i \in Nat, i \in T PROVE i + 1 \in T
  <2>1. SUFFICES ASSUME i + 1 <= m PROVE one(n + (i + 1)) = two(i + 1)
    OBVIOUS
  <2>2. i + 1 \in 1..m /\ i <= m /\ n + i \in Nat /\ (n + i) + 1 = n + (i + 1)
    BY <2>1
  <2>3. one(n + i) = two(i)
    BY <1>4, <2>2
  <2>4. one(n + (i + 1)) = IF n + (i + 1) \in either
                           THEN Applied(one(n + i), all[n + (i + 1)]) ELSE one(n + i)
    BY <1>2, <2>2
  <2>5. QED
    BY <1>2, <2>2, <2>3, <2>4
<1>5. Nat \subseteq T
  <2> HIDE DEF T
  <2>1. QED
    BY <1>3, <1>4, SetInduction
<1>6. one(n + m) = two(m)
  BY <1>5
<1>7. QED
  BY <1>6 DEF one, two, start

LEMMA NothingApplied ==
  ASSUME NEW value, NEW says, NEW counting, NEW n \in Nat, \A i \in 1..n : i \notin counting
  PROVE  AppliedInTurn(value, says, counting, n) = value
<1> DEFINE one(i) == AppliedInTurn(value, says, counting, i)
           T == {i \in Nat : i <= n => one(i) = value}
<1>1. /\ one(0) = value
      /\ \A i \in Nat :
           one(i + 1) = IF i + 1 \in counting THEN Applied(one(i), says[i + 1]) ELSE one(i)
  BY AppliedStarts, AppliedGoesOn
<1> HIDE DEF one
<1>2. 0 \in T
  BY <1>1
<1>3. ASSUME NEW i \in Nat, i \in T PROVE i + 1 \in T
  BY <1>1, <1>3
<1>4. Nat \subseteq T
  <2> HIDE DEF T
  <2>1. QED
    BY <1>2, <1>3, SetInduction
<1>5. QED
  BY <1>4 DEF one

\* A value of a topic stays one: a single value stays single.
Fitting(k) == {v \in Values : k \in Scalars => Cardinality(v) <= 1}

LEMMA AppliedFits ==
  ASSUME NEW k \in Topics, NEW v \in Fitting(k), NEW s \in Statement, s.about = k
  PROVE  Applied(v, s) \in Fitting(k)
<1>1. s.words \in Values /\ (k \in Scalars => Cardinality(s.words) <= 1)
  BY DEF Statement
<1>2. Cardinality({}) <= 1
  BY FS_EmptySet
<1>3. QED
  BY <1>1, <1>2 DEF Applied, Fitting, Values

LEMMA AppliedInTurnFits ==
  ASSUME NEW k \in Topics, NEW value \in Fitting(k), NEW says, NEW counting, NEW n \in Nat,
         \A i \in 1..n : i \in counting => says[i] \in Statement /\ says[i].about = k
  PROVE  AppliedInTurn(value, says, counting, n) \in Fitting(k)
<1> DEFINE one(i) == AppliedInTurn(value, says, counting, i)
           T == {i \in Nat : i <= n => one(i) \in Fitting(k)}
<1>1. /\ one(0) = value
      /\ \A i \in Nat :
           one(i + 1) = IF i + 1 \in counting THEN Applied(one(i), says[i + 1]) ELSE one(i)
  BY AppliedStarts, AppliedGoesOn
<1> HIDE DEF one
<1>2. 0 \in T
  BY <1>1
<1>3. ASSUME NEW i \in Nat, i \in T PROVE i + 1 \in T
  <2>1. SUFFICES ASSUME i + 1 <= n PROVE one(i + 1) \in Fitting(k)
    OBVIOUS
  <2>2. i + 1 \in 1..n /\ one(i) \in Fitting(k)
    BY <1>3, <2>1
  <2>3. QED
    BY <1>1, <2>2, AppliedFits
<1>4. Nat \subseteq T
  <2> HIDE DEF T
  <2>1. QED
    BY <1>2, <1>3, SetInduction
<1>5. QED
  BY <1>4 DEF one

(***************************************************************************)
(* Sequences.                                                              *)
(***************************************************************************)

LEMMA CardinalityUpto ==
  ASSUME NEW n \in Nat
  PROVE  IsFiniteSet(1..n) /\ Cardinality(1..n) = n
<1>1. 1 \in Int /\ n \in Int /\ (1 > n => n = 0) /\ (n - 1) + 1 = n
  OBVIOUS
<1>2. IsFiniteSet(1..n) /\ Cardinality(1..n) = IF 1 > n THEN 0 ELSE (n - 1) + 1
  BY <1>1, FS_Interval
<1>3. QED
  BY <1>1, <1>2

\* Nothing is lost by a selection that everything passes.
LEMMA SelectedAll ==
  ASSUME NEW T, NEW s \in Seq(T), NEW S, \A i \in DOMAIN s : s[i] \in S
  PROVE  Selected(s, S) = s
<1> DEFINE places == {i \in DOMAIN s : s[i] \in S}
<1>1. Len(s) \in Nat /\ DOMAIN s = 1..Len(s) /\ s = [k \in 1..Len(s) |-> s[k]]
  <2>1. Len(s) \in Nat /\ s \in [1..Len(s) -> T]
    BY LenProperties
  <2>2. QED
    BY <2>1
<1>2. places = 1..Len(s)
  BY <1>1
<1>3. Cardinality(places) = Len(s)
  <2>1. Cardinality(1..Len(s)) = Len(s)
    BY <1>1, CardinalityUpto
  <2>2. QED
    BY <1>2, <2>1
<1>4. \A k \in places : RankIn(places, k) = k
  <2>1. TAKE k \in places
  <2>2. k \in Nat /\ k >= 1 /\ {j \in 1..Len(s) : j <= k} = 1..k
    BY <1>1, <1>2
  <2>3. Cardinality(1..k) = k
    BY <2>2, CardinalityUpto
  <2>4. QED
    BY <1>2, <2>2, <2>3 DEF RankIn
<1> HIDE DEF places
<1>5. \A k \in 1..Len(s) : (CHOOSE i \in places : RankIn(places, i) = k) = k
  BY <1>2, <1>4
<1>6. Selected(s, S) = [k \in 1..Cardinality(places) |-> s[CHOOSE i \in places : RankIn(places, i) = k]]
  BY DEF Selected, Picked, places
<1>7. Selected(s, S) = [k \in 1..Len(s) |-> s[k]]
  BY <1>3, <1>5, <1>6
<1>8. QED
  BY <1>1, <1>7

LEMMA AppendIs ==
  ASSUME NEW T, NEW s \in Seq(T), NEW x \in T
  PROVE  /\ Append(s, x) \in Seq(T)
         /\ Len(s) \in Nat /\ Len(Append(s, x)) = Len(s) + 1
         /\ DOMAIN s = 1..Len(s) /\ DOMAIN Append(s, x) = 1..(Len(s) + 1)
         /\ \A i \in 1..Len(s) : Append(s, x)[i] = s[i]
         /\ Append(s, x)[Len(s) + 1] = x
<1>1. QED
  BY AppendProperties, LenProperties

LEMMA ConcatIs ==
  ASSUME NEW T, NEW s \in Seq(T), NEW u \in Seq(T)
  PROVE  /\ s \o u \in Seq(T)
         /\ Len(s) \in Nat /\ Len(u) \in Nat /\ Len(s \o u) = Len(s) + Len(u)
         /\ DOMAIN s = 1..Len(s) /\ DOMAIN u = 1..Len(u)
         /\ DOMAIN (s \o u) = 1..(Len(s) + Len(u))
         /\ \A i \in 1..Len(s) : (s \o u)[i] = s[i]
         /\ \A i \in 1..Len(u) : (s \o u)[Len(s) + i] = u[i]
<1>1. /\ s \o u \in Seq(T) /\ Len(s \o u) = Len(s) + Len(u)
      /\ Len(s) \in Nat /\ Len(u) \in Nat
      /\ DOMAIN s = 1..Len(s) /\ DOMAIN u = 1..Len(u) /\ DOMAIN (s \o u) = 1..Len(s \o u)
  BY ConcatProperties, LenProperties
<1>2. \A i \in 1..(Len(s) + Len(u)) :
        (s \o u)[i] = IF i <= Len(s) THEN s[i] ELSE u[i - Len(s)]
  BY ConcatProperties
<1>3. \A i \in 1..Len(s) : (s \o u)[i] = s[i]
  BY <1>1, <1>2
<1>4. \A i \in 1..Len(u) : (s \o u)[Len(s) + i] = u[i]
  BY <1>1, <1>2
<1>5. QED
  BY <1>1, <1>3, <1>4

(***************************************************************************)
(* The steps that only read.                                               *)
(***************************************************************************)

LEMMA NoTurnFits == NoTurn \in Turns
<1>1. Cardinality({}) <= 1
  BY FS_EmptySet
<1>2. [f \in Fields |-> {}] \in Profiles
  BY <1>1, TopicAssumption DEF Profiles, Values
<1>3. 0 \in 0..MaxMessages /\ 0 \in 0..MaxSaves /\ 0 \in 0..MaxToolTurns
  BY ContextBounds
<1>4. QED
  BY <1>2, <1>3 DEF NoTurn, Turns

\* The turns under way are finitely many; there are not more when some have ended.
LEMMA BusyFinite ==
  /\ IsFiniteSet(Busy) /\ Cardinality(Busy) \in Nat
  /\ \A S \in SUBSET Busy : IsFiniteSet(S) /\ Cardinality(S) \in Nat /\ Cardinality(S) <= Cardinality(Busy)
<1>1. Busy \in SUBSET Tabs
  BY DEF Busy
<1>2. IsFiniteSet(Busy)
  BY <1>1, FS_Subset, TabAssumption
<1>3. \A S \in SUBSET Busy : IsFiniteSet(S) /\ Cardinality(S) <= Cardinality(Busy)
  BY <1>2, FS_Subset
<1>4. QED
  BY <1>2, <1>3, FS_CardinalityType

\* What another step may not disturb of a context that is too long.
LEMMA StaysTooLong ==
  ASSUME NEW t,
         TooLong(t),
         turn[t].seen \in Nat, turn[t].base \in Nat,
         turn'[t].seen = turn[t].seen, turn'[t].base = turn[t].base, turn'[t].ask = turn[t].ask,
         turn[t].seen > 0 => messages'[turn[t].seen] = messages[turn[t].seen],
         messages'[turn[t].ask] = messages[turn[t].ask],
         turn[t].base # 0 => summaries'[turn[t].base] = summaries[turn[t].base]
  PROVE  TooLong(t)'
<1>1. Earlier(t)' = Earlier(t)
  BY DEF Earlier
<1>2. History(t)' = History(t)
  BY <1>1 DEF History
<1>3. QED
  BY <1>2 DEF TooLong

LEMMA ReadKeeps ==
  ASSUME Inv, NEW t \in Tabs, NEW p, NEW q, NEW r \in Turns,
         p # "idle", At(t, p), r.pc = q, q # "classify",
         q = "idle" \/ r.ask = turn[t].ask,
         turn' = [turn EXCEPT ![t] = r], UNCHANGED <<store, account>>,
         Past(r), SelectedActive(r),
         q = "failed" => \E m \in r.cards : memory[m] = "retired" /\ m \notin r.gone,
         q = "compress" => TooLong(t) /\ r.seen = turn[t].seen /\ r.base = turn[t].base
  PROVE  Inv'
<1> USE DEF Inv
<1>1. UNCHANGED <<messages, hints, profile, written, saves, memory, summaries, replayed, doubtful>>
  BY DEF store, account
<1>2. turn \in [Tabs -> Turns] /\ turn[t] \in Turns /\ t \in Busy
  BY DEF TypeOK, Busy, At
<1>3. /\ turn' \in [Tabs -> Turns] /\ turn'[t] = r
      /\ \A u \in Tabs : u # t => turn'[u] = turn[u]
  BY <1>2
<1>4. TypeOK'
  BY <1>1, <1>3 DEF TypeOK
<1>5. Busy' \subseteq Busy /\ \A u \in Busy' : turn'[u].ask = turn[u].ask
  BY <1>2, <1>3 DEF Busy, At
<1>6. Room'
  <2>1. Cardinality(Busy') <= Cardinality(Busy) /\ Cardinality(Busy') \in Nat /\ Cardinality(Busy) \in Nat
    BY <1>5, BusyFinite
  <2>2. Len(messages) \in Nat /\ MaxMessages \in Nat
    BY LenProperties, ContextBounds DEF TypeOK
  <2>3. QED
    BY <1>1, <2>1, <2>2 DEF Room
<1>7. AsksAreOwn'
  BY <1>1, <1>5 DEF AsksAreOwn
<1>8. HintsAreHeard'
  BY <1>1, <1>3 DEF HintsAreHeard, At
<1>9. ReadsArePast'
  BY <1>1, <1>3 DEF ReadsArePast, Past
<1>10. CardsWereActive'
  BY <1>1, <1>3 DEF CardsWereActive, SelectedActive
<1>11. FailsOnlyByRetirement'
  BY <1>1, <1>3 DEF FailsOnlyByRetirement, At
<1>12. SummariesCover' /\ FieldsAreWritten'
  BY <1>1 DEF SummariesCover, FieldsAreWritten
<1>13. CompressesLong'
  <2>1. SUFFICES ASSUME NEW u \in Tabs, At(u, "compress")' PROVE TooLong(u)'
    BY DEF CompressesLong
  <2>2. /\ TooLong(u)
        /\ turn'[u].seen = turn[u].seen /\ turn'[u].base = turn[u].base /\ turn'[u].ask = turn[u].ask
    BY <1>3, <2>1 DEF At, CompressesLong
  <2>3. turn[u].seen \in Nat /\ turn[u].base \in Nat
    BY <1>2 DEF Turns
  <2>4. QED
    BY <1>1, <2>2, <2>3, StaysTooLong
<1>14. OverlayIsCurrent'
  BY <1>1 DEF OverlayIsCurrent, Overlaid, Counts
<1>15. QED
  BY <1>4, <1>6, <1>7, <1>8, <1>9, <1>10, <1>11, <1>12, <1>13, <1>14

\* A read leaves the rest of the turn as it was.
LEMMA ReadIs ==
  ASSUME TypeOK, NEW t \in Tabs, NEW p, NEW q, NEW read \in Turns, Read(t, p, q, read),
         q \in {"idle", "conversation", "summary", "profile", "revisions", "hints", "catalog",
                "details", "sources", "fit", "compress", "ready", "failed"}
  PROVE  /\ [read EXCEPT !.pc = q] \in Turns
         /\ At(t, p) /\ turn' = [turn EXCEPT ![t] = [read EXCEPT !.pc = q]]
         /\ UNCHANGED <<store, account>>
         /\ [read EXCEPT !.pc = q].pc = q
         /\ [read EXCEPT !.pc = q].ask = read.ask
         /\ [read EXCEPT !.pc = q].seen = read.seen
         /\ [read EXCEPT !.pc = q].base = read.base
         /\ [read EXCEPT !.pc = q].profile = read.profile
         /\ [read EXCEPT !.pc = q].written = read.written
         /\ [read EXCEPT !.pc = q].round = read.round
         /\ [read EXCEPT !.pc = q].cards = read.cards
         /\ [read EXCEPT !.pc = q].held = read.held
         /\ [read EXCEPT !.pc = q].gone = read.gone
<1>1. QED
  BY DEF Read, Turns

LEMMA ReadConversationKeeps ==
  ASSUME Inv, NEW t \in Tabs, ReadConversation(t)
  PROVE  Inv'
<1> DEFINE read == [turn[t] EXCEPT !.seen = Len(messages)]
           r == [read EXCEPT !.pc = "summary"]
<1>1. turn[t] \in Turns /\ Past(turn[t]) /\ SelectedActive(turn[t]) /\ Len(messages) \in 0..MaxMessages
  BY LenProperties, ContextBounds DEF Inv, TypeOK, ReadsArePast, CardsWereActive
<1>2. /\ read \in Turns /\ read.seen = Len(messages)
      /\ read.ask = turn[t].ask /\ read.base = turn[t].base /\ read.round = turn[t].round
      /\ read.cards = turn[t].cards /\ read.gone = turn[t].gone
  BY <1>1 DEF Turns
<1>3. Read(t, "conversation", "summary", read)
  BY DEF ReadConversation
<1> HIDE DEF read
<1>4. /\ r \in Turns /\ At(t, "conversation") /\ turn' = [turn EXCEPT ![t] = r]
      /\ UNCHANGED <<store, account>> /\ r.pc = "summary"
      /\ r.ask = turn[t].ask /\ r.seen = Len(messages) /\ r.base = turn[t].base
      /\ r.round = turn[t].round /\ r.cards = turn[t].cards /\ r.gone = turn[t].gone
  BY <1>2, <1>3, ReadIs DEF Inv
<1> HIDE DEF r
<1>5. Past(r) /\ SelectedActive(r)
  BY <1>1, <1>4 DEF Past, SelectedActive
<1>6. QED
  BY <1>4, <1>5, ReadKeeps

LEMMA ReadSummaryKeeps ==
  ASSUME Inv, NEW t \in Tabs, ReadSummary(t)
  PROVE  Inv'
<1> DEFINE read == [turn[t] EXCEPT !.base = Len(summaries)]
           r == [read EXCEPT !.pc = "profile"]
<1>1. turn[t] \in Turns /\ Past(turn[t]) /\ SelectedActive(turn[t]) /\ Len(summaries) \in Nat
  BY LenProperties DEF Inv, TypeOK, ReadsArePast, CardsWereActive
<1>2. /\ read \in Turns /\ read.base = Len(summaries)
      /\ read.ask = turn[t].ask /\ read.seen = turn[t].seen /\ read.round = turn[t].round
      /\ read.cards = turn[t].cards /\ read.gone = turn[t].gone
  BY <1>1 DEF Turns
<1>3. Read(t, "summary", "profile", read)
  BY DEF ReadSummary
<1> HIDE DEF read
<1>4. /\ r \in Turns /\ At(t, "summary") /\ turn' = [turn EXCEPT ![t] = r]
      /\ UNCHANGED <<store, account>> /\ r.pc = "profile"
      /\ r.ask = turn[t].ask /\ r.seen = turn[t].seen /\ r.base = Len(summaries)
      /\ r.round = turn[t].round /\ r.cards = turn[t].cards /\ r.gone = turn[t].gone
  BY <1>2, <1>3, ReadIs DEF Inv
<1> HIDE DEF r
<1>5. Past(r) /\ SelectedActive(r)
  BY <1>1, <1>4 DEF Past, SelectedActive
<1>6. QED
  BY <1>4, <1>5, ReadKeeps

LEMMA ReadProfileKeeps ==
  ASSUME Inv, NEW t \in Tabs, ReadProfile(t)
  PROVE  Inv'
<1> DEFINE half == [turn[t] EXCEPT !.profile = profile]
           read == [half EXCEPT !.round = saves]
           r == [read EXCEPT !.pc = "revisions"]
<1>1. /\ turn[t] \in Turns /\ Past(turn[t]) /\ SelectedActive(turn[t])
      /\ profile \in Profiles /\ saves \in 0..MaxSaves /\ saves <= saves
  BY DEF Inv, TypeOK, ReadsArePast, CardsWereActive
<1>2. /\ half \in Turns /\ half.profile = profile
      /\ half.ask = turn[t].ask /\ half.seen = turn[t].seen /\ half.base = turn[t].base
      /\ half.cards = turn[t].cards /\ half.gone = turn[t].gone
  BY <1>1 DEF Turns
<1>3. Read(t, "profile", "revisions", read)
  BY DEF ReadProfile
<1> HIDE DEF half
<1>4. /\ read \in Turns /\ read.profile = profile /\ read.round = saves
      /\ read.ask = turn[t].ask /\ read.seen = turn[t].seen /\ read.base = turn[t].base
      /\ read.cards = turn[t].cards /\ read.gone = turn[t].gone
  BY <1>1, <1>2 DEF Turns
<1> HIDE DEF read
<1>5. /\ r \in Turns /\ At(t, "profile") /\ turn' = [turn EXCEPT ![t] = r]
      /\ UNCHANGED <<store, account>> /\ r.pc = "revisions"
      /\ r.ask = turn[t].ask /\ r.seen = turn[t].seen /\ r.base = turn[t].base
      /\ r.profile = profile /\ r.round = saves
      /\ r.cards = turn[t].cards /\ r.gone = turn[t].gone
  BY <1>3, <1>4, ReadIs DEF Inv
<1> HIDE DEF r
<1>6. Past(r) /\ SelectedActive(r)
  BY <1>1, <1>5 DEF Past, SelectedActive
<1>7. QED
  BY <1>5, <1>6, ReadKeeps

LEMMA ReadRevisionsKeeps ==
  ASSUME Inv, NEW t \in Tabs, ReadRevisions(t)
  PROVE  Inv'
<1> DEFINE read == [turn[t] EXCEPT !.written = written]
           r == [read EXCEPT !.pc = "hints"]
<1>1. /\ turn[t] \in Turns /\ Past(turn[t]) /\ SelectedActive(turn[t])
      /\ written \in [Fields -> Nat]
  BY DEF Inv, TypeOK, ReadsArePast, CardsWereActive
<1>2. /\ read \in Turns /\ read.written = written /\ read.profile = turn[t].profile
      /\ read.ask = turn[t].ask /\ read.seen = turn[t].seen /\ read.base = turn[t].base
      /\ read.round = turn[t].round /\ read.cards = turn[t].cards /\ read.gone = turn[t].gone
  BY <1>1 DEF Turns
<1>3. Read(t, "revisions", "hints", read)
  BY DEF ReadRevisions
<1> HIDE DEF read
<1>4. /\ r \in Turns /\ At(t, "revisions") /\ turn' = [turn EXCEPT ![t] = r]
      /\ UNCHANGED <<store, account>> /\ r.pc = "hints"
      /\ r.ask = turn[t].ask /\ r.seen = turn[t].seen /\ r.base = turn[t].base
      /\ r.profile = turn[t].profile /\ r.written = written
      /\ r.round = turn[t].round /\ r.cards = turn[t].cards /\ r.gone = turn[t].gone
  BY <1>2, <1>3, ReadIs DEF Inv
<1> HIDE DEF r
<1>5. Past(r) /\ SelectedActive(r)
  BY <1>1, <1>4 DEF Past, SelectedActive, At
<1>6. QED
  BY <1>4, <1>5, ReadKeeps

LEMMA ReadHintsKeeps ==
  ASSUME Inv, NEW t \in Tabs, ReadHints(t)
  PROVE  Inv'
<1> DEFINE read == [turn[t] EXCEPT !.heard = Len(hints)]
           r == [read EXCEPT !.pc = "catalog"]
<1>1. /\ turn[t] \in Turns /\ Past(turn[t]) /\ SelectedActive(turn[t])
      /\ Len(hints) \in Nat
  BY LenProperties DEF Inv, TypeOK, ReadsArePast, CardsWereActive
<1>2. /\ read \in Turns
      /\ read.ask = turn[t].ask /\ read.seen = turn[t].seen /\ read.base = turn[t].base
      /\ read.round = turn[t].round /\ read.cards = turn[t].cards /\ read.gone = turn[t].gone
  BY <1>1 DEF Turns
<1>3. Read(t, "hints", "catalog", read)
  BY DEF ReadHints
<1> HIDE DEF read
<1>4. /\ r \in Turns /\ At(t, "hints") /\ turn' = [turn EXCEPT ![t] = r]
      /\ UNCHANGED <<store, account>> /\ r.pc = "catalog"
      /\ r.ask = turn[t].ask /\ r.seen = turn[t].seen /\ r.base = turn[t].base
      /\ r.round = turn[t].round /\ r.cards = turn[t].cards /\ r.gone = turn[t].gone
  BY <1>2, <1>3, ReadIs DEF Inv
<1> HIDE DEF r
<1>5. Past(r) /\ SelectedActive(r)
  BY <1>1, <1>4 DEF Past, SelectedActive
<1>6. QED
  BY <1>4, <1>5, ReadKeeps

LEMMA ReadCatalogKeeps ==
  ASSUME Inv, NEW t \in Tabs, ReadCatalog(t)
  PROVE  Inv'
<1>1. PICK cards \in SUBSET Catalog(t) :
        Read(t, "catalog", "details", [turn[t] EXCEPT !.cards = cards])
  BY DEF ReadCatalog
<1> DEFINE read == [turn[t] EXCEPT !.cards = cards]
           r == [read EXCEPT !.pc = "details"]
<1>2. /\ turn[t] \in Turns /\ Past(turn[t]) /\ SelectedActive(turn[t])
      /\ cards \subseteq Memories /\ \A m \in cards : memory[m] = "active"
  BY <1>1 DEF Inv, TypeOK, ReadsArePast, CardsWereActive, Catalog, With
<1>3. /\ read \in Turns /\ read.cards = cards
      /\ read.ask = turn[t].ask /\ read.seen = turn[t].seen /\ read.base = turn[t].base
      /\ read.round = turn[t].round /\ read.gone = turn[t].gone
  BY <1>2 DEF Turns
<1>4. Read(t, "catalog", "details", read)
  BY <1>1
<1> HIDE DEF read
<1>5. /\ r \in Turns /\ At(t, "catalog") /\ turn' = [turn EXCEPT ![t] = r]
      /\ UNCHANGED <<store, account>> /\ r.pc = "details"
      /\ r.ask = turn[t].ask /\ r.seen = turn[t].seen /\ r.base = turn[t].base
      /\ r.round = turn[t].round /\ r.cards = cards /\ r.gone = turn[t].gone
  BY <1>3, <1>4, ReadIs DEF Inv
<1> HIDE DEF r
<1>6. Past(r)
  BY <1>2, <1>5 DEF Past
<1>7. SelectedActive(r)
  <2>1. \A m \in r.gone : memory[m] = "retired"
    BY <1>2, <1>5 DEF SelectedActive
  <2>2. QED
    BY <1>2, <1>5, <2>1 DEF SelectedActive
<1>8. QED
  BY <1>5, <1>6, <1>7, ReadKeeps

\* A step that reads nothing the invariant is about.
LEMMA PassingKeeps ==
  ASSUME Inv, NEW t \in Tabs, NEW p, p # "idle", NEW q \in {"fit", "compress", "ready", "failed"},
         Read(t, p, q, turn[t]),
         q = "failed" => \E m \in turn[t].cards : memory[m] = "retired" /\ m \notin turn[t].gone,
         q = "compress" => TooLong(t)
  PROVE  Inv'
<1> DEFINE r == [turn[t] EXCEPT !.pc = q]
<1>1. turn[t] \in Turns /\ Past(turn[t]) /\ SelectedActive(turn[t])
  BY DEF Inv, TypeOK, ReadsArePast, CardsWereActive
<1>2. /\ r \in Turns /\ At(t, p) /\ turn' = [turn EXCEPT ![t] = r]
      /\ UNCHANGED <<store, account>> /\ r.pc = q
      /\ r.ask = turn[t].ask /\ r.seen = turn[t].seen /\ r.base = turn[t].base
      /\ r.round = turn[t].round /\ r.cards = turn[t].cards /\ r.gone = turn[t].gone
  BY <1>1, ReadIs DEF Inv
<1> HIDE DEF r
<1>3. Past(r) /\ SelectedActive(r)
  BY <1>1, <1>2 DEF Past, SelectedActive
<1>4. QED
  BY <1>2, <1>3, ReadKeeps

LEMMA ReadDetailsKeeps ==
  ASSUME Inv, NEW t \in Tabs, ReadDetails(t)
  PROVE  Inv'
<1>1. turn[t] \in Turns /\ Past(turn[t]) /\ SelectedActive(turn[t])
  BY DEF Inv, TypeOK, ReadsArePast, CardsWereActive
<1>2. CASE ~Standing(t) /\ Read(t, "details", "failed", turn[t])
  <2>1. PICK m \in turn[t].cards : m \notin With("active")
    BY <1>2 DEF Standing
  <2>2. m \in Memories
    BY <1>1, <2>1 DEF Turns
  <2>3. memory[m] = "retired" /\ m \notin turn[t].gone
    BY <1>1, <2>1, <2>2 DEF SelectedActive, With
  <2>4. QED
    BY <1>2, <2>3, PassingKeeps
<1>3. CASE Standing(t) /\ Read(t, "details", "sources", [turn[t] EXCEPT !.held = turn[t].cards])
  <2> DEFINE read == [turn[t] EXCEPT !.held = turn[t].cards]
             r == [read EXCEPT !.pc = "sources"]
  <2>1. /\ read \in Turns /\ read.held = turn[t].cards
        /\ read.ask = turn[t].ask /\ read.seen = turn[t].seen /\ read.base = turn[t].base
        /\ read.round = turn[t].round /\ read.cards = turn[t].cards /\ read.gone = turn[t].gone
    BY <1>1 DEF Turns
  <2>2. Read(t, "details", "sources", read)
    BY <1>3
  <2> HIDE DEF read
  <2>3. /\ r \in Turns /\ At(t, "details") /\ turn' = [turn EXCEPT ![t] = r]
        /\ UNCHANGED <<store, account>> /\ r.pc = "sources"
        /\ r.ask = turn[t].ask /\ r.seen = turn[t].seen /\ r.base = turn[t].base
        /\ r.round = turn[t].round /\ r.cards = turn[t].cards /\ r.gone = turn[t].gone
        /\ r.held = turn[t].cards
    BY <2>1, <2>2, ReadIs DEF Inv
  <2> HIDE DEF r
  <2>4. Past(r) /\ SelectedActive(r)
    BY <1>1, <2>3 DEF Past, SelectedActive
  <2>5. QED
    BY <2>3, <2>4, ReadKeeps
<1>4. QED
  BY <1>2, <1>3 DEF ReadDetails

LEMMA ReadSourcesKeeps ==
  ASSUME Inv, NEW t \in Tabs, ReadSources(t)
  PROVE  Inv'
<1>1. CASE Read(t, "sources", "fit", turn[t])
  BY <1>1, PassingKeeps
<1>2. CASE \E some \in SUBSET turn[t].held :
             ~(some \subseteq With("active")) /\ Read(t, "sources", "failed", turn[t])
  <2>1. PICK some \in SUBSET turn[t].held :
          ~(some \subseteq With("active")) /\ Read(t, "sources", "failed", turn[t])
    BY <1>2
  <2>2. turn[t] \in Turns /\ SelectedActive(turn[t]) /\ turn[t].pc = "sources"
    BY <2>1 DEF Inv, TypeOK, CardsWereActive, Read, At
  <2>3. PICK m \in some : m \notin With("active")
    BY <2>1
  <2>4. m \in turn[t].cards /\ m \in Memories
    BY <2>2, <2>3 DEF SelectedActive, Turns
  <2>5. memory[m] = "retired" /\ m \notin turn[t].gone
    BY <2>2, <2>3, <2>4 DEF SelectedActive, With
  <2>6. QED
    BY <2>1, <2>4, <2>5, PassingKeeps
<1>3. QED
  BY <1>1, <1>2 DEF ReadSources

LEMMA FitsKeep ==
  ASSUME Inv, NEW t \in Tabs, Clarify(t) \/ Fit(t) \/ Unfit(t)
  PROVE  Inv'
<1>1. CASE Clarify(t)
  BY <1>1, PassingKeeps DEF Clarify
<1>2. CASE Fit(t)
  BY <1>2, PassingKeeps DEF Fit
<1>3. CASE Unfit(t)
  BY <1>3, PassingKeeps DEF Unfit
<1>4. QED
  BY <1>1, <1>2, <1>3

LEMMA GiveUpKeeps ==
  ASSUME Inv, NEW t \in Tabs, GiveUp(t)
  PROVE  Inv'
<1> DEFINE r == [NoTurn EXCEPT !.pc = "idle"]
<1>1. r \in Turns /\ At(t, "failed") /\ turn' = [turn EXCEPT ![t] = r]
      /\ UNCHANGED <<store, account>>
  BY NoTurnFits, ReadIs DEF GiveUp, Inv
<1>2. /\ r.pc = "idle" /\ r.seen = 0 /\ r.base = 0 /\ r.round = 0
      /\ r.cards = {} /\ r.gone = {} /\ r.held = {}
  BY DEF NoTurn
<1>3. Len(messages) \in Nat /\ Len(summaries) \in Nat /\ saves \in Nat
  BY LenProperties, ContextBounds DEF Inv, TypeOK
<1> HIDE DEF r
<1>4. Past(r) /\ SelectedActive(r)
  BY <1>2, <1>3 DEF Past, SelectedActive
<1>5. QED
  BY <1>1, <1>2, <1>4, ReadKeeps

LEMMA CallToolsKeeps ==
  ASSUME Inv, NEW t \in Tabs, CallTools(t)
  PROVE  Inv'
<1> DEFINE read == [turn[t] EXCEPT !.again = @ + 1]
           r == [read EXCEPT !.pc = "conversation"]
<1>1. turn[t] \in Turns /\ Past(turn[t]) /\ SelectedActive(turn[t])
  BY DEF Inv, TypeOK, ReadsArePast, CardsWereActive
<1>2. turn[t].again + 1 \in 0..MaxToolTurns
  BY <1>1, ContextBounds DEF CallTools, Turns
<1>3. /\ read \in Turns
      /\ read.ask = turn[t].ask /\ read.seen = turn[t].seen /\ read.base = turn[t].base
      /\ read.round = turn[t].round /\ read.cards = turn[t].cards /\ read.gone = turn[t].gone
  BY <1>1, <1>2 DEF Turns
<1>4. Read(t, "ready", "conversation", read)
  BY DEF CallTools
<1> HIDE DEF read
<1>5. /\ r \in Turns /\ At(t, "ready") /\ turn' = [turn EXCEPT ![t] = r]
      /\ UNCHANGED <<store, account>> /\ r.pc = "conversation"
      /\ r.ask = turn[t].ask /\ r.seen = turn[t].seen /\ r.base = turn[t].base
      /\ r.round = turn[t].round /\ r.cards = turn[t].cards /\ r.gone = turn[t].gone
  BY <1>3, <1>4, ReadIs DEF Inv
<1> HIDE DEF r
<1>6. Past(r) /\ SelectedActive(r)
  BY <1>1, <1>5 DEF Past, SelectedActive
<1>7. QED
  BY <1>5, <1>6, ReadKeeps

(***************************************************************************)
(* The steps that write.                                                   *)
(***************************************************************************)

LEMMA AskKeeps ==
  ASSUME Inv, NEW t \in Tabs, NEW text \in Texts, Ask(t, text)
  PROVE  Inv'
<1> USE DEF Inv
<1> DEFINE msg == [role |-> "user", text |-> text]
           half == [NoTurn EXCEPT !.pc = "classify"]
           more == [half EXCEPT !.ask = Len(messages')]
           most == [more EXCEPT !.gone = With("retired")]
           r == [most EXCEPT !.then = saves]
<1>1. /\ At(t, "idle") /\ messages' = Append(messages, msg)
      /\ Len(messages) + Cardinality({o \in Tabs : ~At(o, "idle")}) + 2 <= MaxMessages
      /\ UNCHANGED <<hints, profile, written, saves, memory, summaries, replayed, doubtful>>
  BY DEF Ask, account
<1>2. turn' = [turn EXCEPT ![t] = r]
  BY DEF Ask
<1>3. /\ messages' \in Seq(Message) /\ Len(messages) \in Nat /\ Len(messages') = Len(messages) + 1
      /\ \A i \in 1..Len(messages) : messages'[i] = messages[i]
  BY <1>1, AppendIs DEF TypeOK, Message
<1>4. Cardinality(Busy) \in Nat /\ Len(messages) + Cardinality(Busy) + 2 <= MaxMessages
  BY <1>1, BusyFinite DEF Busy
<1>5. MaxMessages \in Nat /\ Len(messages') \in 0..MaxMessages /\ Len(summaries) \in Nat
      /\ saves \in Nat /\ saves \in 0..MaxSaves
  BY <1>3, <1>4, LenProperties, ContextBounds DEF TypeOK
<1>6. With("retired") \in SUBSET Memories /\ \A m \in With("retired") : memory[m] = "retired"
  BY DEF With
<1>7. /\ half \in Turns /\ half.pc = "classify"
      /\ half.seen = 0 /\ half.base = 0 /\ half.round = 0 /\ half.cards = {}
  BY NoTurnFits DEF NoTurn, Turns
<1> HIDE DEF half
<1>8. /\ more \in Turns /\ more.pc = "classify" /\ more.ask = Len(messages')
      /\ more.seen = 0 /\ more.base = 0 /\ more.round = 0 /\ more.cards = {}
  BY <1>5, <1>7 DEF Turns
<1> HIDE DEF more
<1>24. /\ most \in Turns /\ most.pc = "classify" /\ most.ask = Len(messages')
       /\ most.seen = 0 /\ most.base = 0 /\ most.round = 0 /\ most.cards = {}
       /\ most.gone = With("retired")
  BY <1>6, <1>8 DEF Turns
<1> HIDE DEF most
<1>9. /\ r \in Turns /\ r.pc = "classify" /\ r.ask = Len(messages')
      /\ r.seen = 0 /\ r.base = 0 /\ r.round = 0 /\ r.cards = {} /\ r.gone = With("retired")
  BY <1>5, <1>24 DEF Turns
<1> HIDE DEF r
<1>10. turn \in [Tabs -> Turns] /\ t \notin Busy
  BY <1>1 DEF TypeOK, Busy
<1>11. /\ turn' \in [Tabs -> Turns] /\ turn'[t] = r
       /\ \A u \in Tabs : u # t => turn'[u] = turn[u]
  BY <1>2, <1>9, <1>10
<1>12. TypeOK'
  BY <1>1, <1>3, <1>5, <1>11 DEF TypeOK
<1>13. Busy' = Busy \cup {t} /\ \A u \in Busy : turn'[u].ask = turn[u].ask
  BY <1>9, <1>10, <1>11 DEF Busy, At
<1>14. Room'
  <2>1. Cardinality(Busy') = Cardinality(Busy) + 1
    BY <1>10, <1>13, BusyFinite, FS_AddElement
  <2>2. QED
    BY <1>3, <1>4, <1>5, <2>1 DEF Room
<1>15. AsksAreOwn'
  <2>1. \A u \in Busy : turn[u].ask \in 1..Len(messages)
    BY DEF AsksAreOwn
  <2>2. \A u \in Busy' : turn'[u].ask \in 1..Len(messages')
    BY <1>3, <1>9, <1>11, <1>13, <2>1
  <2>3. \A u, w \in Busy' : turn'[u].ask = turn'[w].ask => u = w
    <3>1. \A u \in Busy : turn'[u].ask # turn'[t].ask
      BY <1>3, <1>9, <1>11, <1>13, <2>1
    <3>2. \A u, w \in Busy : turn'[u].ask = turn'[w].ask => u = w
      BY <1>13 DEF AsksAreOwn
    <3>3. QED
      BY <1>13, <3>1, <3>2
  <2>4. QED
    BY <2>2, <2>3 DEF AsksAreOwn
<1>16. HintsAreHeard'
  <2>1. \A i \in DOMAIN hints : hints[i].from \in 1..Len(messages)
    BY DEF HintsAreHeard
  <2>2. \A i \in DOMAIN hints : hints[i].from \in 1..Len(messages') /\ hints[i].from # r.ask
    BY <1>3, <1>9, <2>1
  <2>3. \A u \in Tabs : At(u, "classify")' =>
          \A i \in DOMAIN hints : hints[i].from # turn'[u].ask
    BY <1>11, <2>2 DEF HintsAreHeard, At
  <2>4. QED
    BY <1>1, <2>2, <2>3 DEF HintsAreHeard
<1>17. ReadsArePast'
  <2>1. SUFFICES ASSUME NEW u \in Tabs PROVE Past(turn[u])'
    BY DEF ReadsArePast
  <2>2. CASE u = t
    BY <1>1, <1>3, <1>5, <1>9, <1>11, <2>2 DEF Past
  <2>3. CASE u # t
    <3>1. turn'[u] = turn[u] /\ turn[u] \in Turns /\ Past(turn[u])
      BY <1>10, <1>11, <2>3 DEF ReadsArePast
    <3>2. turn[u].seen \in Nat
      BY <3>1 DEF Turns
    <3>3. QED
      BY <1>1, <1>3, <3>1, <3>2 DEF Past
  <2>4. QED
    BY <2>2, <2>3
<1>18. CardsWereActive'
  BY <1>1, <1>6, <1>9, <1>11 DEF CardsWereActive, SelectedActive
<1>19. FailsOnlyByRetirement'
  BY <1>1, <1>9, <1>11 DEF FailsOnlyByRetirement, At
<1>20. SummariesCover' /\ FieldsAreWritten'
  BY <1>1 DEF SummariesCover, FieldsAreWritten
<1>21. CompressesLong'
  <2>1. SUFFICES ASSUME NEW u \in Tabs, At(u, "compress")' PROVE TooLong(u)'
    BY DEF CompressesLong
  <2>2. /\ u \in Busy /\ TooLong(u) /\ turn'[u] = turn[u] /\ turn[u] \in Turns /\ Past(turn[u])
    BY <1>9, <1>10, <1>11, <2>1 DEF At, CompressesLong, Busy, ReadsArePast
  <2>3. /\ turn[u].seen \in Nat /\ turn[u].base \in Nat /\ turn[u].seen <= Len(messages)
        /\ turn[u].ask \in 1..Len(messages)
    BY <2>2 DEF Turns, Past, AsksAreOwn
  <2>4. /\ turn[u].seen > 0 => messages'[turn[u].seen] = messages[turn[u].seen]
        /\ messages'[turn[u].ask] = messages[turn[u].ask]
    BY <1>3, <2>3
  <2>5. QED
    BY <1>1, <2>2, <2>3, <2>4, StaysTooLong
<1>22. OverlayIsCurrent'
  BY <1>1 DEF OverlayIsCurrent, Overlaid, Counts
<1>23. QED
  BY <1>12, <1>14, <1>15, <1>16, <1>17, <1>18, <1>19, <1>20, <1>21, <1>22

LEMMA AnswerKeeps ==
  ASSUME Inv, NEW t \in Tabs, Answer(t)
  PROVE  Inv'
<1> USE DEF Inv
<1> DEFINE msg == [role |-> "assistant", text |-> messages[turn[t].ask].text]
<1>1. /\ At(t, "ready") /\ messages' = Append(messages, msg)
      /\ turn' = [turn EXCEPT ![t] = NoTurn]
      /\ UNCHANGED <<hints, profile, written, saves, memory, summaries, replayed, doubtful>>
  BY DEF Answer, account
<1>2. turn \in [Tabs -> Turns] /\ t \in Busy
  BY <1>1 DEF TypeOK, Busy, At
<1>3. msg \in Message
  <2>1. turn[t].ask \in 1..Len(messages)
    BY <1>2 DEF AsksAreOwn
  <2>2. messages[turn[t].ask] \in Message
    BY <2>1, ElementOfSeq DEF TypeOK
  <2>3. QED
    BY <2>2 DEF Message
<1> HIDE DEF msg
<1>4. /\ messages' \in Seq(Message) /\ Len(messages) \in Nat /\ Len(messages') = Len(messages) + 1
      /\ \A i \in 1..Len(messages) : messages'[i] = messages[i]
  BY <1>1, <1>3, AppendIs DEF TypeOK
<1>5. /\ turn' \in [Tabs -> Turns] /\ turn'[t] = NoTurn
      /\ \A u \in Tabs : u # t => turn'[u] = turn[u]
  BY <1>1, <1>2, NoTurnFits
<1>6. Busy' = Busy \ {t} /\ \A u \in Busy' : turn'[u] = turn[u]
  BY <1>2, <1>5 DEF Busy, At, NoTurn
<1>7. Room' /\ Len(messages') <= MaxMessages
  <2>1. /\ Cardinality(Busy') = Cardinality(Busy) - 1
        /\ Cardinality(Busy) \in Nat /\ Cardinality(Busy') \in Nat
    BY <1>2, <1>6, BusyFinite, FS_RemoveElement
  <2>2. MaxMessages \in Nat /\ Len(messages) + Cardinality(Busy) <= MaxMessages
    BY ContextBounds DEF Room
  <2>3. QED
    BY <1>4, <2>1, <2>2 DEF Room
<1>8. TypeOK'
  BY <1>1, <1>4, <1>5, <1>7 DEF TypeOK
<1>9. AsksAreOwn'
  <2>1. \A u \in Busy' : u \in Busy /\ turn'[u].ask = turn[u].ask
    BY <1>6
  <2>2. \A u \in Busy : turn[u].ask \in 1..Len(messages')
    BY <1>4 DEF AsksAreOwn
  <2>3. QED
    BY <2>1, <2>2 DEF AsksAreOwn
<1>10. HintsAreHeard'
  <2>1. \A i \in DOMAIN hints : hints[i].from \in 1..Len(messages')
    BY <1>4 DEF HintsAreHeard
  <2>2. QED
    BY <1>1, <1>5, <2>1 DEF HintsAreHeard, At, NoTurn
<1>11. Len(summaries) \in Nat /\ saves \in Nat
  BY LenProperties, ContextBounds DEF TypeOK
<1>12. ReadsArePast'
  <2>1. SUFFICES ASSUME NEW u \in Tabs PROVE Past(turn[u])'
    BY DEF ReadsArePast
  <2>2. CASE u = t
    BY <1>1, <1>4, <1>5, <1>11, <2>2 DEF Past, NoTurn
  <2>3. CASE u # t
    <3>1. turn'[u] = turn[u] /\ turn[u] \in Turns /\ Past(turn[u])
      BY <1>2, <1>5, <2>3 DEF ReadsArePast
    <3>2. turn[u].seen \in Nat
      BY <3>1 DEF Turns
    <3>3. QED
      BY <1>1, <1>4, <3>1, <3>2 DEF Past
  <2>4. QED
    BY <2>2, <2>3
<1>13. CardsWereActive'
  BY <1>1, <1>5 DEF CardsWereActive, SelectedActive, NoTurn
<1>14. FailsOnlyByRetirement'
  BY <1>1, <1>5 DEF FailsOnlyByRetirement, At, NoTurn
<1>15. SummariesCover' /\ FieldsAreWritten'
  BY <1>1 DEF SummariesCover, FieldsAreWritten
<1>16. CompressesLong'
  <2>1. SUFFICES ASSUME NEW u \in Tabs, At(u, "compress")' PROVE TooLong(u)'
    BY DEF CompressesLong
  <2>2. /\ u \in Busy /\ TooLong(u) /\ turn'[u] = turn[u] /\ turn[u] \in Turns /\ Past(turn[u])
    BY <1>2, <1>5, <2>1 DEF At, CompressesLong, Busy, ReadsArePast, NoTurn
  <2>3. /\ turn[u].seen \in Nat /\ turn[u].base \in Nat /\ turn[u].seen <= Len(messages)
        /\ turn[u].ask \in 1..Len(messages)
    BY <2>2 DEF Turns, Past, AsksAreOwn
  <2>4. /\ turn[u].seen > 0 => messages'[turn[u].seen] = messages[turn[u].seen]
        /\ messages'[turn[u].ask] = messages[turn[u].ask]
    BY <1>4, <2>3
  <2>5. QED
    BY <1>1, <2>2, <2>3, <2>4, StaysTooLong
<1>17. OverlayIsCurrent'
  BY <1>1 DEF OverlayIsCurrent, Overlaid, Counts
<1>18. QED
  BY <1>7, <1>8, <1>9, <1>10, <1>12, <1>13, <1>14, <1>15, <1>16, <1>17

\* What is summarised is the beginning of the history.
LEMMA OlderIs ==
  ASSUME NEW t, turn[t].seen \in 0..MaxMessages, TooLong(t)
  PROVE  /\ Older(t) \subseteq History(t) /\ Max(Older(t)) \in Older(t)
         /\ \A i \in History(t) : i <= Max(Older(t)) => i \in Older(t)
         /\ History(t) \subseteq Earlier(t)
         /\ \A i \in Earlier(t) : \A j \in 1..i : j \in Earlier(t)
         /\ Earlier(t) \subseteq 1..MaxMessages
<1>1. MaxMessages \in Nat
  BY ContextBounds
<1>2. \A i \in Earlier(t) : i \in 1..MaxMessages /\ \A j \in 1..i : j \in Earlier(t)
  BY <1>1 DEF Earlier
<1>3. History(t) \subseteq Earlier(t)
  BY DEF History
<1> DEFINE h == History(t)
           n == Max({2, Cardinality(h) \div 2})
           upto(i) == {j \in h : j <= i}
<1>4. h \subseteq 1..MaxMessages
  BY <1>2, <1>3
<1>5. IsFiniteSet(h) /\ \A S \in SUBSET h : IsFiniteSet(S) /\ Cardinality(S) \in Nat
  <2>1. IsFiniteSet(h)
    BY <1>1, <1>4, CardinalityUpto, FS_Subset
  <2>2. QED
    BY <2>1, FS_Subset, FS_CardinalityType
<1>6. Cardinality(h) \in Nat /\ Cardinality(h) >= 4
  BY <1>5 DEF TooLong
<1>7. n \in Nat /\ n >= 2
  <2>1. Cardinality(h) \div 2 \in 0..Cardinality(h)
    BY <1>6
  <2>2. {2, Cardinality(h) \div 2} \in SUBSET (0..Cardinality(h))
    BY <1>6, <2>1
  <2>3. n \in {2, Cardinality(h) \div 2} /\ \A m \in {2, Cardinality(h) \div 2} : m <= n
    BY <1>6, <2>2, MaxIs
  <2> HIDE DEF n
  <2>4. QED
    BY <2>1, <2>3
<1>8. Older(t) = {i \in h : Cardinality(upto(i)) <= n}
  BY DEF Older
<1> HIDE DEF n, h
<1>9. PICK x \in h : \A m \in h : x <= m
  <2>1. h # {}
    BY <1>5, <1>6, FS_EmptySet
  <2>2. h \in SUBSET Nat
    BY <1>4
  <2>3. QED
    BY <2>1, <2>2, Least
<1>10. x \in Older(t)
  <2>1. upto(x) = {x}
    BY <1>4, <1>9
  <2>2. Cardinality({x}) = 1
    BY FS_Singleton
  <2>3. QED
    BY <1>7, <1>8, <1>9, <2>1, <2>2
<1>11. Older(t) \subseteq h /\ Older(t) \in SUBSET (0..MaxMessages) /\ Older(t) # {}
  <2>1. Older(t) \subseteq h /\ Older(t) # {}
    BY <1>8, <1>10
  <2>2. \A i \in h : i \in 0..MaxMessages
    BY <1>1, <1>4
  <2>3. QED
    BY <2>1, <2>2
<1>12. Max(Older(t)) \in Older(t) /\ \A i \in Older(t) : i <= Max(Older(t))
  <2> DEFINE older == Older(t)
  <2>1. older \in SUBSET (0..MaxMessages) /\ older # {}
    BY <1>11
  <2> HIDE DEF older
  <2>2. Max(older) \in older /\ \A i \in older : i <= Max(older)
    BY <1>1, <2>1, MaxIs
  <2>3. QED
    BY <2>2 DEF older
<1>13. ASSUME NEW i \in h, i <= Max(Older(t)) PROVE i \in Older(t)
  <2> DEFINE top == Max(Older(t))
  <2>1. top \in Older(t) /\ top \in Nat /\ i \in Nat /\ i <= top
    BY <1>4, <1>11, <1>12, <1>13
  <2> HIDE DEF top
  <2>2. upto(i) \subseteq upto(top) /\ upto(top) \subseteq h
    <3>1. \A j \in h : j \in Nat
      BY <1>4
    <3>2. \A j \in h : j <= i => j <= top
      BY <2>1, <3>1
    <3>3. QED
      BY <3>2
  <2>3. Cardinality(upto(i)) <= Cardinality(upto(top))
    BY <1>5, <2>2, FS_Subset
  <2>4. /\ Cardinality(upto(i)) \in Nat /\ Cardinality(upto(top)) \in Nat
        /\ Cardinality(upto(top)) <= n
    BY <1>5, <1>8, <2>1, <2>2
  <2>5. Cardinality(upto(i)) <= n
    BY <1>7, <2>3, <2>4
  <2>6. QED
    BY <1>8, <2>5
<1>14. QED
  BY <1>2, <1>3, <1>11, <1>12, <1>13 DEF h

LEMMA CompressKeeps ==
  ASSUME Inv, NEW t \in Tabs, Compress(t)
  PROVE  Inv'
<1> USE DEF Inv
<1> DEFINE top == Max(Older(t))
           sum == [through |-> top, batch |-> Older(t)]
           r == [turn[t] EXCEPT !.pc = "conversation"]
<1>1. /\ At(t, "compress") /\ summaries' = Append(summaries, sum)
      /\ turn' = [turn EXCEPT ![t].pc = "conversation"]
      /\ UNCHANGED <<messages, hints, profile, written, saves, memory, replayed, doubtful>>
  BY DEF Compress, account
<1>2. /\ turn \in [Tabs -> Turns] /\ turn[t] \in Turns /\ t \in Busy
      /\ turn[t].seen \in 0..MaxMessages /\ turn[t].base \in Nat
  BY <1>1 DEF TypeOK, Turns, Busy, At
<1>3. TooLong(t)
  BY <1>1 DEF CompressesLong
<1>4. /\ Older(t) \subseteq History(t) /\ top \in Older(t)
      /\ \A i \in History(t) : i <= top => i \in Older(t)
      /\ History(t) \subseteq Earlier(t)
      /\ \A i \in Earlier(t) : \A j \in 1..i : j \in Earlier(t)
      /\ Earlier(t) \subseteq 1..MaxMessages
  BY <1>2, <1>3, OlderIs
<1> HIDE DEF top
<1>5. top \in 1..MaxMessages /\ sum \in Summary
  BY <1>4 DEF Summary
<1>6. /\ summaries' \in Seq(Summary) /\ Len(summaries) \in Nat /\ Len(summaries') = Len(summaries) + 1
      /\ DOMAIN summaries = 1..Len(summaries) /\ DOMAIN summaries' = 1..(Len(summaries) + 1)
      /\ \A i \in 1..Len(summaries) : summaries'[i] = summaries[i]
      /\ summaries'[Len(summaries) + 1] = sum
  BY <1>1, <1>5, AppendIs DEF TypeOK
<1>7. sum.through = top /\ sum.batch = Older(t)
  OBVIOUS
<1> HIDE DEF sum
<1>8. /\ r \in Turns /\ r.pc = "conversation"
      /\ r.ask = turn[t].ask /\ r.seen = turn[t].seen /\ r.base = turn[t].base
      /\ r.round = turn[t].round /\ r.cards = turn[t].cards /\ r.gone = turn[t].gone
  BY <1>2 DEF Turns
<1>9. turn' = [turn EXCEPT ![t] = r]
  BY <1>1, <1>2 DEF Turns
<1> HIDE DEF r
<1>10. /\ turn' \in [Tabs -> Turns] /\ turn'[t] = r
       /\ \A u \in Tabs : u # t => turn'[u] = turn[u]
  BY <1>2, <1>8, <1>9
<1>11. TypeOK'
  BY <1>1, <1>6, <1>10 DEF TypeOK
<1>12. Busy' = Busy /\ \A u \in Tabs : turn'[u].ask = turn[u].ask
  BY <1>2, <1>8, <1>10 DEF Busy, At
<1>13. Room' /\ AsksAreOwn'
  BY <1>1, <1>12 DEF Room, AsksAreOwn
<1>14. HintsAreHeard'
  BY <1>1, <1>8, <1>10 DEF HintsAreHeard, At
<1>15. ReadsArePast'
  <2>1. SUFFICES ASSUME NEW u \in Tabs PROVE Past(turn[u])'
    BY DEF ReadsArePast
  <2>2. Past(turn[u]) /\ turn[u] \in Turns
    BY <1>2 DEF ReadsArePast
  <2>3. turn[u].base \in Nat
    BY <2>2 DEF Turns
  <2>4. turn'[u] = turn[u] \/ (u = t /\ turn'[u] = r)
    BY <1>10
  <2>5. QED
    BY <1>1, <1>6, <1>8, <2>2, <2>3, <2>4 DEF Past
<1>16. CardsWereActive'
  BY <1>1, <1>8, <1>10 DEF CardsWereActive, SelectedActive
<1>17. FailsOnlyByRetirement'
  BY <1>1, <1>8, <1>10 DEF FailsOnlyByRetirement, At
<1>18. SummariesCover'
  <2>1. SUFFICES ASSUME NEW n \in DOMAIN summaries', NEW i \in 1..summaries'[n].through
                 PROVE  \E m \in 1..n : i \in summaries'[m].batch
    BY DEF SummariesCover
  <2>2. CASE n \in DOMAIN summaries
    <3>1. PICK m \in 1..n : i \in summaries[m].batch
      BY <1>6, <2>2 DEF SummariesCover
    <3>2. m \in 1..Len(summaries)
      BY <1>6, <2>2
    <3>3. QED
      BY <1>6, <3>1, <3>2
  <2>3. CASE n = Len(summaries) + 1
    <3>1. i \in 1..top
      BY <1>6, <1>7, <2>3
    <3>2. CASE i \in Older(t)
      <4>1. i \in summaries'[n].batch /\ n \in 1..n
        BY <1>6, <1>7, <2>3, <3>2
      <4>2. QED
        BY <4>1
    <3>3. CASE i \notin Older(t)
      <4>1. i \in Earlier(t) /\ i \notin History(t) /\ i \in Nat
        BY <1>4, <1>5, <3>1, <3>3
      <4>2. turn[t].base # 0 /\ ~(i > summaries[turn[t].base].through)
        BY <4>1 DEF History
      <4>3. turn[t].base \in 1..Len(summaries)
        BY <1>2, <1>6, <4>2 DEF ReadsArePast, Past
      <4>4. summaries[turn[t].base].through \in 1..MaxMessages
        <5>1. summaries[turn[t].base] \in Summary
          BY <4>3, ElementOfSeq DEF TypeOK
        <5>2. QED
          BY <5>1 DEF Summary
      <4>5. i \in 1..summaries[turn[t].base].through
        BY <3>1, <4>1, <4>2, <4>4
      <4>6. PICK m \in 1..turn[t].base : i \in summaries[m].batch
        BY <1>6, <4>3, <4>5 DEF SummariesCover
      <4>7. m \in 1..Len(summaries) /\ m \in 1..n
        BY <1>6, <2>3, <4>3
      <4>8. QED
        BY <1>6, <4>6, <4>7
    <3>4. QED
      BY <3>2, <3>3
  <2>4. QED
    BY <1>6, <2>2, <2>3
<1>19. CompressesLong'
  <2>1. SUFFICES ASSUME NEW u \in Tabs, At(u, "compress")' PROVE TooLong(u)'
    BY DEF CompressesLong
  <2>2. /\ TooLong(u) /\ turn'[u] = turn[u] /\ turn[u] \in Turns /\ Past(turn[u])
    BY <1>2, <1>8, <1>10, <2>1 DEF At, CompressesLong, ReadsArePast
  <2>3. /\ turn[u].seen \in Nat /\ turn[u].base \in Nat /\ turn[u].base <= Len(summaries)
    BY <2>2 DEF Turns, Past
  <2>4. turn[u].base # 0 => summaries'[turn[u].base] = summaries[turn[u].base]
    BY <1>6, <2>3
  <2>5. QED
    BY <1>1, <2>2, <2>3, <2>4, StaysTooLong
<1>20. FieldsAreWritten' /\ OverlayIsCurrent'
  BY <1>1 DEF FieldsAreWritten, OverlayIsCurrent, Overlaid, Counts
<1>21. QED
  BY <1>11, <1>13, <1>14, <1>15, <1>16, <1>17, <1>18, <1>19, <1>20

LEMMA FittingIs ==
  ASSUME NEW r
  PROVE  r \in [Topics -> Values] /\ [f \in Fields |-> r[f]] \in Profiles <=>
           \E g : r = [k \in Topics |-> g[k]] /\ \A k \in Topics : g[k] \in Fitting(k)
<1>1. Scalars \subseteq Fields /\ Fields \subseteq Topics
  BY TopicAssumption
<1>2. ASSUME r \in [Topics -> Values], [f \in Fields |-> r[f]] \in Profiles
      PROVE  \E g : r = [k \in Topics |-> g[k]] /\ \A k \in Topics : g[k] \in Fitting(k)
  <2>1. \A f \in Scalars : Cardinality([g \in Fields |-> r[g]][f]) <= 1
    BY <1>2 DEF Profiles
  <2>2. \A f \in Scalars : Cardinality(r[f]) <= 1
    BY <1>1, <2>1
  <2>3. r = [k \in Topics |-> r[k]] /\ \A k \in Topics : r[k] \in Fitting(k)
    BY <1>2, <2>2 DEF Fitting
  <2>4. QED
    BY <2>3
<1>3. ASSUME NEW g, r = [k \in Topics |-> g[k]], \A k \in Topics : g[k] \in Fitting(k)
      PROVE  r \in [Topics -> Values] /\ [f \in Fields |-> r[f]] \in Profiles
  <2>1. r \in [Topics -> Values] /\ \A f \in Fields : r[f] \in Values
    BY <1>1, <1>3 DEF Fitting
  <2>2. \A f \in Scalars : Cardinality(r[f]) <= 1
    BY <1>1, <1>3 DEF Fitting
  <2>3. [f \in Fields |-> r[f]] \in [Fields -> Values]
    BY <2>1
  <2>4. \A f \in Scalars : Cardinality([g2 \in Fields |-> r[g2]][f]) <= 1
    BY <1>1, <2>2
  <2>5. QED
    BY <2>1, <2>3, <2>4 DEF Profiles
<1>4. QED
  BY <1>2, <1>3

LEMMA ClassifyIs ==
  ASSUME Inv, NEW t \in Tabs, Classify(t)
  PROVE  \E said \in Seq(Statement), new \in Seq(Hint), late \in SUBSET Topics :
           /\ Len(new) = Len(said)
           /\ \A i \in 1..Len(said) : new[i] = [from |-> turn[t].ask, says |-> said[i]]
           /\ hints' = hints \o new
           /\ doubtful' = doubtful \cup late
           /\ replayed' = [k \in Topics |->
                AppliedInTurn(replayed[k], said,
                              {i \in DOMAIN said : said[i].about = k /\ k \notin late}, Len(said))]
<1> USE DEF Inv
<1> DEFINE said == Says[messages[turn[t].ask].text]
           ask == turn[t].ask
           new == [i \in DOMAIN said |-> [from |-> ask, says |-> said[i]]]
           others == {h \in ToSet(hints) : h.from # ask}
           kept == Selected(hints, others)
           late == Overtaken(t, said)
<1>1. At(t, "classify") /\ t \in Busy
  BY DEF Classify, Busy, At
<1>2. ask \in 1..Len(messages) /\ ask \in Nat
  BY <1>1 DEF AsksAreOwn
<1>3. said \in Seq(Statement)
  <2>1. messages[ask] \in Message
    BY <1>2, ElementOfSeq DEF TypeOK
  <2>2. messages[ask].text \in Texts
    BY <2>1 DEF Message
  <2>3. QED
    BY <2>2, TopicAssumption
<1>4. kept = hints
  <2>1. \A i \in DOMAIN hints : hints[i] \in others
    BY <1>1 DEF HintsAreHeard, ToSet
  <2>2. hints \in Seq(Hint)
    BY DEF TypeOK
  <2> HIDE DEF others
  <2>3. QED
    BY <2>1, <2>2, SelectedAll
<1>5. /\ hints' = IF said = <<>> THEN hints ELSE kept \o new
      /\ doubtful' = doubtful \cup late
      /\ replayed' = [k \in Topics |->
           AppliedInTurn(replayed[k], said,
                         {i \in DOMAIN said : said[i].about = k /\ k \notin late}, Len(said))]
  BY DEF Classify
<1> HIDE DEF kept, said, ask
<1>6. Len(said) \in Nat /\ DOMAIN said = 1..Len(said) /\ \A i \in 1..Len(said) : said[i] \in Statement
  BY <1>3, LenProperties, ElementOfSeq
<1>11. late \in SUBSET Topics
  BY <1>6 DEF Overtaken, Statement
<1> HIDE DEF late
<1>7. new \in [1..Len(said) -> Hint]
  BY <1>2, <1>6 DEF Hint
<1>8. /\ new \in Seq(Hint) /\ Len(new) = Len(said)
      /\ \A i \in 1..Len(said) : new[i] = [from |-> ask, says |-> said[i]]
  BY <1>6, <1>7
<1> HIDE DEF new
<1>9. hints' = hints \o new
  <2>1. CASE said = <<>>
    <3>1. new = <<>>
      BY <1>8, <2>1, EmptySeq, LenProperties
    <3>2. hints \o <<>> = hints
      BY ConcatEmptySeq DEF TypeOK
    <3>3. QED
      BY <1>5, <2>1, <3>1, <3>2
  <2>2. CASE said # <<>>
    BY <1>4, <1>5, <2>2
  <2>3. QED
    BY <2>1, <2>2
<1>10. QED
  BY <1>3, <1>5, <1>8, <1>9, <1>11 DEF ask

\* The value of a topic before any hint.
Start(k, from) == IF k \in Fields THEN from[k] ELSE {}

LEMMA OverlaidIs ==
  ASSUME NEW k, NEW from, NEW at, NEW n
  PROVE  Overlaid(k, from, at, n) =
           AppliedInTurn(Start(k, from), [i \in 1..n |-> hints[i].says],
                         {i \in 1..n : Counts(k, at, i)}, n)
<1>1. QED
  BY DEF Overlaid, Start

LEMMA ClassifyOverlays ==
  ASSUME Inv, NEW t \in Tabs, Classify(t), NEW k \in Topics \ doubtful'
  PROVE  Overlaid(k, profile, written, Len(hints))' = replayed'[k]
<1> USE DEF Inv
<1>1. PICK said \in Seq(Statement), new \in Seq(Hint), late \in SUBSET Topics :
        /\ Len(new) = Len(said)
        /\ \A i \in 1..Len(said) : new[i] = [from |-> turn[t].ask, says |-> said[i]]
        /\ hints' = hints \o new
        /\ doubtful' = doubtful \cup late
        /\ replayed' = [kk \in Topics |->
             AppliedInTurn(replayed[kk], said,
                           {i \in DOMAIN said : said[i].about = kk /\ kk \notin late}, Len(said))]
  BY ClassifyIs
<1> DEFINE n == Len(hints)
           m == Len(said)
           says == [i \in 1..n |-> hints[i].says]
           counting == {i \in 1..n : Counts(k, written, i)}
           also == {i \in DOMAIN said : said[i].about = k}
           all == [i \in 1..(n + m) |-> hints'[i].says]
           either == {i \in 1..(n + m) : Counts(k, written, i)'}
           start == Start(k, profile)
<1>2. hints \in Seq(Hint) /\ m \in Nat /\ DOMAIN said = 1..m
  BY LenProperties DEF TypeOK
<1>3. /\ n \in Nat /\ Len(hints') = n + m
      /\ \A i \in 1..n : hints'[i] = hints[i]
      /\ \A i \in 1..m : hints'[n + i] = new[i]
  <2>1. /\ Len(hints) \in Nat /\ Len(hints \o new) = Len(hints) + Len(new)
        /\ \A i \in 1..Len(hints) : (hints \o new)[i] = hints[i]
        /\ \A i \in 1..Len(new) : (hints \o new)[Len(hints) + i] = new[i]
    BY <1>2, ConcatIs
  <2>2. QED
    BY <1>1, <2>1
<1>4. UNCHANGED <<profile, written>>
  BY DEF Classify
<1>5. \A i : Counts(k, written, i)' <=> /\ hints'[i].says.about = k
                                        /\ k \in Fields => i > written[k]
  BY <1>4 DEF Counts
<1>6. \A i \in 1..m : hints'[n + i].says = said[i]
  <2>1. ASSUME NEW i \in 1..m PROVE hints'[n + i].says = said[i]
    <3>1. hints'[n + i] = new[i]
      BY <1>3
    <3>2. new[i] = [from |-> turn[t].ask, says |-> said[i]]
      BY <1>1
    <3> HIDE DEF says
    <3>3. new[i].says = said[i]
      BY <3>2
    <3>4. QED
      BY <3>1, <3>3
  <2>2. QED
    BY <2>1
<1> HIDE DEF n, m
<1>7. \A i \in 1..n : /\ i \in either <=> i \in counting
                      /\ i \in counting => all[i] = says[i]
  <2>1. \A i \in 1..n : i \in 1..(n + m)
    BY <1>2, <1>3
  <2>2. \A i \in 1..n : Counts(k, written, i)' <=> Counts(k, written, i)
    BY <1>3, <1>5 DEF Counts
  <2>3. QED
    BY <1>3, <2>1, <2>2
<1>8. \A i \in 1..m : /\ n + i \in either <=> i \in also
                      /\ i \in also => all[n + i] = said[i]
  <2>1. \A i \in 1..m : n + i \in 1..(n + m)
    BY <1>2, <1>3
  <2>2. \A i \in 1..m : k \in Fields => n + i > written[k]
    <3>1. k \in Fields => written[k] \in Nat /\ written[k] <= n
      BY DEF FieldsAreWritten, TypeOK, n
    <3>2. QED
      BY <1>2, <1>3, <3>1
  <2>3. ASSUME NEW i \in 1..m, NEW j, j = n + i
        PROVE  /\ j \in either <=> i \in also
               /\ i \in also => all[j] = said[i]
    <3>1. j \in 1..(n + m) /\ hints'[j].says = said[i] /\ (k \in Fields => j > written[k])
      BY <1>6, <2>1, <2>2, <2>3
    <3>2. Counts(k, written, j)' <=> said[i].about = k
      BY <1>5, <3>1
    <3>3. j \in either <=> said[i].about = k
      BY <3>1, <3>2
    <3>4. i \in also <=> said[i].about = k
      BY <1>2
    <3>5. all[j] = said[i]
      BY <3>1
    <3>6. QED
      BY <3>3, <3>4, <3>5
  <2>4. QED
    BY <2>3
<1>9. Overlaid(k, profile, written, Len(hints))' = AppliedInTurn(start, all, either, n + m)
  <2>1. start' = start
    BY <1>4 DEF Start
  <2>2. Overlaid(k, profile, written, Len(hints))' =
          AppliedInTurn(start, [i \in 1..Len(hints') |-> hints'[i].says],
                        {i \in 1..Len(hints') : Counts(k, written, i)'}, Len(hints'))
    BY <1>4 DEF Overlaid, Start
  <2>3. QED
    BY <1>3, <2>2
<1>14. k \in Topics \ doubtful /\ k \notin late
  BY <1>1
<1>10. AppliedInTurn(start, says, counting, n) = replayed[k]
  BY <1>14, OverlaidIs DEF OverlayIsCurrent, n
<1>11. replayed'[k] = AppliedInTurn(replayed[k], said, also, m)
  <2>1. {i \in DOMAIN said : said[i].about = k /\ k \notin late} = also
    BY <1>14
  <2>2. QED
    BY <1>1, <1>14, <2>1 DEF m
<1> HIDE DEF start, all, either, says, counting, also
<1>12. AppliedInTurn(start, all, either, n + m) =
         AppliedInTurn(AppliedInTurn(start, says, counting, n), said, also, m)
  <2> DEFINE total == n + m
  <2>1. m \in Nat /\ n \in Nat /\ total = n + m
    BY <1>2, <1>3
  <2> HIDE DEF total
  <2>2. AppliedInTurn(start, all, either, total) =
          AppliedInTurn(AppliedInTurn(start, says, counting, n), said, also, m)
    BY <1>7, <1>8, <2>1, StatementsGoOn
  <2>3. QED
    BY <2>1, <2>2
<1>13. QED
  BY <1>9, <1>10, <1>11, <1>12

LEMMA ClassifyKeeps ==
  ASSUME Inv, NEW t \in Tabs, Classify(t)
  PROVE  Inv'
<1> USE DEF Inv
<1> DEFINE r == [turn[t] EXCEPT !.pc = "conversation"]
<1>1. PICK said \in Seq(Statement), new \in Seq(Hint), late \in SUBSET Topics :
        /\ Len(new) = Len(said)
        /\ \A i \in 1..Len(said) : new[i] = [from |-> turn[t].ask, says |-> said[i]]
        /\ hints' = hints \o new
        /\ doubtful' = doubtful \cup late
        /\ replayed' = [k \in Topics |->
             AppliedInTurn(replayed[k], said,
                           {i \in DOMAIN said : said[i].about = k /\ k \notin late}, Len(said))]
  BY ClassifyIs
<1>2. /\ At(t, "classify") /\ turn' = [turn EXCEPT ![t].pc = "conversation"]
      /\ UNCHANGED <<messages, profile, written, saves, memory, summaries>>
  BY DEF Classify
<1>3. /\ hints' \in Seq(Hint) /\ Len(hints) \in Nat /\ Len(said) \in Nat
      /\ Len(hints') = Len(hints) + Len(said)
      /\ DOMAIN hints = 1..Len(hints) /\ DOMAIN said = 1..Len(said)
      /\ DOMAIN hints' = 1..(Len(hints) + Len(said))
      /\ \A i \in 1..Len(hints) : hints'[i] = hints[i]
      /\ \A i \in 1..Len(said) : hints'[Len(hints) + i] = new[i]
  <2>1. hints \in Seq(Hint)
    BY DEF TypeOK
  <2>2. /\ hints \o new \in Seq(Hint)
        /\ Len(hints) \in Nat /\ Len(new) \in Nat /\ Len(hints \o new) = Len(hints) + Len(new)
        /\ DOMAIN hints = 1..Len(hints) /\ DOMAIN (hints \o new) = 1..(Len(hints) + Len(new))
        /\ \A i \in 1..Len(hints) : (hints \o new)[i] = hints[i]
        /\ \A i \in 1..Len(new) : (hints \o new)[Len(hints) + i] = new[i]
    BY <2>1, ConcatIs
  <2>3. Len(said) \in Nat /\ DOMAIN said = 1..Len(said)
    BY LenProperties
  <2>4. Len(new) = Len(said) /\ hints' = hints \o new
    BY <1>1
  <2>5. QED
    BY <2>2, <2>3, <2>4
<1>4. /\ turn \in [Tabs -> Turns] /\ turn[t] \in Turns /\ t \in Busy
  BY <1>2 DEF TypeOK, Busy, At
<1>5. /\ r \in Turns /\ r.pc = "conversation"
      /\ r.ask = turn[t].ask /\ r.seen = turn[t].seen /\ r.base = turn[t].base
      /\ r.round = turn[t].round /\ r.cards = turn[t].cards /\ r.gone = turn[t].gone
      /\ turn' = [turn EXCEPT ![t] = r]
  BY <1>2, <1>4 DEF Turns
<1> HIDE DEF r
<1>6. /\ turn' \in [Tabs -> Turns] /\ turn'[t] = r
      /\ \A u \in Tabs : u # t => turn'[u] = turn[u]
  BY <1>4, <1>5
<1>7. replayed' \in [Topics -> Values] /\ [f \in Fields |-> replayed'[f]] \in Profiles
  <2> DEFINE g == [k \in Topics |->
                    AppliedInTurn(replayed[k], said,
                                  {i \in DOMAIN said : said[i].about = k /\ k \notin late}, Len(said))]
  <2>1. \A k \in Topics : replayed[k] \in Fitting(k)
    <3>1. \E f : replayed = [k \in Topics |-> f[k]] /\ \A k \in Topics : f[k] \in Fitting(k)
      BY FittingIs DEF TypeOK
    <3>2. QED
      BY <3>1
  <2>2. ASSUME NEW k \in Topics
        PROVE  AppliedInTurn(replayed[k], said,
                             {i \in DOMAIN said : said[i].about = k /\ k \notin late}, Len(said))
                 \in Fitting(k)
    <3> DEFINE counting == {i \in DOMAIN said : said[i].about = k /\ k \notin late}
    <3>1. \A i \in 1..Len(said) : i \in counting => said[i] \in Statement /\ said[i].about = k
      BY ElementOfSeq
    <3> HIDE DEF counting
    <3>2. AppliedInTurn(replayed[k], said, counting, Len(said)) \in Fitting(k)
      BY <1>3, <2>1, <3>1, AppliedInTurnFits
    <3>3. QED
      BY <3>2 DEF counting
  <2>3. \A k \in Topics : g[k] \in Fitting(k)
    BY <2>2
  <2>4. replayed' = g
    BY <1>1
  <2> HIDE DEF g
  <2>5. g = [k \in Topics |-> g[k]]
    BY DEF g
  <2>6. QED
    BY <2>3, <2>4, <2>5, FittingIs
<1>8. TypeOK'
  BY <1>1, <1>2, <1>3, <1>6, <1>7 DEF TypeOK
<1>9. Busy' = Busy /\ \A u \in Tabs : turn'[u].ask = turn[u].ask
  BY <1>4, <1>5, <1>6 DEF Busy, At
<1>10. Room' /\ AsksAreOwn'
  BY <1>2, <1>9 DEF Room, AsksAreOwn
<1>11. HintsAreHeard'
  <2>1. \A i \in DOMAIN hints' : \/ i \in DOMAIN hints /\ hints'[i] = hints[i]
                                 \/ hints'[i].from = turn[t].ask
    <3>1. ASSUME NEW i \in DOMAIN hints', i \notin DOMAIN hints PROVE hints'[i].from = turn[t].ask
      <4>1. i - Len(hints) \in 1..Len(said) /\ Len(hints) + (i - Len(hints)) = i
        BY <1>3, <3>1
      <4>2. hints'[i] = new[i - Len(hints)]
        BY <1>3, <4>1
      <4>3. new[i - Len(hints)] = [from |-> turn[t].ask, says |-> said[i - Len(hints)]]
        BY <1>1, <4>1
      <4>4. QED
        BY <4>2, <4>3
    <3>2. QED
      BY <1>3, <3>1
  <2>2. turn[t].ask \in 1..Len(messages)
    BY <1>4 DEF AsksAreOwn
  <2>3. \A i \in DOMAIN hints' : hints'[i].from \in 1..Len(messages')
    BY <1>2, <2>1, <2>2 DEF HintsAreHeard
  <2>4. ASSUME NEW u \in Tabs, At(u, "classify")', NEW i \in DOMAIN hints'
        PROVE  hints'[i].from # turn'[u].ask
    <3>1. u # t /\ turn'[u] = turn[u] /\ At(u, "classify") /\ u \in Busy
      BY <1>5, <1>6, <2>4 DEF At, Busy
    <3>2. turn[u].ask # turn[t].ask
      BY <1>4, <3>1 DEF AsksAreOwn
    <3>3. QED
      BY <2>1, <3>1, <3>2 DEF HintsAreHeard
  <2>5. QED
    BY <2>3, <2>4 DEF HintsAreHeard
<1>12. ReadsArePast'
  <2>1. SUFFICES ASSUME NEW u \in Tabs PROVE Past(turn[u])'
    BY DEF ReadsArePast
  <2>2. Past(turn[u])
    BY DEF ReadsArePast
  <2>3. turn'[u] = turn[u] \/ (u = t /\ turn'[u] = r)
    BY <1>6
  <2>4. QED
    BY <1>2, <1>5, <2>2, <2>3 DEF Past
<1>13. CardsWereActive'
  BY <1>2, <1>5, <1>6 DEF CardsWereActive, SelectedActive
<1>14. FailsOnlyByRetirement'
  BY <1>2, <1>5, <1>6 DEF FailsOnlyByRetirement, At
<1>15. SummariesCover'
  BY <1>2 DEF SummariesCover
<1>16. FieldsAreWritten'
  <2>1. \A f \in Fields : written[f] \in Nat /\ written[f] <= Len(hints)
    BY DEF FieldsAreWritten, TypeOK
  <2>2. QED
    BY <1>2, <1>3, <2>1 DEF FieldsAreWritten
<1>17. CompressesLong'
  <2>1. SUFFICES ASSUME NEW u \in Tabs, At(u, "compress")' PROVE TooLong(u)'
    BY DEF CompressesLong
  <2>2. /\ TooLong(u) /\ turn'[u] = turn[u] /\ turn[u] \in Turns
    BY <1>4, <1>5, <1>6, <2>1 DEF At, CompressesLong
  <2>3. /\ turn[u].seen \in Nat /\ turn[u].base \in Nat
    BY <2>2 DEF Turns
  <2>4. QED
    BY <1>2, <2>2, <2>3, StaysTooLong
<1>18. OverlayIsCurrent'
  BY ClassifyOverlays DEF OverlayIsCurrent
<1>19. QED
  BY <1>8, <1>10, <1>11, <1>12, <1>13, <1>14, <1>15, <1>16, <1>17, <1>18

LEMMA SaveProfileKeeps ==
  ASSUME Inv, NEW p \in Saves, SaveProfile(p)
  PROVE  Inv'
<1> USE DEF Inv
<1>1. /\ saves < MaxSaves /\ saves' = saves + 1 /\ profile' = p /\ written' = WrittenBy(p)
      /\ replayed' = [k \in Topics |-> IF k \in Fields THEN p[k] ELSE replayed[k]]
      /\ doubtful' = (doubtful \ {f \in Fields : p[f] # profile[f]}) \cup Unsaid(p)
      /\ UNCHANGED <<messages, hints, memory, summaries, turn>>
  BY DEF SaveProfile
<1>2. /\ saves \in Nat /\ MaxSaves \in Nat /\ saves' \in 0..MaxSaves
      /\ p \in Profiles /\ Len(hints) \in Nat
      /\ written \in [Fields -> Nat]
      /\ Scalars \subseteq Fields /\ Fields \subseteq Topics
  BY <1>1, LenProperties, TopicAssumption, ContextBounds DEF TypeOK
<1>3. /\ written' \in [Fields -> Nat]
      /\ \A f \in Fields : written'[f] = IF p[f] # profile[f] THEN Len(hints) ELSE written[f]
  BY <1>1, <1>2 DEF WrittenBy
<1>4. replayed' \in [Topics -> Values] /\ [f \in Fields |-> replayed'[f]] \in Profiles
  <2> DEFINE g == [k \in Topics |-> IF k \in Fields THEN p[k] ELSE replayed[k]]
  <2>1. \A k \in Topics : replayed[k] \in Fitting(k)
    <3>1. \E f : replayed = [k \in Topics |-> f[k]] /\ \A k \in Topics : f[k] \in Fitting(k)
      BY FittingIs DEF TypeOK
    <3>2. QED
      BY <3>1
  <2>2. \A f \in Fields : p[f] \in Fitting(f)
    BY <1>2 DEF Profiles, Fitting
  <2>3. \A k \in Topics : g[k] \in Fitting(k)
    BY <2>1, <2>2
  <2>4. replayed' = g /\ g = [k \in Topics |-> g[k]]
    BY <1>1
  <2> HIDE DEF g
  <2>5. QED
    BY <2>3, <2>4, FittingIs
<1>5. TypeOK'
  BY <1>1, <1>2, <1>3, <1>4 DEF TypeOK, Unsaid
<1>6. Room' /\ AsksAreOwn' /\ HintsAreHeard'
  BY <1>1 DEF Room, AsksAreOwn, HintsAreHeard, Busy, At
<1>7. ReadsArePast'
  <2>1. SUFFICES ASSUME NEW u \in Tabs PROVE Past(turn[u])'
    BY DEF ReadsArePast
  <2>2. Past(turn[u]) /\ turn[u] \in Turns
    BY DEF ReadsArePast, TypeOK
  <2>3. turn[u].round \in Nat /\ turn[u].round <= saves
    BY <2>2 DEF Past, Turns
  <2>4. QED
    BY <1>1, <1>2, <2>2, <2>3 DEF Past
<1>8. CardsWereActive' /\ FailsOnlyByRetirement' /\ SummariesCover'
  BY <1>1 DEF CardsWereActive, SelectedActive, FailsOnlyByRetirement, SummariesCover, At
<1>9. FieldsAreWritten'
  BY <1>1, <1>2, <1>3 DEF FieldsAreWritten
<1>10. CompressesLong'
  <2>1. SUFFICES ASSUME NEW u \in Tabs, At(u, "compress")' PROVE TooLong(u)'
    BY DEF CompressesLong
  <2>2. TooLong(u) /\ turn[u] \in Turns
    BY <1>1, <2>1 DEF At, CompressesLong, TypeOK
  <2>3. /\ turn[u].seen \in Nat /\ turn[u].base \in Nat
    BY <2>2 DEF Turns
  <2>4. QED
    BY <1>1, <2>2, <2>3, StaysTooLong
<1>11. OverlayIsCurrent'
  <2>1. SUFFICES ASSUME NEW k \in Topics \ doubtful'
                 PROVE  Overlaid(k, profile, written, Len(hints))' = replayed'[k]
    BY DEF OverlayIsCurrent
  <2> DEFINE n == Len(hints)
             says == [i \in 1..n |-> hints[i].says]
             counting == {i \in 1..n : Counts(k, written, i)}
             also == {i \in 1..n : Counts(k, written', i)}
  <2>2. Overlaid(k, profile, written, Len(hints))' = AppliedInTurn(Start(k, p), says, also, n)
    BY <1>1 DEF Overlaid, Start, Counts
  <2>4. replayed'[k] = IF k \in Fields THEN p[k] ELSE replayed[k]
    BY <1>1
  <2>5. CASE k \in Fields /\ p[k] # profile[k]
    <3>1. \A i \in 1..n : i \notin also
      BY <1>2, <1>3, <2>5 DEF Counts
    <3> HIDE DEF n, says, also
    <3>2. AppliedInTurn(Start(k, p), says, also, n) = Start(k, p)
      BY <1>2, <3>1, NothingApplied DEF n
    <3>3. QED
      BY <2>2, <2>4, <2>5, <3>2 DEF Start
  <2>6. CASE ~(k \in Fields /\ p[k] # profile[k])
    <3>1. Start(k, p) = Start(k, profile)
      BY <2>6 DEF Start
    <3>2. counting = also
      BY <1>3, <2>6 DEF Counts
    <3>3. k \in Topics \ doubtful /\ (k \in Fields => replayed[k] = p[k])
      BY <1>1, <2>6 DEF Unsaid
    <3>4. AppliedInTurn(Start(k, profile), says, counting, n) = replayed[k]
      BY <3>3, OverlaidIs DEF OverlayIsCurrent
    <3>5. QED
      BY <2>2, <2>4, <3>1, <3>2, <3>3, <3>4
  <2>7. QED
    BY <2>5, <2>6
<1>12. QED
  BY <1>5, <1>6, <1>7, <1>8, <1>9, <1>10, <1>11

LEMMA ReviewKeeps ==
  ASSUME Inv, NEW m \in Memories, Review(m)
  PROVE  Inv'
<1> USE DEF Inv
<1>1. UNCHANGED <<messages, hints, profile, written, saves, summaries, turn, replayed, doubtful>>
  BY DEF Review, account
<1>2. /\ memory \in [Memories -> {"new", "active", "retired"}]
      /\ memory' \in [Memories -> {"new", "active", "retired"}]
      /\ \A n \in Memories : /\ memory[n] = "retired" => memory'[n] = "retired"
                             /\ memory[n] = "active" => memory'[n] \in {"active", "retired"}
  BY DEF Review, TypeOK
<1>3. TypeOK'
  BY <1>1, <1>2 DEF TypeOK
<1>4. Room' /\ AsksAreOwn' /\ HintsAreHeard'
  BY <1>1 DEF Room, AsksAreOwn, HintsAreHeard, Busy, At
<1>5. ReadsArePast' /\ SummariesCover' /\ FieldsAreWritten'
  BY <1>1 DEF ReadsArePast, Past, SummariesCover, FieldsAreWritten
<1>6. \A t \in Tabs : turn[t].gone \subseteq Memories /\ turn[t].cards \subseteq Memories
  BY DEF TypeOK, Turns
<1>7. CardsWereActive'
  <2>1. SUFFICES ASSUME NEW t \in Tabs PROVE SelectedActive(turn[t])'
    BY DEF CardsWereActive
  <2>2. SelectedActive(turn[t])
    BY DEF CardsWereActive
  <2>3. QED
    BY <1>1, <1>2, <1>6, <2>2 DEF SelectedActive
<1>8. FailsOnlyByRetirement'
  BY <1>1, <1>2, <1>6 DEF FailsOnlyByRetirement, At
<1>9. CompressesLong'
  <2>1. SUFFICES ASSUME NEW u \in Tabs, At(u, "compress")' PROVE TooLong(u)'
    BY DEF CompressesLong
  <2>2. TooLong(u) /\ turn[u] \in Turns
    BY <1>1, <2>1 DEF At, CompressesLong, TypeOK
  <2>3. /\ turn[u].seen \in Nat /\ turn[u].base \in Nat
    BY <2>2 DEF Turns
  <2>4. QED
    BY <1>1, <2>2, <2>3, StaysTooLong
<1>10. OverlayIsCurrent'
  BY <1>1 DEF OverlayIsCurrent, Overlaid, Counts
<1>11. QED
  BY <1>3, <1>4, <1>5, <1>7, <1>8, <1>9, <1>10

(***************************************************************************)
(* The specification.                                                      *)
(***************************************************************************)

LEMMA InvHoldsAtFirst == Init => Inv
<1> SUFFICES ASSUME Init PROVE Inv
  OBVIOUS
<1>1. /\ hints = <<>> /\ summaries = <<>> /\ profile \in Profiles
      /\ written = [f \in Fields |-> 0] /\ saves = 0
      /\ memory = [m \in Memories |-> "new"] /\ turn = [t \in Tabs |-> NoTurn]
      /\ replayed = [k \in Topics |-> IF k \in Fields THEN profile[k] ELSE {}]
      /\ doubtful = {}
      /\ Scalars \subseteq Fields /\ Fields \subseteq Topics
  BY TopicAssumption DEF Init
<1>2. hints \in Seq(Hint) /\ Len(hints) = 0 /\ DOMAIN hints = {}
      /\ summaries \in Seq(Summary) /\ Len(summaries) = 0 /\ DOMAIN summaries = {}
  BY <1>1, EmptySeq
<1>3. messages \in Seq(Message) /\ Len(messages) = Len(Opening)
  <2>1. Opening \in Seq(Texts) /\ Len(Opening) \in Nat /\ DOMAIN Opening = 1..Len(Opening)
        /\ \A i \in 1..Len(Opening) : Opening[i] \in Texts
    BY TopicAssumption, LenProperties, ElementOfSeq
  <2>2. messages \in [1..Len(Opening) -> Message]
    BY <2>1 DEF Init, Message
  <2>3. QED
    BY <2>1, <2>2
<1>4. Len(messages) \in Nat /\ Len(messages) <= MaxMessages /\ MaxSaves \in Nat
  BY <1>3, LenProperties, ContextBounds
<1>5. \A t \in Tabs : turn[t] = NoTurn /\ At(t, "idle")
  BY <1>1 DEF At, NoTurn
<1>6. replayed \in [Topics -> Values] /\ [f \in Fields |-> replayed[f]] \in Profiles
  <2>1. [f \in Fields |-> replayed[f]] = profile
    BY <1>1 DEF Profiles
  <2>2. replayed \in [Topics -> Values]
    BY <1>1 DEF Profiles, Values
  <2>3. QED
    BY <1>1, <2>1, <2>2
<1>7. TypeOK
  BY <1>1, <1>2, <1>3, <1>4, <1>6, NoTurnFits DEF TypeOK
<1>8. Busy = {}
  BY <1>5 DEF Busy
<1>9. Room
  BY <1>4, <1>8, FS_EmptySet, ContextBounds DEF Room
<1>10. AsksAreOwn /\ HintsAreHeard
  BY <1>2, <1>8 DEF AsksAreOwn, HintsAreHeard
<1>11. ReadsArePast /\ CardsWereActive
  BY <1>1, <1>2, <1>4, <1>5 DEF ReadsArePast, Past, CardsWereActive, SelectedActive, NoTurn
<1>12. FailsOnlyByRetirement /\ CompressesLong
  BY <1>5 DEF FailsOnlyByRetirement, CompressesLong, At, NoTurn
<1>13. SummariesCover /\ FieldsAreWritten
  BY <1>1, <1>2 DEF SummariesCover, FieldsAreWritten
<1>14. OverlayIsCurrent
  <2>1. ASSUME NEW k \in Topics PROVE Overlaid(k, profile, written, Len(hints)) = replayed[k]
    <3>1. Overlaid(k, profile, written, 0) = Start(k, profile)
      BY OverlaidIs, AppliedStarts
    <3>2. QED
      BY <1>1, <1>2, <3>1 DEF Start
  <2>2. QED
    BY <2>1 DEF OverlayIsCurrent
<1>15. QED
  BY <1>7, <1>9, <1>10, <1>11, <1>12, <1>13, <1>14 DEF Inv

LEMMA StutterKeeps ==
  ASSUME Inv, UNCHANGED vars
  PROVE  Inv'
<1>1. UNCHANGED <<messages, hints, profile, written, saves, memory, summaries, turn, replayed, doubtful>>
  BY DEF vars, store, account
<1>2. TypeOK' /\ Room' /\ AsksAreOwn' /\ HintsAreHeard'
  BY <1>1 DEF Inv, TypeOK, Room, AsksAreOwn, HintsAreHeard, Busy, At
<1>3. ReadsArePast' /\ CardsWereActive' /\ FailsOnlyByRetirement'
  BY <1>1 DEF Inv, ReadsArePast, Past, CardsWereActive, SelectedActive, FailsOnlyByRetirement, At
<1>4. SummariesCover' /\ FieldsAreWritten'
  BY <1>1 DEF Inv, SummariesCover, FieldsAreWritten
<1>5. CompressesLong'
  <2>1. SUFFICES ASSUME NEW u \in Tabs, At(u, "compress")' PROVE TooLong(u)'
    BY DEF CompressesLong
  <2>2. TooLong(u) /\ turn[u] \in Turns
    BY <1>1, <2>1 DEF Inv, At, CompressesLong, TypeOK
  <2>3. /\ turn[u].seen \in Nat /\ turn[u].base \in Nat
    BY <2>2 DEF Turns
  <2>4. QED
    BY <1>1, <2>2, <2>3, StaysTooLong
<1>6. OverlayIsCurrent'
  BY <1>1 DEF Inv, OverlayIsCurrent, Overlaid, Counts
<1>7. QED
  BY <1>2, <1>3, <1>4, <1>5, <1>6 DEF Inv

LEMMA InvIsKept == Inv /\ [Next]_vars => Inv'
<1> SUFFICES ASSUME Inv, [Next]_vars PROVE Inv'
  OBVIOUS
<1>1. ASSUME NEW t \in Tabs, Step(t) PROVE Inv'
  <2>1. CASE Classify(t)
    BY <2>1, ClassifyKeeps
  <2>2. CASE Clarify(t) \/ Fit(t) \/ Unfit(t)
    BY <2>2, FitsKeep
  <2>3. CASE ReadConversation(t)
    BY <2>3, ReadConversationKeeps
  <2>4. CASE ReadSummary(t)
    BY <2>4, ReadSummaryKeeps
  <2>5. CASE ReadProfile(t)
    BY <2>5, ReadProfileKeeps
  <2>6. CASE ReadRevisions(t)
    BY <2>6, ReadRevisionsKeeps
  <2>7. CASE ReadHints(t)
    BY <2>7, ReadHintsKeeps
  <2>8. CASE ReadCatalog(t)
    BY <2>8, ReadCatalogKeeps
  <2>9. CASE ReadDetails(t)
    BY <2>9, ReadDetailsKeeps
  <2>10. CASE ReadSources(t)
    BY <2>10, ReadSourcesKeeps
  <2>11. CASE Compress(t)
    BY <2>11, CompressKeeps
  <2>12. CASE Answer(t)
    BY <2>12, AnswerKeeps
  <2>13. CASE GiveUp(t)
    BY <2>13, GiveUpKeeps
  <2>15. CASE CallTools(t)
    BY <2>15, CallToolsKeeps
  <2>14. QED
    BY <1>1, <2>15, <2>1, <2>2, <2>3, <2>4, <2>5, <2>6, <2>7, <2>8, <2>9, <2>10, <2>11, <2>12, <2>13
       DEF Step
<1>2. ASSUME NEW t \in Tabs, NEW text \in Texts, Ask(t, text) PROVE Inv'
  BY <1>2, AskKeeps
<1>3. ASSUME NEW p \in Saves, SaveProfile(p) PROVE Inv'
  BY <1>3, SaveProfileKeeps
<1>4. ASSUME NEW m \in Memories, Review(m) PROVE Inv'
  BY <1>4, ReviewKeeps
<1>5. CASE UNCHANGED vars
  BY <1>5, StutterKeeps
<1>6. QED
  BY <1>1, <1>2, <1>3, <1>4, <1>5 DEF Next

LEMMA InvIsInvariant == Spec => []Inv
<1>1. Init => Inv
  BY InvHoldsAtFirst
<1>2. Inv /\ [Next]_vars => Inv'
  BY InvIsKept
<1>3. QED
  BY <1>1, <1>2, PTL DEF Spec

\* Every variable has its type; in particular the conversation stays within its bound although
\* a turn reserves the place of its answer, and a field with one value never gets a second one
\* from the hints (repository.py, get_effective_conversation_context).
THEOREM TypeCorrect == Spec => []TypeOK
<1>1. Inv => TypeOK
  BY DEF Inv
<1>2. QED
  BY <1>1, InvIsInvariant, PTL

\* For any number of tabs that ask, answer and summarise in the same conversation: what a
\* history leaves out was part of what some summary it stands on was made from
\* (context_manager.py, build_messages).
THEOREM NothingIsSkipped == Spec => []NothingSkipped
<1>1. Inv => NothingSkipped
  <2>1. SUFFICES ASSUME Inv, NEW t \in Tabs, NEW i \in Earlier(t) \ History(t)
                 PROVE  \E n \in 1..turn[t].base : i \in summaries[n].batch
    BY DEF NothingSkipped
  <2>2. /\ turn[t].base \in Nat /\ turn[t].seen \in Nat /\ turn[t].base <= Len(summaries)
        /\ summaries \in Seq(Summary)
    BY <2>1 DEF Inv, TypeOK, Turns, ReadsArePast, Past
  <2>3. i \in Nat /\ i >= 1
    BY <2>2 DEF Earlier
  <2>4. turn[t].base # 0 /\ ~(i > summaries[turn[t].base].through)
    BY DEF History
  <2>5. turn[t].base \in 1..Len(summaries) /\ DOMAIN summaries = 1..Len(summaries)
    BY <2>2, <2>4, LenProperties
  <2>6. summaries[turn[t].base].through \in 1..MaxMessages
    <3>1. summaries[turn[t].base] \in Summary
      BY <2>2, <2>5, ElementOfSeq
    <3>2. QED
      BY <3>1 DEF Summary
  <2>7. i \in 1..summaries[turn[t].base].through
    BY <2>3, <2>4, <2>6
  <2>8. QED
    BY <2>1, <2>5, <2>7 DEF Inv, SummariesCover
<1>2. QED
  BY <1>1, InvIsInvariant, PTL

\* A turn fails for its memories only when one it selected was retired while it was running:
\* whatever order the reviews of other tabs come in (memory_retrieval.py, build_context and
\* get_memory_details).
THEOREM FailuresAreRetirements == Spec => []FailsOnlyByRetirement
<1>1. Inv => FailsOnlyByRetirement
  BY DEF Inv
<1>2. QED
  BY <1>1, InvIsInvariant, PTL

\* For any hints and saves in any order: the overlay worked out anew when a turn reads the
\* hints is what applying each hint and each save as it came has made of the topic
\* (repository.py, get_effective_conversation_context).
THEOREM OverlayReplays == Spec => OverlayIsReplay
<1> DEFINE Replays(t) ==
      At(t, "hints") /\ turn'[t].pc = "catalog" /\ turn[t].round = saves =>
        \A k \in Topics \ doubtful :
          Overlaid(k, turn[t].profile, turn[t].written, Len(hints)) = replayed[k]
<1>1. ASSUME Inv PROVE \A t \in Tabs : Replays(t)
  <2>1. SUFFICES ASSUME NEW t \in Tabs, At(t, "hints"), turn[t].round = saves,
                            NEW k \in Topics \ doubtful
                 PROVE  Overlaid(k, turn[t].profile, turn[t].written, Len(hints)) = replayed[k]
    OBVIOUS
  <2>2. turn[t].profile = profile /\ turn[t].written = written
    BY <1>1, <2>1 DEF Inv, ReadsArePast, Past, At
  <2>3. QED
    BY <1>1, <2>2 DEF Inv, OverlayIsCurrent
<1>2. Inv => [\A t \in Tabs : Replays(t)]_vars
  BY <1>1
<1>3. QED
  BY <1>2, InvIsInvariant, PTL DEF OverlayIsReplay
=============================================================================
