------------------------ MODULE SearchSessionProofs ------------------------
(***************************************************************************)
(* Theorems about SearchSession, for every catalog, budget and page size,  *)
(* and any number of searches and failures.                                *)
(***************************************************************************)
EXTENDS SearchSession, FiniteSetTheorems, FunctionTheorems, SequenceTheorems,
        WellFoundedInduction, TLAPS

(***************************************************************************)
(* The inductive invariant.                                                *)
(***************************************************************************)

\* What is saved is fit to be shown.
SavedFit == FitRecords(session.records)

\* A search from a cursor found no records; what is read belongs to a source that was asked.
Shape ==
  /\ ~At("idle") /\ search.offset # 0 => session.records = <<>>
  /\ At("record") \/ At("keep") => search.tasks # <<>>
  /\ At("plan") => search.calls = Len(search.tasks)

\* A source that is planned is not on record, but for the closed entries of the plan.
PlannedIsNew ==
  At("plan") =>
    /\ \A s \in ToSet(search.tasks) : s \notin session.exhausted /\ (ForJobs => s \notin Closed)
    /\ \A s \in ToSet(search.todo) : s \in session.exhausted => ForJobs /\ s \in Closed

\* A plan and what it has still to look at name a source no more often than the request does.
PlannedAsNamed ==
  At("plan") => \A s \in Sources : Times(search.tasks, s) + Times(search.todo, s) <= Named(s)

\* A source that is not on record was asked for each search that has raised, and once more if
\* its answer is still to be read.
AskedUnrecorded ==
  /\ \A s \in Sources \ session.exhausted :
       asked[s] <= failures * Named(s) +
         (IF search.pc \in {"read", "record", "keep"} /\ s \in ToSet(search.tasks) THEN Named(s) ELSE 0)
  /\ At("keep") => Head(search.tasks) \in session.exhausted

\* A walk has shown the saved records up to where its next page starts.
WalkIsWindow ==
  page.whole =>
    /\ page.next # 0 => page.next < Len(session.records)
    /\ page.shown = Listed(SubSeq(session.records, 1,
                             IF page.next = 0 THEN Len(session.records) ELSE page.next))

\* A search has recorded a new source, or will, unless nothing was left to ask or to pay with.
Everything == IF ForJobs THEN ToSet(Catalog) ELSE ToSet(Registers)
Progress ==
  ~At("idle") =>
    /\ search.known \subseteq session.exhausted
    /\ \A s \in ToSet(search.tasks) : s \notin search.known
    /\ At("plan") => \A s \in ToSet(search.todo) : s \notin search.known
    /\ \/ session.exhausted # search.known
       \/ search.tasks # <<>>
       \/ At("plan") /\ search.todo # <<>>
       \/ Everything \subseteq search.known
       \/ session.remaining = 0

\* Nothing is left to read when the search ranks what it found.
RanksWhenRead == At("rank") => search.tasks = <<>>

Inv ==
  /\ TypeOK /\ CallsAreReserved /\ SavedFit /\ Shape /\ PlannedIsNew /\ PlannedAsNamed
  /\ AskedUnrecorded /\ WalkIsWindow /\ Progress /\ RanksWhenRead

(***************************************************************************)
(* Sequences.                                                              *)
(***************************************************************************)

LEMMA MinOfTwo ==
  ASSUME NEW a \in Int, NEW b \in Int
  PROVE  Min({a, b}) = IF a <= b THEN a ELSE b
<1>1. CASE a <= b
  BY <1>1 DEF Min
<1>2. CASE ~(a <= b)
  BY <1>2 DEF Min
<1>3. QED
  BY <1>1, <1>2

LEMMA SliceIs ==
  ASSUME NEW T, NEW s \in Seq(T), NEW from \in Nat \ {0}, NEW to \in Nat
  PROVE  /\ Slice(s, from, to) \in Seq(T)
         /\ Len(s) \in Nat
         /\ Len(Slice(s, from, to)) =
              IF from <= to /\ from <= Len(s)
              THEN (IF to <= Len(s) THEN to ELSE Len(s)) - from + 1 ELSE 0
         /\ \A i \in 1..Len(Slice(s, from, to)) : Slice(s, from, to)[i] = s[from + i - 1]
<1> DEFINE end == IF to <= Len(s) THEN to ELSE Len(s)
<1>1. Len(s) \in Nat
  BY LenProperties
<1>2. Min({to, Len(s)}) = end
  BY <1>1, MinOfTwo
<1>3. Slice(s, from, to) = SubSeq(s, from, end)
  BY <1>2 DEF Slice
<1>4. end \in Int /\ from \in Int /\ end <= Len(s)
  BY <1>1
<1> HIDE DEF end
<1>5. \A i \in from..end : s[i] \in T
  <2>1. \A i \in from..end : i \in 1..Len(s)
    BY <1>1, <1>4
  <2>2. QED
    BY <2>1, ElementOfSeq
<1>6. /\ SubSeq(s, from, end) \in Seq(T)
      /\ Len(SubSeq(s, from, end)) = IF from <= end THEN end - from + 1 ELSE 0
      /\ \A i \in 1..(end - from + 1) : SubSeq(s, from, end)[i] = s[from + i - 1]
  BY <1>4, <1>5, SubSeqProperties
<1>7. \A i \in 1..Len(Slice(s, from, to)) : i \in 1..(end - from + 1)
  BY <1>3, <1>4, <1>6
<1>8. QED
  BY <1>1, <1>3, <1>6, <1>7 DEF end

LEMMA CardinalityUpto ==
  ASSUME NEW n \in Nat
  PROVE  IsFiniteSet(1..n) /\ Cardinality(1..n) = n
<1>1. 1 \in Int /\ n \in Int /\ (1 > n => n = 0) /\ (n - 1) + 1 = n
  OBVIOUS
<1>2. IsFiniteSet(1..n) /\ Cardinality(1..n) = IF 1 > n THEN 0 ELSE (n - 1) + 1
  BY <1>1, FS_Interval
<1>3. QED
  BY <1>1, <1>2

\* The ranks of places go from one to how many there are, in their order.
LEMMA RanksAreInOrder ==
  ASSUME NEW n \in Nat, NEW places \in SUBSET (1..n)
  PROVE  /\ IsFiniteSet(places) /\ Cardinality(places) \in 0..n
         /\ \A i \in places : RankIn(places, i) \in 1..Cardinality(places)
         /\ \A i, j \in places : i < j => RankIn(places, i) < RankIn(places, j)
         /\ \A k \in 1..Cardinality(places) : \E i \in places : RankIn(places, i) = k
<1> DEFINE upto(i) == {j \in places : j <= i}
           rank == [i \in places |-> Cardinality(upto(i))]
<1>1. IsFiniteSet(places) /\ Cardinality(places) \in Nat /\ Cardinality(places) <= n
  <2>1. IsFiniteSet(1..n) /\ Cardinality(1..n) = n
    BY CardinalityUpto
  <2>2. IsFiniteSet(places) /\ Cardinality(places) <= n
    BY <2>1, FS_Subset
  <2>3. QED
    BY <2>2, FS_CardinalityType
<1>2. \A S \in SUBSET places : IsFiniteSet(S) /\ Cardinality(S) \in Nat /\ Cardinality(S) <= Cardinality(places)
  <2>1. \A S \in SUBSET places : IsFiniteSet(S) /\ Cardinality(S) <= Cardinality(places)
    BY <1>1, FS_Subset
  <2>2. QED
    BY <2>1, FS_CardinalityType
<1>3. ASSUME NEW i \in places PROVE rank[i] \in 1..Cardinality(places)
  <2>1. upto(i) \subseteq places /\ i \in upto(i)
    OBVIOUS
  <2>2. Cardinality(upto(i)) # 0
    BY <1>2, <2>1, FS_EmptySet
  <2>3. Cardinality(upto(i)) \in Nat /\ Cardinality(upto(i)) <= Cardinality(places)
    BY <1>2, <2>1
  <2>4. rank[i] = Cardinality(upto(i))
    OBVIOUS
  <2> HIDE DEF upto, rank
  <2>5. QED
    BY <1>1, <2>2, <2>3, <2>4
<1>4. ASSUME NEW i \in places, NEW j \in places, i < j PROVE rank[i] < rank[j]
  <2>1. upto(i) \subseteq upto(j) /\ j \in upto(j) /\ j \notin upto(i)
    <3>1. \A k \in places : k <= i => k <= j
      BY <1>4
    <3>2. j <= j /\ ~(j <= i)
      BY <1>4
    <3>3. QED
      BY <3>1, <3>2
  <2>2. upto(i) \subseteq places /\ upto(j) \subseteq places
    OBVIOUS
  <2>3. /\ rank[i] = Cardinality(upto(i)) /\ rank[j] = Cardinality(upto(j))
    OBVIOUS
  <2> HIDE DEF upto, rank
  <2>4. Cardinality(upto(i)) <= Cardinality(upto(j)) /\ Cardinality(upto(i)) # Cardinality(upto(j))
    <3>1. IsFiniteSet(upto(j)) /\ upto(i) \in SUBSET upto(j)
      BY <1>2, <2>1, <2>2
    <3>2. QED
      BY <2>1, <3>1, FS_Subset
  <2>5. QED
    BY <1>2, <2>2, <2>3, <2>4
<1>5. rank \in Injection(places, 1..Cardinality(places))
  <2>1. rank \in [places -> 1..Cardinality(places)]
    BY <1>3
  <2>2. \A i, j \in places : rank[i] = rank[j] => i = j
    <3>1. SUFFICES ASSUME NEW i \in places, NEW j \in places, i # j PROVE rank[i] # rank[j]
      OBVIOUS
    <3>2. rank[i] \in Nat /\ rank[j] \in Nat
      BY <1>3
    <3>3. i < j \/ j < i
      BY <3>1
    <3> HIDE DEF rank
    <3>4. QED
      BY <1>4, <3>2, <3>3
  <2> HIDE DEF rank
  <2>3. QED
    BY <2>1, <2>2 DEF Injection, IsInjective
<1>6. rank \in Surjection(places, 1..Cardinality(places))
  <2>1. IsFiniteSet(1..Cardinality(places)) /\ Cardinality(1..Cardinality(places)) = Cardinality(places)
    BY <1>1, CardinalityUpto
  <2> HIDE DEF rank
  <2>2. QED
    BY <1>5, <2>1, FS_Injection
<1>7. \A i \in places : RankIn(places, i) = rank[i]
  BY DEF RankIn
<1> HIDE DEF rank
<1>8. \A k \in 1..Cardinality(places) : \E i \in places : rank[i] = k
  BY <1>6 DEF Surjection
<1>9. QED
  BY <1>1, <1>3, <1>4, <1>7, <1>8

\* What is picked is what stands at the places, in their order.
LEMMA PickedIs ==
  ASSUME NEW T, NEW s \in Seq(T), NEW places \in SUBSET (1..Len(s))
  PROVE  /\ Picked(s, places) \in Seq(T)
         /\ Len(Picked(s, places)) \in 0..Len(s)
         /\ \E at \in [1..Len(Picked(s, places)) -> places] :
              /\ \A k \in 1..Len(Picked(s, places)) : Picked(s, places)[k] = s[at[k]]
              /\ \A k, l \in 1..Len(Picked(s, places)) : k < l => at[k] < at[l]
              /\ \A i \in places : \E k \in 1..Len(Picked(s, places)) : at[k] = i
<1> DEFINE m == Cardinality(places)
           at == [k \in 1..m |-> CHOOSE i \in places : RankIn(places, i) = k]
<1>1. Len(s) \in Nat /\ \A i \in 1..Len(s) : s[i] \in T
  BY LenProperties, ElementOfSeq
<1>4. Picked(s, places) = [k \in 1..m |-> s[at[k]]]
  BY DEF Picked
<1>5. /\ m \in 0..Len(s)
      /\ \A i, j \in places : i < j => RankIn(places, i) < RankIn(places, j)
      /\ \A i \in places : RankIn(places, i) \in 1..m
      /\ \A k \in 1..m : \E i \in places : RankIn(places, i) = k
  BY <1>1, RanksAreInOrder
<1> HIDE DEF m
<1>6. \A k \in 1..m : at[k] \in places /\ RankIn(places, at[k]) = k
  <2>1. SUFFICES ASSUME NEW k \in 1..m
                 PROVE  at[k] \in places /\ RankIn(places, at[k]) = k
    OBVIOUS
  <2>2. \E i \in places : RankIn(places, i) = k
    BY <1>5
  <2>3. QED
    BY <2>2
<1>7. \A i, j \in places : RankIn(places, i) = RankIn(places, j) => i = j
  <2>1. SUFFICES ASSUME NEW i \in places, NEW j \in places, i # j
                 PROVE  RankIn(places, i) # RankIn(places, j)
    OBVIOUS
  <2>2. i \in Nat /\ j \in Nat /\ RankIn(places, i) \in Nat /\ RankIn(places, j) \in Nat
    BY <1>1, <1>5
  <2>3. i < j \/ j < i
    BY <2>1, <2>2
  <2>4. QED
    BY <1>5, <2>2, <2>3
<1>8. \A i \in places : \E k \in 1..m : at[k] = i
  <2>1. SUFFICES ASSUME NEW i \in places PROVE \E k \in 1..m : at[k] = i
    OBVIOUS
  <2>2. RankIn(places, i) \in 1..m
    BY <1>5
  <2>3. at[RankIn(places, i)] = i
    BY <1>6, <1>7, <2>2
  <2>4. QED
    BY <2>2, <2>3
<1>9. at \in [1..m -> places]
  <2>1. at = [k \in 1..m |-> at[k]]
    OBVIOUS
  <2> HIDE DEF at
  <2>2. QED
    BY <1>6, <2>1
<1> HIDE DEF at
<1>10. \A k, l \in 1..m : k < l => at[k] < at[l]
  <2>1. SUFFICES ASSUME NEW k \in 1..m, NEW l \in 1..m, k < l PROVE at[k] < at[l]
    OBVIOUS
  <2>2. at[k] \in Nat /\ at[l] \in Nat /\ at[k] \in places /\ at[l] \in places
    <3>1. at[k] \in places /\ at[l] \in places
      BY <1>6
    <3>2. \A i \in places : i \in Nat
      BY <1>1
    <3>3. QED
      BY <3>1, <3>2
  <2>3. at[k] # at[l] /\ ~(at[l] < at[k])
    <3>1. RankIn(places, at[k]) = k /\ RankIn(places, at[l]) = l /\ k # l /\ ~(l < k)
      BY <1>5, <1>6, <2>1
    <3>2. QED
      BY <1>5, <2>2, <3>1
  <2>4. QED
    BY <2>2, <2>3
<1>11. Picked(s, places) \in [1..m -> T]
  BY <1>1, <1>4, <1>9
<1>12. Picked(s, places) \in Seq(T) /\ Len(Picked(s, places)) = m
  BY <1>5, <1>11
<1>13. \A k \in 1..m : Picked(s, places)[k] = s[at[k]]
  BY <1>4
<1>14. QED
  BY <1>5, <1>8, <1>9, <1>10, <1>12, <1>13

\* A selection is what its name says: the places of the elements that belong to the set, in
\* their order.
LEMMA SelectedIs ==
  ASSUME NEW T, NEW s \in Seq(T), NEW S
  PROVE  /\ Selected(s, S) \in Seq(T)
         /\ Len(Selected(s, S)) \in 0..Len(s)
         /\ \E at \in [1..Len(Selected(s, S)) -> 1..Len(s)] :
              /\ \A k \in 1..Len(Selected(s, S)) :
                   Selected(s, S)[k] = s[at[k]] /\ s[at[k]] \in S
              /\ \A k, l \in 1..Len(Selected(s, S)) : k < l => at[k] < at[l]
              /\ \A i \in 1..Len(s) : s[i] \in S => \E k \in 1..Len(Selected(s, S)) : at[k] = i
<1> DEFINE places == {i \in DOMAIN s : s[i] \in S}
           t == Selected(s, S)
<1>1. DOMAIN s = 1..Len(s)
  BY LenProperties
<1>2. places \in SUBSET (1..Len(s)) /\ \A i \in 1..Len(s) : i \in places <=> s[i] \in S
  BY <1>1
<1>3. t = Picked(s, places)
  BY DEF Selected
<1> HIDE DEF places, t
<1>4. /\ t \in Seq(T) /\ Len(t) \in 0..Len(s)
      /\ \E at \in [1..Len(t) -> places] :
           /\ \A k \in 1..Len(t) : t[k] = s[at[k]]
           /\ \A k, l \in 1..Len(t) : k < l => at[k] < at[l]
           /\ \A i \in places : \E k \in 1..Len(t) : at[k] = i
  BY <1>2, <1>3, PickedIs
<1>5. PICK at \in [1..Len(t) -> places] :
           /\ \A k \in 1..Len(t) : t[k] = s[at[k]]
           /\ \A k, l \in 1..Len(t) : k < l => at[k] < at[l]
           /\ \A i \in places : \E k \in 1..Len(t) : at[k] = i
  BY <1>4
<1>6. at \in [1..Len(t) -> 1..Len(s)] /\ \A k \in 1..Len(t) : s[at[k]] \in S
  BY <1>2, <1>5
<1>7. \A i \in 1..Len(s) : s[i] \in S => \E k \in 1..Len(t) : at[k] = i
  BY <1>2, <1>5
<1>8. QED
  BY <1>4, <1>5, <1>6, <1>7 DEF t

\* What is left when each element is kept once are the same elements.
LEMMA DistinctIs ==
  ASSUME NEW T, NEW s \in Seq(T)
  PROVE  Distinct(s) \in Seq(T) /\ ToSet(Distinct(s)) = ToSet(s)
<1> DEFINE places == {i \in DOMAIN s : \A j \in DOMAIN s : s[j] = s[i] => i <= j}
           t == Distinct(s)
<1>1. DOMAIN s = 1..Len(s) /\ Len(s) \in Nat
  BY LenProperties
<1>2. places \in SUBSET (1..Len(s))
  BY <1>1
<1>3. t = Picked(s, places)
  BY DEF Distinct
<1>4. \A i \in 1..Len(s) : \E k \in places : s[k] = s[i]
  <2>1. SUFFICES ASSUME NEW i \in 1..Len(s) PROVE \E k \in places : s[k] = s[i]
    OBVIOUS
  <2> DEFINE same == {j \in 1..Len(s) : s[j] = s[i]}
  <2>2. i \in same /\ same \in SUBSET (1..Len(s))
    OBVIOUS
  <2>3. \A j \in 1..Len(s) : j \in same <=> s[j] = s[i]
    OBVIOUS
  <2> HIDE DEF same
  <2>4. /\ Cardinality(same) \in Nat
        /\ \A j \in same : RankIn(same, j) \in 1..Cardinality(same)
        /\ \A j, k \in same : j < k => RankIn(same, j) < RankIn(same, k)
        /\ \A r \in 1..Cardinality(same) : \E j \in same : RankIn(same, j) = r
    <3> DEFINE n == Len(s)
    <3>1. n \in Nat /\ same \in SUBSET (1..n)
      BY <1>1, <2>2
    <3> HIDE DEF n
    <3>2. Cardinality(same) \in 0..n
      BY <3>1, RanksAreInOrder
    <3>3. QED
      BY <3>1, <3>2, RanksAreInOrder
  <2>5. PICK k \in same : RankIn(same, k) = 1
    <3>1. RankIn(same, i) \in 1..Cardinality(same)
      BY <2>2, <2>4
    <3>2. 1 \in 1..Cardinality(same)
      BY <2>4, <3>1
    <3>3. QED
      BY <2>4, <3>2
  <2>6. \A j \in same : k <= j
    <3>1. SUFFICES ASSUME NEW j \in same, j < k PROVE FALSE
      BY <1>1, <2>2
    <3>2. QED
      BY <2>4, <2>5, <3>1
  <2>7. QED
    BY <1>1, <2>2, <2>3, <2>6
<1> HIDE DEF places, t
<1>5. /\ t \in Seq(T) /\ Len(t) \in 0..Len(s)
      /\ \E at \in [1..Len(t) -> places] :
           /\ \A k \in 1..Len(t) : t[k] = s[at[k]]
           /\ \A k, l \in 1..Len(t) : k < l => at[k] < at[l]
           /\ \A i \in places : \E k \in 1..Len(t) : at[k] = i
  BY <1>2, <1>3, PickedIs
<1>6. PICK at \in [1..Len(t) -> places] :
           /\ \A k \in 1..Len(t) : t[k] = s[at[k]]
           /\ \A i \in places : \E k \in 1..Len(t) : at[k] = i
  BY <1>5
<1>7. DOMAIN t = 1..Len(t)
  BY <1>5, LenProperties
<1>8. \A k \in DOMAIN t : \E i \in DOMAIN s : s[i] = t[k]
  BY <1>1, <1>2, <1>6, <1>7
<1>9. \A i \in DOMAIN s : \E k \in DOMAIN t : t[k] = s[i]
  BY <1>1, <1>4, <1>6, <1>7
<1>10. QED
  BY <1>5, <1>8, <1>9 DEF ToSet, t

LEMMA TailIs ==
  ASSUME NEW T, NEW s \in Seq(T), s # <<>>
  PROVE  /\ Head(s) \in T /\ Tail(s) \in Seq(T)
         /\ Len(s) \in Nat \ {0} /\ Len(Tail(s)) = Len(s) - 1
         /\ ToSet(s) = {Head(s)} \cup ToSet(Tail(s))
<1>1. /\ Head(s) \in T /\ Tail(s) \in Seq(T) /\ Len(Tail(s)) = Len(s) - 1
      /\ \A i \in 1..Len(Tail(s)) : Tail(s)[i] = s[i + 1]
  BY HeadTailProperties
<1>2. Len(s) \in Nat \ {0} /\ DOMAIN s = 1..Len(s) /\ DOMAIN Tail(s) = 1..(Len(s) - 1)
  BY <1>1, EmptySeq, LenProperties
<1>3. Head(s) = s[1]
  BY <1>2
<1>4. \A i \in DOMAIN s : s[i] \in {Head(s)} \cup ToSet(Tail(s))
  <2>1. SUFFICES ASSUME NEW i \in DOMAIN s, i # 1 PROVE s[i] \in ToSet(Tail(s))
    BY <1>3
  <2>2. i - 1 \in 1..(Len(s) - 1) /\ (i - 1) + 1 = i
    BY <1>2, <2>1
  <2>3. s[i] = Tail(s)[i - 1]
    BY <1>1, <2>2
  <2>4. QED
    BY <1>2, <2>2, <2>3 DEF ToSet
<1>5. \A i \in DOMAIN Tail(s) : Tail(s)[i] \in ToSet(s)
  <2>1. \A i \in DOMAIN Tail(s) : i + 1 \in DOMAIN s
    BY <1>2
  <2>2. QED
    BY <1>1, <1>2, <2>1 DEF ToSet
<1>6. Head(s) \in ToSet(s)
  BY <1>2, <1>3 DEF ToSet
<1>7. QED
  BY <1>1, <1>2, <1>4, <1>5, <1>6 DEF ToSet

LEMMA AppendIs ==
  ASSUME NEW T, NEW s \in Seq(T), NEW x \in T
  PROVE  /\ Append(s, x) \in Seq(T) /\ Append(s, x) # <<>>
         /\ Len(s) \in Nat /\ Len(Append(s, x)) = Len(s) + 1
         /\ ToSet(Append(s, x)) = ToSet(s) \cup {x}
<1>1. /\ Append(s, x) \in Seq(T) /\ Len(Append(s, x)) = Len(s) + 1 /\ Len(s) \in Nat
      /\ \A i \in 1..Len(s) : Append(s, x)[i] = s[i]
      /\ Append(s, x)[Len(s) + 1] = x
  BY AppendProperties, LenProperties
<1>2. Append(s, x) # <<>>
  BY <1>1, EmptySeq
<1>3. DOMAIN s = 1..Len(s) /\ DOMAIN Append(s, x) = 1..(Len(s) + 1)
  BY <1>1, LenProperties
<1>4. \A i \in 1..(Len(s) + 1) : i \in 1..Len(s) \/ i = Len(s) + 1
  BY <1>1
<1>5. \A i \in 1..Len(s) : i \in 1..(Len(s) + 1)
  BY <1>1
<1>6. Len(s) + 1 \in 1..(Len(s) + 1)
  BY <1>1
<1>7. QED
  BY <1>1, <1>2, <1>3, <1>4, <1>5, <1>6 DEF ToSet

LEMMA EmptyIs ==
  /\ ToSet(<<>>) = {} /\ Len(<<>>) = 0 /\ DOMAIN <<>> = {}
  /\ \A T : <<>> \in Seq(T)
<1>1. \A T : <<>> \in Seq(T) /\ Len(<<>>) = 0
  BY EmptySeq
<1>2. DOMAIN <<>> = {}
  OBVIOUS
<1>3. QED
  BY <1>1, <1>2 DEF ToSet

\* The elements of a sequence that stand at places of another, each at one of its own, occur
\* there as often, and more often if a place is left.
LEMMA TimesWithin ==
  ASSUME NEW T, NEW s \in Seq(T), NEW t \in Seq(T), NEW e,
         NEW at \in [1..Len(s) -> 1..Len(t)],
         \A k, l \in 1..Len(s) : k # l => at[k] # at[l],
         \A k \in 1..Len(s) : s[k] = t[at[k]]
  PROVE  /\ Times(s, e) \in Nat /\ Times(t, e) \in Nat /\ Times(s, e) <= Times(t, e)
         /\ \A i \in 1..Len(t) : t[i] = e /\ (\A k \in 1..Len(s) : at[k] # i)
              => Times(s, e) + 1 <= Times(t, e)
<1> DEFINE P == {k \in DOMAIN s : s[k] = e}
           Q == {i \in DOMAIN t : t[i] = e}
           f == [k \in P |-> at[k]]
<1>1. DOMAIN s = 1..Len(s) /\ DOMAIN t = 1..Len(t) /\ Len(s) \in Nat /\ Len(t) \in Nat
  BY LenProperties
<1>2. Times(s, e) = Cardinality(P) /\ Times(t, e) = Cardinality(Q)
  BY DEF Times
<1>3. IsFiniteSet(Q)
  BY <1>1, CardinalityUpto, FS_Subset
<1>4. f \in [P -> Q] /\ \A k \in P : f[k] = at[k]
  BY <1>1
<1>5. f \in Injection(P, Q)
  <2>1. \A k, l \in P : f[k] = f[l] => k = l
    BY <1>1, <1>4
  <2> HIDE DEF f
  <2>2. QED
    BY <1>4, <2>1 DEF Injection, IsInjective
<1>6. /\ IsFiniteSet(P) /\ Cardinality(P) <= Cardinality(Q)
      /\ Cardinality(P) = Cardinality(Q) <=> f \in Surjection(P, Q)
  BY <1>3, <1>5, FS_Injection
<1>7. Cardinality(P) \in Nat /\ Cardinality(Q) \in Nat
  BY <1>3, <1>6, FS_CardinalityType
<1>8. ASSUME NEW i \in 1..Len(t), t[i] = e, \A k \in 1..Len(s) : at[k] # i
      PROVE  Cardinality(P) # Cardinality(Q)
  <2>1. i \in Q /\ \A k \in P : f[k] # i
    BY <1>1, <1>4, <1>8
  <2> HIDE DEF f, P, Q
  <2>2. f \notin Surjection(P, Q)
    BY <2>1 DEF Surjection
  <2>3. QED
    BY <1>6, <2>2
<1> HIDE DEF P, Q, f
<1>9. QED
  BY <1>2, <1>6, <1>7, <1>8

LEMMA TimesOfEmpty == \A e : Times(<<>>, e) = 0
<1>1. \A e : {i \in DOMAIN <<>> : <<>>[i] = e} = {}
  BY EmptyIs
<1>2. QED
  BY <1>1, FS_EmptySet DEF Times

\* How often an element occurs when another one is appended, and what is left of it in the tail.
LEMMA TimesOfAppend ==
  ASSUME NEW T, NEW s \in Seq(T), NEW x \in T, NEW e
  PROVE  /\ Times(s, e) \in Nat
         /\ Times(Append(s, x), e) = Times(s, e) + (IF x = e THEN 1 ELSE 0)
<1> DEFINE t == Append(s, x)
           n == Len(s)
           P == {i \in 1..n : s[i] = e}
           Q == {i \in 1..(n + 1) : t[i] = e}
<1>1. /\ t \in Seq(T) /\ Len(t) = n + 1 /\ n \in Nat
      /\ \A i \in 1..n : t[i] = s[i]
      /\ t[n + 1] = x
  BY AppendProperties, LenProperties
<1>2. DOMAIN s = 1..n /\ DOMAIN t = 1..(n + 1)
  BY <1>1, LenProperties
<1>3. Times(s, e) = Cardinality(P) /\ Times(t, e) = Cardinality(Q)
  BY <1>2 DEF Times
<1> HIDE DEF t
<1>4. \A i \in 1..(n + 1) : i \in 1..n \/ i = n + 1
  BY <1>1
<1>5. n + 1 \in 1..(n + 1) /\ n + 1 \notin 1..n /\ \A i \in 1..n : i \in 1..(n + 1)
  BY <1>1
<1> HIDE DEF n
<1>6. IsFiniteSet(P) /\ n + 1 \notin P
  BY <1>1, <1>5, CardinalityUpto, FS_Subset
<1>7. Cardinality(P) \in Nat
  BY <1>6, FS_CardinalityType
<1>8. CASE x = e
  <2>1. Q = P \cup {n + 1}
    BY <1>1, <1>4, <1>5, <1>8
  <2> HIDE DEF P, Q
  <2>2. Cardinality(Q) = Cardinality(P) + 1
    BY <1>6, <2>1, FS_AddElement
  <2>3. QED
    BY <1>3, <1>7, <1>8, <2>2 DEF t
<1>9. CASE x # e
  <2>1. Q = P
    BY <1>1, <1>4, <1>5, <1>9
  <2> HIDE DEF P, Q
  <2>2. QED
    BY <1>3, <1>7, <1>9, <2>1 DEF t
<1>10. QED
  BY <1>8, <1>9

LEMMA TimesOfTail ==
  ASSUME NEW T, NEW s \in Seq(T), s # <<>>, NEW e
  PROVE  /\ Times(Tail(s), e) \in Nat /\ Times(s, e) \in Nat
         /\ Times(Tail(s), e) + (IF Head(s) = e THEN 1 ELSE 0) <= Times(s, e)
<1> DEFINE t == Tail(s)
           at == [k \in 1..Len(t) |-> k + 1]
<1>1. /\ t \in Seq(T) /\ Len(t) = Len(s) - 1 /\ Len(s) \in Nat \ {0}
      /\ \A i \in 1..Len(t) : t[i] = s[i + 1]
  BY HeadTailProperties, TailIs
<1>2. Head(s) = s[1] /\ 1 \in 1..Len(s)
  BY <1>1
<1> HIDE DEF t
<1>3. /\ at \in [1..Len(t) -> 1..Len(s)]
      /\ \A k, l \in 1..Len(t) : k # l => at[k] # at[l]
      /\ \A k \in 1..Len(t) : t[k] = s[at[k]] /\ at[k] # 1
  BY <1>1
<1> HIDE DEF at
<1>4. /\ Times(t, e) \in Nat /\ Times(s, e) \in Nat /\ Times(t, e) <= Times(s, e)
      /\ \A i \in 1..Len(s) : s[i] = e /\ (\A k \in 1..Len(t) : at[k] # i)
           => Times(t, e) + 1 <= Times(s, e)
  BY <1>1, <1>3, TimesWithin
<1>5. s[1] = e => Times(t, e) + 1 <= Times(s, e)
  BY <1>2, <1>3, <1>4
<1>6. QED
  BY <1>2, <1>4, <1>5 DEF t

\* The first few of a selection.
LEMMA TimesOfSelected ==
  ASSUME NEW T, NEW s \in Seq(T), NEW S, NEW e
  PROVE  Times(Selected(s, S), e) \in Nat /\ Times(s, e) \in Nat /\ Times(Selected(s, S), e) <= Times(s, e)
<1> DEFINE t == Selected(s, S)
<1>1. /\ t \in Seq(T)
      /\ \E at \in [1..Len(t) -> 1..Len(s)] :
           /\ \A k \in 1..Len(t) : t[k] = s[at[k]] /\ s[at[k]] \in S
           /\ \A k, l \in 1..Len(t) : k < l => at[k] < at[l]
  BY SelectedIs
<1> HIDE DEF t
<1>2. PICK at \in [1..Len(t) -> 1..Len(s)] :
           /\ \A k \in 1..Len(t) : t[k] = s[at[k]] /\ s[at[k]] \in S
           /\ \A k, l \in 1..Len(t) : k < l => at[k] < at[l]
  BY <1>1
<1>3. \A k, l \in 1..Len(t) : k # l => at[k] # at[l]
  <2>1. SUFFICES ASSUME NEW k \in 1..Len(t), NEW l \in 1..Len(t), k # l PROVE at[k] # at[l]
    OBVIOUS
  <2>2. Len(t) \in Nat /\ Len(s) \in Nat
    BY <1>1, LenProperties
  <2>3. at[k] \in Nat /\ at[l] \in Nat /\ (k < l \/ l < k)
    BY <1>2, <2>1, <2>2
  <2>4. QED
    BY <1>2, <2>3
<1>4. Times(t, e) \in Nat /\ Times(s, e) \in Nat /\ Times(t, e) <= Times(s, e)
  <2>1. at \in [1..Len(t) -> 1..Len(s)] /\ \A k \in 1..Len(t) : t[k] = s[at[k]]
    BY <1>2
  <2>2. t \in Seq(T)
    BY <1>1
  <2>3. QED
    BY <1>3, <2>1, <2>2, TimesWithin
<1>5. QED
  BY <1>4 DEF t

LEMMA TimesOfFirst ==
  ASSUME NEW T, NEW s \in Seq(T), NEW n \in Nat, NEW e
  PROVE  Times(Slice(s, 1, n), e) \in Nat /\ Times(s, e) \in Nat /\ Times(Slice(s, 1, n), e) <= Times(s, e)
<1> DEFINE t == Slice(s, 1, n)
           at == [k \in 1..Len(t) |-> k]
<1>1. /\ t \in Seq(T) /\ Len(s) \in Nat
      /\ Len(t) = IF 1 <= n /\ 1 <= Len(s) THEN (IF n <= Len(s) THEN n ELSE Len(s)) - 1 + 1 ELSE 0
      /\ \A i \in 1..Len(t) : t[i] = s[1 + i - 1]
  BY SliceIs
<1> HIDE DEF t
<1>2. \A k \in 1..Len(t) : k \in 1..Len(s) /\ 1 + k - 1 = k
  BY <1>1
<1>3. /\ at \in [1..Len(t) -> 1..Len(s)]
      /\ \A k, l \in 1..Len(t) : k # l => at[k] # at[l]
      /\ \A k \in 1..Len(t) : t[k] = s[at[k]]
  BY <1>1, <1>2
<1> HIDE DEF at
<1>4. Times(t, e) \in Nat /\ Times(s, e) \in Nat /\ Times(t, e) <= Times(s, e)
  <2>1. t \in Seq(T)
    BY <1>1
  <2>2. QED
    BY <1>3, <2>1, TimesWithin
<1>5. QED
  BY <1>4 DEF t

(***************************************************************************)
(* The sources of a search.                                                *)
(***************************************************************************)

LEMMA SourcesListed ==
  /\ ToSet(Catalog) \subseteq Sources /\ ToSet(Registers) \subseteq Sources
  /\ Closed \subseteq Sources
<1>1. QED
  BY SourceAssumption DEF Sources

\* What a search plans is new, and is nothing only if everything is on record.
LEMMA PlannedIs ==
  ASSUME TypeOK
  PROVE  /\ ForJobs => /\ PlannedJobs \in Seq(Sources)
                       /\ ToSet(PlannedJobs) \cap session.exhausted = {}
                       /\ PlannedJobs = <<>> => ToSet(Catalog) \subseteq session.exhausted
         /\ ~ForJobs => /\ PlannedPeople \in Seq(Sources)
                        /\ ToSet(PlannedPeople) \cap session.exhausted = {}
                        /\ PlannedPeople = <<>> => ToSet(Registers) \subseteq session.exhausted
<1>1. ASSUME NEW s \in Seq(Sources)
      PROVE  /\ Selected(s, NotOnRecord) \in Seq(Sources)
             /\ \A k \in 1..Len(Selected(s, NotOnRecord)) :
                  Selected(s, NotOnRecord)[k] \notin session.exhausted
             /\ Len(Selected(s, NotOnRecord)) = 0 => ToSet(s) \subseteq session.exhausted
  <2>1. /\ Selected(s, NotOnRecord) \in Seq(Sources)
        /\ \A k \in 1..Len(Selected(s, NotOnRecord)) : Selected(s, NotOnRecord)[k] \in NotOnRecord
        /\ \A i \in 1..Len(s) : s[i] \in NotOnRecord => 1..Len(Selected(s, NotOnRecord)) # {}
    BY SelectedIs
  <2>2. \A i \in 1..Len(s) : s[i] \in Sources
    BY ElementOfSeq
  <2>3. DOMAIN s = 1..Len(s)
    BY LenProperties
  <2>4. ASSUME Len(Selected(s, NotOnRecord)) = 0 PROVE \A i \in 1..Len(s) : s[i] \in session.exhausted
    <3>1. 1..Len(Selected(s, NotOnRecord)) = {}
      BY <2>4
    <3>2. QED
      BY <2>1, <2>2, <3>1 DEF NotOnRecord
  <2>5. QED
    BY <2>1, <2>3, <2>4 DEF NotOnRecord, ToSet
<1>2. /\ PlannedJobs \in Seq(Sources)
      /\ ToSet(PlannedJobs) \cap session.exhausted = {}
      /\ PlannedJobs = <<>> => ToSet(Catalog) \subseteq session.exhausted
  <2> DEFINE new == Selected(Catalog, NotOnRecord)
  <2>1. /\ new \in Seq(Sources) /\ \A k \in 1..Len(new) : new[k] \notin session.exhausted
        /\ Len(new) = 0 => ToSet(Catalog) \subseteq session.exhausted
    BY <1>1, SourceAssumption
  <2>2. PlannedJobs = Slice(new, 1, PerIteration)
    BY DEF PlannedJobs
  <2> HIDE DEF new
  <2>3. /\ PlannedJobs \in Seq(Sources) /\ Len(new) \in Nat
        /\ Len(PlannedJobs) = IF 1 <= PerIteration /\ 1 <= Len(new)
                              THEN (IF PerIteration <= Len(new) THEN PerIteration ELSE Len(new)) - 1 + 1
                              ELSE 0
        /\ \A i \in 1..Len(PlannedJobs) : PlannedJobs[i] = new[1 + i - 1]
    <3>1. 1 \in Nat \ {0} /\ PerIteration \in Nat
      BY SearchBounds
    <3>2. new \in Seq(Sources)
      BY <2>1
    <3>3. /\ Slice(new, 1, PerIteration) \in Seq(Sources) /\ Len(new) \in Nat
          /\ Len(Slice(new, 1, PerIteration)) =
               IF 1 <= PerIteration /\ 1 <= Len(new)
               THEN (IF PerIteration <= Len(new) THEN PerIteration ELSE Len(new)) - 1 + 1
               ELSE 0
          /\ \A i \in 1..Len(Slice(new, 1, PerIteration)) :
               Slice(new, 1, PerIteration)[i] = new[1 + i - 1]
      BY <3>1, <3>2, SliceIs
    <3>4. QED
      BY <2>2, <3>3
  <2>4. \A i \in 1..Len(PlannedJobs) : i \in 1..Len(new) /\ 1 + i - 1 = i
    BY <2>3, SearchBounds
  <2>5. DOMAIN PlannedJobs = 1..Len(PlannedJobs)
    BY <2>3, LenProperties
  <2>6. PlannedJobs = <<>> => Len(new) = 0
    BY <2>3, SearchBounds, EmptyIs
  <2>7. \A i \in DOMAIN PlannedJobs : PlannedJobs[i] \notin session.exhausted
    BY <2>1, <2>3, <2>4, <2>5
  <2>8. QED
    BY <2>1, <2>3, <2>6, <2>7 DEF ToSet
<1>3. /\ PlannedPeople \in Seq(Sources)
      /\ ToSet(PlannedPeople) \cap session.exhausted = {}
      /\ PlannedPeople = <<>> => ToSet(Registers) \subseteq session.exhausted
  <2>1. /\ PlannedPeople \in Seq(Sources)
        /\ \A k \in 1..Len(PlannedPeople) : PlannedPeople[k] \notin session.exhausted
        /\ Len(PlannedPeople) = 0 => ToSet(Registers) \subseteq session.exhausted
    BY <1>1, SourceAssumption DEF PlannedPeople
  <2>2. DOMAIN PlannedPeople = 1..Len(PlannedPeople)
    BY <2>1, LenProperties
  <2>3. QED
    BY <2>1, <2>2, EmptyIs DEF ToSet
<1>4. QED
  BY <1>2, <1>3

\* What a search plans names a source no more often than the request does.
LEMMA PlannedWithin ==
  ASSUME NEW x
  PROVE  /\ Times(PlannedJobs, x) \in Nat /\ Times(PlannedJobs, x) <= Times(Catalog, x)
         /\ Times(PlannedPeople, x) \in Nat /\ Times(PlannedPeople, x) <= Times(Registers, x)
<1> DEFINE new == Selected(Catalog, NotOnRecord)
<1>1. /\ new \in Seq(Sources)
      /\ Times(new, x) \in Nat /\ Times(Catalog, x) \in Nat /\ Times(new, x) <= Times(Catalog, x)
  BY SourceAssumption, SelectedIs, TimesOfSelected
<1>2. PlannedJobs = Slice(new, 1, PerIteration)
  BY DEF PlannedJobs
<1> HIDE DEF new
<1>3. Times(PlannedJobs, x) \in Nat /\ Times(PlannedJobs, x) <= Times(new, x)
  BY <1>1, <1>2, SearchBounds, TimesOfFirst
<1>4. Times(PlannedPeople, x) \in Nat /\ Times(PlannedPeople, x) <= Times(Registers, x)
  BY SourceAssumption, TimesOfSelected DEF PlannedPeople
<1>5. QED
  BY <1>1, <1>3, <1>4

LEMMA NamedIs ==
  ASSUME NEW x
  PROVE  Named(x) \in Nat
<1>1. Times(Catalog, x) \in Nat /\ Times(Registers, x) \in Nat
  BY SourceAssumption, TimesOfSelected
<1>2. QED
  BY <1>1 DEF Named

(***************************************************************************)
(* What steps leave alone.                                                 *)
(***************************************************************************)

LEMMA RecordsStay ==
  ASSUME SavedFit, WalkIsWindow, UNCHANGED <<setting, page>>, session'.records = session.records
  PROVE  SavedFit' /\ WalkIsWindow'
<1>1. QED
  BY DEF SavedFit, FitRecords, ForJobs, WalkIsWindow

LEMMA AskedStays ==
  ASSUME AskedWithin, UNCHANGED <<setting, asked, failures>>
  PROVE  AskedWithin'
<1>1. QED
  BY DEF AskedWithin, Named, ForJobs

LEMMA ReservedIs ==
  ASSUME session \in Session, NEW n \in Nat
  PROVE  /\ Reserved(n) \in Session
         /\ Reserved(n).records = session.records /\ Reserved(n).exhausted = session.exhausted
         /\ Reserved(n).remaining =
              IF n <= session.remaining THEN session.remaining - n ELSE 0
         /\ session.remaining \in 0..Budget /\ Budget \in Nat
<1>1. session.remaining \in 0..Budget /\ Budget \in Nat
  BY SearchBounds DEF Session
<1>2. Min({n, session.remaining}) = IF n <= session.remaining THEN n ELSE session.remaining
  BY <1>1, MinOfTwo
<1> DEFINE left == session.remaining - Min({n, session.remaining})
<1>3. left \in 0..Budget /\ left = IF n <= session.remaining THEN session.remaining - n ELSE 0
  BY <1>1, <1>2
<1>4. Reserved(n) = [session EXCEPT !.remaining = left]
  BY DEF Reserved, Session
<1> HIDE DEF left
<1>5. QED
  BY <1>1, <1>3, <1>4 DEF Session

LEMMA RecordIs ==
  ASSUME session \in Session, NEW S \in SUBSET Sources
  PROVE  /\ [session EXCEPT !.exhausted = @ \cup S] \in Session
         /\ [session EXCEPT !.exhausted = @ \cup S].records = session.records
         /\ [session EXCEPT !.exhausted = @ \cup S].remaining = session.remaining
         /\ [session EXCEPT !.exhausted = @ \cup S].exhausted = session.exhausted \cup S
<1>1. QED
  BY DEF Session

LEMMA NoSearchFits == NoSearch \in Searches
<1>1. 0 \in 0..Shown /\ 0 \in 0..Budget
  BY SearchBounds
<1>2. <<>> \in Seq(Sources)
  BY EmptyIs
<1>3. QED
  BY <1>1, <1>2 DEF NoSearch, Searches

(***************************************************************************)
(* A search begins.                                                        *)
(***************************************************************************)

LEMMA BeginKeeps ==
  ASSUME Inv, NEW offset \in 0..Shown, NEW sources \in Seq(Sources), NEW found \in SUBSET Candidates,
         Begin(offset, sources, found),
         ToSet(sources) \cap session.exhausted = {},
         \A x \in Sources : Times(sources, x) \in Nat /\ Times(sources, x) <= Named(x),
         sources = <<>> => Everything \subseteq session.exhausted
  PROVE  Inv'
<1> USE DEF Inv
<1> DEFINE a == [NoSearch EXCEPT !.pc = "plan"]
           b == [a EXCEPT !.offset = offset]
           c == [b EXCEPT !.known = session.exhausted]
           d == [c EXCEPT !.todo = sources]
           e == [d EXCEPT !.found = found]
<1>1. /\ At("idle") /\ searches < MaxSearches /\ searches' = searches + 1
      /\ offset = 0 \/ session.records = <<>>
      /\ search' = e
      /\ UNCHANGED <<setting, session, page, counted, made, asked, failures>>
  BY DEF Begin
<1>2. session \in Session /\ session.exhausted \in SUBSET Sources
  BY DEF TypeOK, Session
<1>3. a \in Searches /\ a.pc = "plan" /\ a.tasks = <<>> /\ a.calls = 0
  BY NoSearchFits DEF NoSearch, Searches
<1> HIDE DEF a
<1>4. b \in Searches /\ b.pc = "plan" /\ b.tasks = <<>> /\ b.calls = 0 /\ b.offset = offset
  BY <1>3 DEF Searches
<1> HIDE DEF b
<1>5. /\ c \in Searches /\ c.pc = "plan" /\ c.tasks = <<>> /\ c.calls = 0 /\ c.offset = offset
      /\ c.known = session.exhausted
  BY <1>2, <1>4 DEF Searches
<1> HIDE DEF c
<1>6. /\ d \in Searches /\ d.pc = "plan" /\ d.tasks = <<>> /\ d.calls = 0 /\ d.offset = offset
      /\ d.known = session.exhausted /\ d.todo = sources
  BY <1>5 DEF Searches
<1> HIDE DEF d
<1>7. /\ e \in Searches /\ e.pc = "plan" /\ e.tasks = <<>> /\ e.calls = 0 /\ e.offset = offset
      /\ e.known = session.exhausted /\ e.todo = sources
  BY <1>6 DEF Searches
<1> HIDE DEF e
<1>8. searches' \in 0..MaxSearches
  BY <1>1, SearchBounds DEF TypeOK
<1>9. TypeOK'
  BY <1>1, <1>7, <1>8 DEF TypeOK
<1>10. /\ counted \in Nat /\ made \in Nat /\ session.remaining \in 0..Budget /\ Budget \in Nat
       /\ made <= Budget - session.remaining /\ counted <= Budget - session.remaining
  <2>1. /\ counted \in 0..Budget /\ made \in 0..Budget /\ session.remaining \in 0..Budget /\ Budget \in Nat
        /\ search.calls \in 0..Budget
    BY SearchBounds DEF TypeOK, Session, Searches
  <2>2. counted + search.calls <= Budget - session.remaining /\ made + 0 <= Budget - session.remaining
    BY <1>1 DEF CallsAreReserved, At
  <2>3. QED
    BY <2>1, <2>2
<1>11. CallsAreReserved'
  <2>1. AskedWithin'
    BY <1>1, AskedStays DEF CallsAreReserved
  <2>2. QED
    BY <1>1, <1>7, <1>10, <2>1, EmptyIs DEF CallsAreReserved, At
<1>12. SavedFit' /\ WalkIsWindow'
  BY <1>1, RecordsStay
<1>13. Shape'
  BY <1>1, <1>7, EmptyIs DEF Shape, At
<1>14. PlannedIsNew' /\ PlannedAsNamed'
  <2>1. \A x \in Sources : Times(<<>>, x) + Times(sources, x) <= Named(x)
    BY TimesOfEmpty, NamedIs
  <2>2. QED
    BY <1>1, <1>7, <2>1, EmptyIs DEF PlannedIsNew, PlannedAsNamed, Named, ForJobs
<1>15. AskedUnrecorded'
  BY <1>1, <1>7 DEF AskedUnrecorded, At, Named, ForJobs
<1>16. Progress'
  <2>1. Everything' = Everything
    BY <1>1 DEF Everything, ForJobs
  <2>2. \A s \in ToSet(sources) : s \notin session.exhausted
    OBVIOUS
  <2>3. QED
    BY <1>1, <1>7, <2>1, <2>2, EmptyIs DEF Progress, At
<1>17. RanksWhenRead'
  BY <1>1, <1>7 DEF RanksWhenRead, At
<1>18. QED
  BY <1>9, <1>11, <1>12, <1>13, <1>14, <1>15, <1>16, <1>17

LEMMA StartKeeps ==
  ASSUME Inv, NEW offset \in 0..Shown, StartJobSearch(offset) \/ StartPeopleSearch(offset)
  PROVE  Inv'
<1>1. TypeOK
  BY DEF Inv
<1>2. CASE StartJobSearch(offset)
  <2>1. ForJobs /\ Begin(offset, PlannedJobs, {})
    BY <1>2 DEF StartJobSearch
  <2>2. QED
    BY <1>1, <2>1, PlannedIs, PlannedWithin, BeginKeeps DEF Everything, Named
<1>3. CASE StartPeopleSearch(offset)
  <2>1. ~ForJobs /\ Begin(offset, PlannedPeople, Connections)
    BY <1>3 DEF StartPeopleSearch
  <2>2. QED
    BY <1>1, <2>1, PlannedIs, PlannedWithin, BeginKeeps, SourceAssumption DEF Everything, Named
<1>4. QED
  BY <1>2, <1>3

(***************************************************************************)
(* Planning.                                                               *)
(***************************************************************************)

\* The numbers of a state.
LEMMA Numbers ==
  ASSUME TypeOK
  PROVE  /\ Budget \in Nat /\ Shown \in Nat \ {0} /\ MaxFailures \in Nat /\ MaxSearches \in Nat
         /\ session \in Session /\ session.remaining \in 0..Budget
         /\ session.exhausted \in SUBSET Sources /\ session.records \in Seq(Record)
         /\ search \in Searches /\ search.calls \in 0..Budget /\ search.tasks \in Seq(Sources)
         /\ search.todo \in Seq(Sources) /\ search.found \in SUBSET Candidates
         /\ search.offset \in 0..Shown /\ search.answer.found \in SUBSET Candidates
         /\ Len(search.tasks) \in Nat /\ counted \in 0..Budget /\ made \in 0..Budget
         /\ failures \in 0..MaxFailures /\ searches \in 0..MaxSearches
         /\ asked \in [Sources -> Nat]
<1>1. session \in Session /\ search \in Searches
  BY DEF TypeOK
<1>2. Len(search.tasks) \in Nat
  BY <1>1, LenProperties DEF Searches
<1>3. QED
  BY <1>1, <1>2, SearchBounds DEF TypeOK, Session, Searches

LEMMA TimesOfTask ==
  ASSUME TypeOK, NEW x
  PROVE  Times(search.tasks, x) \in Nat /\ Times(search.todo, x) \in Nat
<1>1. QED
  BY Numbers, TimesOfSelected

LEMMA SkipKeeps ==
  ASSUME Inv, SkipClosed
  PROVE  Inv'
<1> USE DEF Inv
<1> DEFINE h == Head(search.todo)
           rest == Tail(search.todo)
           e == [search EXCEPT !.todo = rest]
<1>1. /\ ForJobs /\ search.pc = "plan" /\ search.todo # <<>> /\ h \in Closed
      /\ session' = [session EXCEPT !.exhausted = @ \cup {h}]
      /\ search' = e
      /\ UNCHANGED <<setting, page, tally>>
  BY DEF SkipClosed, At
<1>2. /\ search \in Searches /\ session \in Session /\ search.todo \in Seq(Sources)
      /\ session.exhausted \in SUBSET Sources
  BY Numbers
<1>3. h \in Sources /\ rest \in Seq(Sources) /\ ToSet(search.todo) = {h} \cup ToSet(rest)
  BY <1>1, <1>2, TailIs
<1>16. ASSUME NEW x \in Sources
       PROVE  Times(search.tasks, x) + Times(rest, x) <= Named(x)
  <2>1. /\ Times(rest, x) \in Nat /\ Times(search.todo, x) \in Nat
        /\ Times(rest, x) + (IF h = x THEN 1 ELSE 0) <= Times(search.todo, x)
    BY <1>1, <1>2, TimesOfTail
  <2>2. Times(search.tasks, x) + Times(search.todo, x) <= Named(x)
    BY <1>1 DEF PlannedAsNamed, At
  <2>3. Times(search.tasks, x) \in Nat /\ Named(x) \in Nat
    BY NamedIs, TimesOfTask
  <2>4. QED
    BY <2>1, <2>2, <2>3
<1> HIDE DEF h, rest
<1>4. /\ e \in Searches /\ e.todo = rest /\ e.pc = "plan" /\ e.offset = search.offset
      /\ e.known = search.known /\ e.tasks = search.tasks /\ e.calls = search.calls
  BY <1>1, <1>2, <1>3 DEF Searches
<1> HIDE DEF e
<1>5. /\ session' \in Session /\ session'.records = session.records
      /\ session'.remaining = session.remaining
      /\ session'.exhausted = session.exhausted \cup {h}
  BY <1>1, <1>2, <1>3, RecordIs
<1>6. UNCHANGED <<counted, made, asked, searches, failures>>
  BY <1>1 DEF tally
<1>7. TypeOK'
  BY <1>1, <1>4, <1>5, <1>6 DEF TypeOK
<1>8. CallsAreReserved'
  BY <1>1, <1>4, <1>5, <1>6, AskedStays DEF CallsAreReserved, At
<1>9. SavedFit' /\ WalkIsWindow'
  BY <1>1, <1>5, RecordsStay
<1>10. Shape'
  BY <1>1, <1>4, <1>5 DEF Shape, At
<1>11. PlannedIsNew' /\ PlannedAsNamed'
  <2>1. PlannedIsNew'
    BY <1>1, <1>3, <1>4, <1>5 DEF PlannedIsNew, At, ForJobs
  <2>2. PlannedAsNamed'
    BY <1>1, <1>4, <1>16 DEF PlannedAsNamed, Named, ForJobs
  <2>3. QED
    BY <2>1, <2>2
<1>12. AskedUnrecorded'
  BY <1>1, <1>4, <1>5, <1>6 DEF AskedUnrecorded, At, Named, ForJobs
<1>13. Progress'
  <2>1. h \notin search.known /\ search.known \subseteq session.exhausted
    BY <1>1, <1>3 DEF Progress, At
  <2>2. session'.exhausted # search'.known
    BY <1>1, <1>4, <1>5, <2>1
  <2>3. QED
    BY <1>1, <1>3, <1>4, <1>5, <2>1, <2>2 DEF Progress, At
<1>14. RanksWhenRead'
  BY <1>1, <1>4 DEF RanksWhenRead, At
<1>15. QED
  BY <1>7, <1>8, <1>9, <1>10, <1>11, <1>12, <1>13, <1>14

LEMMA PaidPlanKeeps ==
  ASSUME Inv, Plan(TRUE), CanReserve, ForJobs => Head(search.todo) \notin Closed
  PROVE  Inv'
<1> USE DEF Inv
<1> DEFINE h == Head(search.todo)
           rest == Tail(search.todo)
           tasks == Append(search.tasks, h)
           calls == search.calls + 1
           c == [search EXCEPT !.todo = rest]
           d == [c EXCEPT !.calls = calls]
           e == [d EXCEPT !.tasks = tasks]
<1>1. /\ search.pc = "plan" /\ search.todo # <<>>
      /\ session' = Reserved(1)
      /\ search' = e
      /\ UNCHANGED <<setting, page, tally>>
  BY DEF Plan, At
<1>2. /\ search \in Searches /\ session \in Session /\ search.todo \in Seq(Sources)
      /\ search.tasks \in Seq(Sources) /\ search.calls \in 0..Budget /\ Budget \in Nat
      /\ session.remaining \in 0..Budget /\ session.remaining > 0 /\ Len(search.tasks) \in Nat
      /\ counted \in 0..Budget /\ made \in 0..Budget
  BY Numbers DEF CanReserve
<1>3. h \in Sources /\ rest \in Seq(Sources) /\ ToSet(search.todo) = {h} \cup ToSet(rest)
  BY <1>1, <1>2, TailIs
<1>23. ASSUME NEW x \in Sources
       PROVE  Times(tasks, x) + Times(rest, x) <= Named(x)
  <2>1. /\ Times(rest, x) \in Nat /\ Times(search.todo, x) \in Nat
        /\ Times(rest, x) + (IF h = x THEN 1 ELSE 0) <= Times(search.todo, x)
    BY <1>1, <1>2, TimesOfTail
  <2>2. Times(search.tasks, x) + Times(search.todo, x) <= Named(x)
    BY <1>1 DEF PlannedAsNamed, At
  <2>3. /\ Times(search.tasks, x) \in Nat /\ Named(x) \in Nat
        /\ Times(tasks, x) = Times(search.tasks, x) + (IF h = x THEN 1 ELSE 0)
    BY <1>2, <1>3, NamedIs, TimesOfAppend
  <2> HIDE DEF h, rest, tasks
  <2>4. QED
    BY <2>1, <2>2, <2>3
<1> HIDE DEF h, rest
<1>4. /\ tasks \in Seq(Sources) /\ Len(tasks) = Len(search.tasks) + 1 /\ tasks # <<>>
      /\ ToSet(tasks) = ToSet(search.tasks) \cup {h}
  BY <1>2, <1>3, AppendIs
<1>5. counted + search.calls <= Budget - session.remaining
  BY DEF CallsAreReserved
<1>6. made + Len(search.tasks) <= Budget - session.remaining
  BY <1>1 DEF CallsAreReserved, At
<1>7. calls \in 0..Budget
  BY <1>2, <1>5
<1> HIDE DEF tasks
<1>8. c \in Searches /\ c.todo = rest /\ c.pc = "plan" /\ c.offset = search.offset /\ c.known = search.known
  BY <1>1, <1>2, <1>3 DEF Searches
<1> HIDE DEF c
<1>9. /\ d \in Searches /\ d.todo = rest /\ d.pc = "plan" /\ d.offset = search.offset
      /\ d.known = search.known /\ d.calls = search.calls + 1
  BY <1>7, <1>8 DEF Searches
<1> HIDE DEF d
<1>10. /\ e \in Searches /\ e.todo = rest /\ e.pc = "plan" /\ e.offset = search.offset
       /\ e.known = search.known /\ e.calls = search.calls + 1 /\ e.tasks = tasks
  BY <1>4, <1>9 DEF Searches
<1> HIDE DEF e
<1>11. /\ session' \in Session /\ session'.records = session.records
       /\ session'.remaining = session.remaining - 1
       /\ session'.exhausted = session.exhausted
  <2>1. /\ Reserved(1) \in Session /\ Reserved(1).records = session.records
        /\ Reserved(1).exhausted = session.exhausted
        /\ Reserved(1).remaining = IF 1 <= session.remaining THEN session.remaining - 1 ELSE 0
    BY <1>2, ReservedIs
  <2>2. 1 <= session.remaining
    BY <1>2
  <2>3. QED
    BY <1>1, <2>1, <2>2
<1>12. UNCHANGED <<counted, made, asked, searches, failures>>
  BY <1>1 DEF tally
<1>13. TypeOK'
  BY <1>1, <1>10, <1>11, <1>12 DEF TypeOK
<1>14. CallsAreReserved'
  <2>1. AskedWithin
    BY DEF CallsAreReserved
  <2>2. /\ made + (Len(search.tasks) + 1) <= Budget - (session.remaining - 1)
        /\ counted + (search.calls + 1) <= Budget - (session.remaining - 1)
    BY <1>2, <1>5, <1>6
  <2>3. /\ Len(search'.tasks) = Len(search.tasks) + 1 /\ search'.calls = search.calls + 1
        /\ made' = made /\ counted' = counted /\ search'.pc = "plan"
    BY <1>1, <1>4, <1>10, <1>12
  <2>4. AskedWithin'
    BY <1>1, <1>12, <2>1, AskedStays
  <2>5. /\ made' + Len(search'.tasks) <= Budget - session'.remaining
        /\ counted' + search'.calls <= Budget - session'.remaining
    BY <1>11, <2>2, <2>3
  <2>6. QED
    BY <2>3, <2>4, <2>5 DEF CallsAreReserved, At
<1>15. SavedFit' /\ WalkIsWindow'
  BY <1>1, <1>11, RecordsStay
<1>16. Shape'
  <2>1. search.calls = Len(search.tasks) /\ (search.offset # 0 => session.records = <<>>)
    BY <1>1 DEF Shape, At
  <2>2. QED
    BY <1>1, <1>4, <1>10, <1>11, <2>1 DEF Shape, At
<1>17. h \notin session.exhausted
  BY <1>1, <1>3 DEF PlannedIsNew, At, h
<1>18. PlannedIsNew' /\ PlannedAsNamed'
  <2>1. PlannedIsNew'
    BY <1>1, <1>3, <1>4, <1>10, <1>11, <1>17 DEF PlannedIsNew, At, ForJobs, h
  <2>2. PlannedAsNamed'
    BY <1>1, <1>10, <1>23 DEF PlannedAsNamed, Named, ForJobs
  <2>3. QED
    BY <2>1, <2>2
<1>19. AskedUnrecorded'
  BY <1>1, <1>10, <1>11, <1>12 DEF AskedUnrecorded, At, Named, ForJobs
<1>20. Progress'
  BY <1>1, <1>3, <1>4, <1>10, <1>11 DEF Progress, At
<1>21. RanksWhenRead'
  BY <1>1, <1>10 DEF RanksWhenRead, At
<1>22. QED
  BY <1>13, <1>14, <1>15, <1>16, <1>18, <1>19, <1>20, <1>21

\* A plan ends early when the session or the run has no calls left; a plan with no tasks
\* ends so only when the session has none.
LEMMA EndedPlanKeeps ==
  ASSUME Inv, Plan(FALSE), ~CanReserve \/ search.calls >= MaxCalls
  PROVE  Inv'
<1> USE DEF Inv
<1> DEFINE e == [search EXCEPT !.todo = <<>>]
<1>1. /\ search.pc = "plan" /\ search.todo # <<>>
      /\ session' = session
      /\ search' = e
      /\ UNCHANGED <<setting, page, tally>>
  BY DEF Plan, At
<1>2. /\ search \in Searches /\ search.calls \in 0..Budget /\ Budget \in Nat
      /\ session.remaining \in 0..Budget /\ counted \in 0..Budget
  BY Numbers
<1>3. /\ e \in Searches /\ e.todo = <<>> /\ e.pc = "plan" /\ e.offset = search.offset
      /\ e.known = search.known /\ e.tasks = search.tasks /\ e.calls = search.calls
  BY <1>1, <1>2, EmptyIs DEF Searches
<1> HIDE DEF e
<1>4. UNCHANGED <<counted, made, asked, searches, failures>>
  BY <1>1 DEF tally
<1>5. TypeOK'
  BY <1>1, <1>3, <1>4 DEF TypeOK
<1>6. CallsAreReserved'
  BY <1>1, <1>3, <1>4, AskedStays DEF CallsAreReserved, At
<1>7. SavedFit' /\ WalkIsWindow'
  BY <1>1, RecordsStay
<1>8. Shape'
  BY <1>1, <1>3 DEF Shape, At
<1>9. PlannedIsNew' /\ PlannedAsNamed'
  <2>1. PlannedIsNew'
    BY <1>1, <1>3, EmptyIs DEF PlannedIsNew, At, ForJobs
  <2>2. \A x \in Sources : Times(search.tasks, x) + Times(<<>>, x) <= Named(x)
    <3>1. SUFFICES ASSUME NEW x \in Sources
                   PROVE  Times(search.tasks, x) + Times(<<>>, x) <= Named(x)
      OBVIOUS
    <3>2. Times(search.tasks, x) + Times(search.todo, x) <= Named(x)
      BY <1>1 DEF PlannedAsNamed, At
    <3>3. Times(search.tasks, x) \in Nat /\ Times(search.todo, x) \in Nat /\ Named(x) \in Nat
      BY NamedIs, TimesOfTask
    <3>4. QED
      BY <3>2, <3>3, TimesOfEmpty
  <2>3. PlannedAsNamed'
    BY <1>1, <1>3, <2>2 DEF PlannedAsNamed, Named, ForJobs
  <2>4. QED
    BY <2>1, <2>3
<1>10. AskedUnrecorded'
  BY <1>1, <1>3, <1>4 DEF AskedUnrecorded, At, Named, ForJobs
<1>11. search.tasks # <<>> \/ session.remaining = 0
  <2>1. CASE ~CanReserve
    BY <1>2, <2>1 DEF CanReserve
  <2>2. CASE search.calls >= MaxCalls
    <3>1. SUFFICES ASSUME search.tasks = <<>> PROVE session.remaining = 0
      OBVIOUS
    <3>2. search.calls = 0
      BY <1>1, <3>1, EmptyIs DEF Shape, At
    <3>3. counted + search.calls <= Budget - session.remaining /\ search.calls >= Budget - counted
      BY <2>2 DEF CallsAreReserved, MaxCalls
    <3>4. QED
      BY <1>2, <3>2, <3>3
  <2>3. QED
    BY <2>1, <2>2
<1>12. Progress'
  BY <1>1, <1>3, <1>11, EmptyIs DEF Progress, At, Everything, ForJobs
<1>13. RanksWhenRead'
  BY <1>1, <1>3 DEF RanksWhenRead, At
<1>14. QED
  BY <1>5, <1>6, <1>7, <1>8, <1>9, <1>10, <1>12, <1>13

LEMMA PlanKeeps ==
  ASSUME Inv, PlanSource \/ PlanRegister
  PROVE  Inv'
<1>1. CanReserve \in BOOLEAN
  BY DEF CanReserve
<1>2. CASE PlanSource
  <2>1. ForJobs
    BY <1>2 DEF PlanSource
  <2>2. \/ Head(search.todo) \notin Closed /\ Plan(CanReserve)
        \/ search.calls >= MaxCalls /\ Plan(FALSE)
    BY <1>2 DEF PlanSource
  <2>3. CASE search.calls >= MaxCalls /\ Plan(FALSE)
    BY <2>3, EndedPlanKeeps
  <2>4. CASE Head(search.todo) \notin Closed /\ Plan(CanReserve)
    <3>1. CASE CanReserve = TRUE
      <4>1. Plan(TRUE) /\ CanReserve
        BY <2>4, <3>1
      <4>2. QED
        BY <2>4, <4>1, PaidPlanKeeps
    <3>2. CASE CanReserve = FALSE
      <4>1. Plan(FALSE) /\ ~CanReserve
        BY <2>4, <3>2
      <4>2. QED
        BY <4>1, EndedPlanKeeps
    <3>3. QED
      BY <1>1, <3>1, <3>2
  <2>5. QED
    BY <2>2, <2>3, <2>4
<1>3. CASE PlanRegister
  <2>1. ~ForJobs /\ Plan(CanReserve)
    BY <1>3 DEF PlanRegister
  <2>2. CASE CanReserve = TRUE
    <3>1. Plan(TRUE) /\ CanReserve
      BY <2>1, <2>2
    <3>2. QED
      BY <2>1, <3>1, PaidPlanKeeps
  <2>3. CASE CanReserve = FALSE
    <3>1. Plan(FALSE) /\ ~CanReserve
      BY <2>1, <2>3
    <3>2. QED
      BY <3>1, EndedPlanKeeps
  <2>4. QED
    BY <1>1, <2>2, <2>3
<1>4. QED
  BY <1>2, <1>3

(***************************************************************************)
(* Fetching and reading.                                                   *)
(***************************************************************************)

LEMMA FetchKeeps ==
  ASSUME Inv, Fetch
  PROVE  Inv'
<1> USE DEF Inv
<1> DEFINE once == Distinct(search.tasks)
           a == [search EXCEPT !.pc = "read"]
           e == [a EXCEPT !.tasks = once]
           more(s) == Times(search.tasks, s)
<1>1. /\ search.pc = "plan" /\ search.todo = <<>>
      /\ search' = e
      /\ made' = made + Len(search.tasks)
      /\ asked' = [s \in Sources |-> asked[s] + more(s)]
      /\ UNCHANGED <<setting, session, page, counted, searches, failures>>
  <2>1. search' = e
    BY DEF Fetch, TypeOK, Searches
  <2>2. QED
    BY <2>1 DEF Fetch, At
<1>2. /\ search \in Searches /\ session.remaining \in 0..Budget /\ Budget \in Nat
      /\ Len(search.tasks) \in Nat /\ made \in 0..Budget /\ asked \in [Sources -> Nat]
      /\ failures \in 0..MaxFailures /\ MaxFailures \in Nat
  BY Numbers
<1>19. once \in Seq(Sources) /\ ToSet(once) = ToSet(search.tasks)
  BY Numbers, DistinctIs
<1>20. once = <<>> => search.tasks = <<>>
  <2>1. SUFFICES ASSUME ToSet(search.tasks) = {} PROVE search.tasks = <<>>
    BY <1>19, EmptyIs
  <2>2. search.tasks \in Seq(Sources)
    BY Numbers
  <2>3. QED
    BY <2>1, <2>2, TailIs
<1> HIDE DEF once
<1>21. /\ a \in Searches /\ a.pc = "read" /\ a.offset = search.offset /\ a.todo = search.todo
       /\ a.known = search.known /\ a.calls = search.calls
  BY <1>2 DEF Searches
<1> HIDE DEF a
<1>3. /\ e \in Searches /\ e.pc = "read" /\ e.offset = search.offset /\ e.todo = search.todo
      /\ e.known = search.known /\ e.tasks = once /\ e.calls = search.calls
  BY <1>19, <1>21 DEF Searches
<1> HIDE DEF e
<1>4. made + Len(search.tasks) <= Budget - session.remaining
  BY <1>1 DEF CallsAreReserved, At
<1>5. made' \in 0..Budget /\ made' + 0 <= Budget - session.remaining
  BY <1>1, <1>2, <1>4
<1>6. ASSUME NEW s \in Sources
      PROVE  more(s) \in Nat /\ Named(s) \in Nat /\ more(s) <= Named(s)
  <2>1. Times(search.tasks, s) + Times(search.todo, s) <= Named(s)
    BY <1>1 DEF PlannedAsNamed, At
  <2>2. Times(search.tasks, s) \in Nat /\ Times(search.todo, s) \in Nat /\ Named(s) \in Nat
    BY NamedIs, TimesOfTask
  <2>3. QED
    BY <2>1, <2>2
<1>22. \A s \in Sources : s \notin ToSet(search.tasks) => more(s) = 0
  <2>1. \A s \in Sources : s \notin ToSet(search.tasks) => {i \in DOMAIN search.tasks : search.tasks[i] = s} = {}
    BY DEF ToSet
  <2>2. QED
    BY <2>1, FS_EmptySet DEF Times
<1> HIDE DEF more
<1>7. asked' \in [Sources -> Nat] /\ \A s \in Sources : asked'[s] = asked[s] + more(s)
  BY <1>1, <1>2, <1>6
<1>8. TypeOK'
  BY <1>1, <1>3, <1>5, <1>7 DEF TypeOK
<1>9. \A s \in Sources \ session.exhausted : asked[s] <= failures * Named(s)
  <2>1. ASSUME NEW s \in Sources \ session.exhausted PROVE asked[s] <= failures * Named(s)
    <3>1. asked[s] <= failures * Named(s) + 0
      BY <1>1 DEF AskedUnrecorded
    <3>2. failures * Named(s) \in Nat
      BY <1>2, <1>6
    <3> DEFINE most == failures * Named(s)
    <3> HIDE DEF most
    <3>3. asked[s] <= most + 0 /\ most \in Nat
      BY <3>1, <3>2 DEF most
    <3>4. asked[s] <= most
      BY <3>3
    <3>5. QED
      BY <3>4 DEF most
  <2>2. QED
    BY <2>1
<1>10. \A s \in Sources : asked'[s] <= (1 + failures) * Named(s)
  <2>1. SUFFICES ASSUME NEW s \in Sources PROVE asked[s] + more(s) <= (1 + failures) * Named(s)
    BY <1>7
  <2> DEFINE most == failures * Named(s)
  <2>5. most \in Nat /\ (1 + failures) * Named(s) = most + Named(s)
    BY <1>2, <1>6
  <2>2. CASE s \in ToSet(search.tasks)
    <3>1. s \notin session.exhausted
      BY <1>1, <2>2 DEF PlannedIsNew, At
    <3>2. asked[s] <= most /\ asked[s] \in Nat
      BY <1>2, <1>9, <3>1
    <3> HIDE DEF most
    <3>3. QED
      BY <1>6, <2>5, <3>2
  <2>3. CASE s \notin ToSet(search.tasks)
    <3>1. more(s) = 0
      BY <1>22, <2>3
    <3>2. asked[s] <= (1 + failures) * Named(s) /\ asked[s] \in Nat
      BY <1>2 DEF CallsAreReserved, AskedWithin
    <3>3. asked[s] + more(s) = asked[s]
      BY <3>1, <3>2
    <3>4. QED
      BY <3>2, <3>3
  <2>4. QED
    BY <2>2, <2>3
<1>11. CallsAreReserved'
  <2>1. counted + search.calls <= Budget - session.remaining
    BY DEF CallsAreReserved
  <2>2. /\ session' = session /\ counted' = counted /\ failures' = failures
        /\ search'.calls = search.calls /\ search'.pc # "plan"
    BY <1>1, <1>3
  <2>3. QED
    <3>1. AskedWithin'
      BY <1>1, <1>10 DEF AskedWithin, Named, ForJobs
    <3>2. QED
      BY <1>5, <2>1, <2>2, <3>1 DEF CallsAreReserved, At
<1>12. SavedFit' /\ WalkIsWindow'
  BY <1>1, RecordsStay
<1>13. Shape'
  BY <1>1, <1>3 DEF Shape, At
<1>14. PlannedIsNew' /\ PlannedAsNamed'
  BY <1>1, <1>3 DEF PlannedIsNew, PlannedAsNamed, At
<1>15. AskedUnrecorded'
  <2>1. ASSUME NEW s \in Sources \ session.exhausted
        PROVE  asked'[s] <= failures * Named(s) + (IF s \in ToSet(once) THEN Named(s) ELSE 0)
    <3> DEFINE most == failures * Named(s)
    <3>1. most \in Nat /\ asked[s] <= most /\ asked[s] \in Nat
      BY <1>2, <1>6, <1>9
    <3> HIDE DEF most
    <3>2. asked'[s] = asked[s] + more(s) /\ (s \notin ToSet(once) => more(s) = 0)
      BY <1>7, <1>19, <1>22
    <3>3. asked'[s] <= most + (IF s \in ToSet(once) THEN Named(s) ELSE 0)
      BY <1>6, <3>1, <3>2
    <3>4. QED
      BY <3>3 DEF most
  <2>2. QED
    BY <1>1, <1>3, <2>1 DEF AskedUnrecorded, At, Named, ForJobs
<1>16. Progress'
  BY <1>1, <1>3, <1>19, <1>20 DEF Progress, At, Everything, ForJobs
<1>17. RanksWhenRead'
  BY <1>1, <1>3 DEF RanksWhenRead, At
<1>18. QED
  BY <1>8, <1>11, <1>12, <1>13, <1>14, <1>15, <1>16, <1>17

LEMMA AnsweredKeeps ==
  ASSUME Inv, At("read"), search.tasks # <<>>,
         NEW found \in SUBSET Candidates, NEW n \in Nat, n <= session.remaining,
         Answered(found, n)
  PROVE  Inv'
<1> USE DEF Inv
<1> DEFINE calls == search.calls + n
           a == [search EXCEPT !.pc = "record"]
           b == [a EXCEPT !.calls = calls]
           e == [b EXCEPT !.answer = [ok |-> TRUE, found |-> found]]
<1>1. /\ search.pc = "read"
      /\ search' = e
      /\ session' = Reserved(n)
      /\ made' = made + n
      /\ UNCHANGED <<setting, page, counted, asked, searches, failures>>
  BY DEF Answered, At
<1>2. /\ search \in Searches /\ session \in Session
      /\ search.calls \in 0..Budget /\ Budget \in Nat /\ session.remaining \in 0..Budget
      /\ counted \in 0..Budget /\ made \in 0..Budget
  BY Numbers
<1>3. /\ counted + search.calls <= Budget - session.remaining
      /\ made + 0 <= Budget - session.remaining
      /\ AskedWithin
  BY <1>1 DEF CallsAreReserved, At
<1>4. calls \in 0..Budget /\ counted + calls <= Budget - (session.remaining - n)
  BY <1>2, <1>3
<1>5. made' \in 0..Budget /\ made' + 0 <= Budget - (session.remaining - n)
  BY <1>1, <1>2, <1>3
<1> HIDE DEF calls
<1>6. /\ a \in Searches /\ a.pc = "record" /\ a.tasks = search.tasks /\ a.offset = search.offset
      /\ a.known = search.known
  BY <1>2 DEF Searches
<1> HIDE DEF a
<1>7. /\ b \in Searches /\ b.pc = "record" /\ b.tasks = search.tasks /\ b.offset = search.offset
      /\ b.known = search.known /\ b.calls = calls
  BY <1>4, <1>6 DEF Searches
<1> HIDE DEF b
<1>8. /\ e \in Searches /\ e.pc = "record" /\ e.tasks = search.tasks /\ e.offset = search.offset
      /\ e.known = search.known /\ e.calls = calls
  BY <1>7 DEF Searches
<1> HIDE DEF e
<1>9. /\ session' \in Session /\ session'.records = session.records
      /\ session'.remaining = session.remaining - n
      /\ session'.exhausted = session.exhausted
  BY <1>1, <1>2, ReservedIs
<1>10. TypeOK'
  BY <1>1, <1>5, <1>8, <1>9 DEF TypeOK
<1>11. CallsAreReserved'
  <2>1. search'.pc # "plan" /\ search'.calls = calls /\ counted' = counted /\ asked' = asked /\ failures' = failures
    BY <1>1, <1>8
  <2>2. QED
    BY <1>1, <1>3, <1>4, <1>5, <1>9, <2>1, AskedStays DEF CallsAreReserved, At
<1>12. SavedFit' /\ WalkIsWindow'
  BY <1>1, <1>9, RecordsStay
<1>13. Shape'
  BY <1>1, <1>8, <1>9 DEF Shape, At
<1>14. PlannedIsNew' /\ PlannedAsNamed'
  BY <1>1, <1>8 DEF PlannedIsNew, PlannedAsNamed, At
<1>15. AskedUnrecorded'
  BY <1>1, <1>8, <1>9 DEF AskedUnrecorded, At, Named, ForJobs
<1>16. Progress'
  BY <1>1, <1>8, <1>9 DEF Progress, At
<1>17. RanksWhenRead'
  BY <1>1, <1>8 DEF RanksWhenRead, At
<1>18. QED
  BY <1>10, <1>11, <1>12, <1>13, <1>14, <1>15, <1>16, <1>17

\* What is read is reserved: never more than the session has left.
LEMMA ReadKeeps ==
  ASSUME Inv, NEW listed \in SUBSET Candidates, NEW rendered \in BOOLEAN,
         ReadAnswer(listed, rendered)
  PROVE  Inv'
<1> DEFINE r == IF rendered THEN 1 ELSE 0
           most == Readable(listed, session.remaining - r)
<1>1. session.remaining \in 0..Budget /\ Budget \in Nat
  BY Numbers DEF Inv
<1>2. rendered => session.remaining > 0
  BY DEF ReadAnswer, Renders, CanReserve
<1>3. r \in Nat /\ r <= session.remaining
  BY <1>1, <1>2
<1>4. At("read") /\ search.tasks # <<>>
  BY DEF ReadAnswer
<1>5. \/ Answered(listed, r)
      \/ \E n \in 0..most, kept \in SUBSET listed : Answered(kept, r + n)
  BY DEF ReadAnswer
<1>6. most \in Int /\ most <= session.remaining - r
  <2>1. Cardinality(listed) \in Nat
    BY CandidateAssumption, FS_Subset, FS_CardinalityType
  <2>2. session.remaining - r \in Int
    BY <1>1, <1>3
  <2> DEFINE left == session.remaining - r
  <2> HIDE DEF left, r
  <2>3. left \in Int
    BY <2>2 DEF left
  <2>4. Min({Cardinality(listed), left}) = IF Cardinality(listed) <= left THEN Cardinality(listed) ELSE left
    BY <2>1, <2>3, MinOfTwo
  <2>5. most = Min({Cardinality(listed), left})
    BY DEF Readable, left
  <2>6. most \in Int /\ most <= left
    BY <2>1, <2>3, <2>4, <2>5
  <2>7. QED
    BY <2>6 DEF left
<1> HIDE DEF r, most
<1>7. CASE Answered(listed, r)
  BY <1>3, <1>4, <1>7, AnsweredKeeps
<1>8. ASSUME NEW n \in 0..most, NEW kept \in SUBSET listed, Answered(kept, r + n)
      PROVE  Inv'
  <2> DEFINE all == r + n
  <2>1. all \in Nat /\ all <= session.remaining /\ kept \in SUBSET Candidates
    BY <1>1, <1>3, <1>6
  <2>2. Answered(kept, all)
    BY <1>8
  <2> HIDE DEF all
  <2>3. QED
    BY <1>4, <2>1, <2>2, AnsweredKeeps
<1>9. QED
  BY <1>5, <1>7, <1>8

LEMMA RegisterKeeps ==
  ASSUME Inv, NEW listed \in SUBSET Candidates, ReadRegister(listed)
  PROVE  Inv'
<1>1. At("read") /\ search.tasks # <<>> /\ Answered(listed, 0)
  BY DEF ReadRegister
<1>2. 0 \in Nat /\ 0 <= session.remaining
  BY Numbers DEF Inv
<1>3. QED
  BY <1>1, <1>2, AnsweredKeeps

LEMMA NothingKeeps ==
  ASSUME Inv, NEW late \in BOOLEAN, ReadNothing(late)
  PROVE  Inv'
<1> USE DEF Inv
<1> DEFINE l == search.late \/ late
           a == [search EXCEPT !.pc = "record"]
           b == [a EXCEPT !.late = l]
           e == [b EXCEPT !.answer = [ok |-> FALSE, found |-> {}]]
<1>1. /\ search.pc = "read" /\ search.tasks # <<>>
      /\ search' = e
      /\ UNCHANGED <<setting, session, page, tally>>
  <2>1. search' = [search EXCEPT !.pc = "record", !.late = @ \/ late,
                                 !.answer = [ok |-> FALSE, found |-> {}]]
    BY DEF ReadNothing
  <2>2. search \in Searches
    BY DEF TypeOK
  <2>3. search' = e
    BY <2>1, <2>2 DEF Searches
  <2>4. QED
    BY <2>3 DEF ReadNothing, At
<1>2. search \in Searches /\ l \in BOOLEAN
  BY Numbers DEF Searches
<1> HIDE DEF l
<1>3. /\ a \in Searches /\ a.pc = "record" /\ a.tasks = search.tasks /\ a.offset = search.offset
      /\ a.known = search.known /\ a.calls = search.calls
  BY <1>2 DEF Searches
<1> HIDE DEF a
<1>4. /\ b \in Searches /\ b.pc = "record" /\ b.tasks = search.tasks /\ b.offset = search.offset
      /\ b.known = search.known /\ b.calls = search.calls
  BY <1>2, <1>3 DEF Searches
<1> HIDE DEF b
<1>5. /\ e \in Searches /\ e.pc = "record" /\ e.tasks = search.tasks /\ e.offset = search.offset
      /\ e.known = search.known /\ e.calls = search.calls
  BY <1>4 DEF Searches
<1> HIDE DEF e
<1>6. UNCHANGED <<counted, made, asked, searches, failures>>
  BY <1>1 DEF tally
<1>7. TypeOK'
  BY <1>1, <1>5, <1>6 DEF TypeOK
<1>8. CallsAreReserved'
  BY <1>1, <1>5, <1>6, AskedStays DEF CallsAreReserved, At
<1>9. SavedFit' /\ WalkIsWindow'
  BY <1>1, RecordsStay
<1>10. Shape'
  BY <1>1, <1>5 DEF Shape, At
<1>11. PlannedIsNew' /\ PlannedAsNamed'
  BY <1>1, <1>5 DEF PlannedIsNew, PlannedAsNamed, At
<1>12. AskedUnrecorded'
  BY <1>1, <1>5, <1>6 DEF AskedUnrecorded, At, Named, ForJobs
<1>13. Progress'
  BY <1>1, <1>5 DEF Progress, At
<1>14. RanksWhenRead'
  BY <1>1, <1>5 DEF RanksWhenRead, At
<1>15. QED
  BY <1>7, <1>8, <1>9, <1>10, <1>11, <1>12, <1>13, <1>14

(***************************************************************************)
(* Recording, discovering and failing.                                     *)
(***************************************************************************)

LEMMA RecordKeeps ==
  ASSUME Inv, RecordSource
  PROVE  Inv'
<1> USE DEF Inv
<1> DEFINE h == Head(search.tasks)
           pc == IF search.answer.ok THEN "keep" ELSE "read"
           tasks == IF search.answer.ok THEN search.tasks ELSE Tail(search.tasks)
           a == [search EXCEPT !.pc = pc]
           e == [a EXCEPT !.tasks = tasks]
<1>1. /\ search.pc = "record" /\ search.tasks # <<>>
      /\ session' = [session EXCEPT !.exhausted = @ \cup {h}]
      /\ search' = e
      /\ UNCHANGED <<setting, page, tally>>
  <2>1. search.pc = "record"
    BY DEF RecordSource, At
  <2>2. search.tasks # <<>>
    BY <2>1 DEF Shape, At
  <2>3. search \in Searches
    BY DEF TypeOK
  <2>4. search' = e
    BY <2>3 DEF RecordSource, Searches
  <2>5. session' = [session EXCEPT !.exhausted = @ \cup {h}]
    BY DEF RecordSource, Recorded
  <2>6. QED
    BY <2>1, <2>2, <2>4, <2>5 DEF RecordSource
<1>2. search \in Searches /\ session \in Session /\ search.tasks \in Seq(Sources)
  BY Numbers
<1>3. h \in Sources /\ Tail(search.tasks) \in Seq(Sources) /\ ToSet(search.tasks) = {h} \cup ToSet(Tail(search.tasks))
  BY <1>1, <1>2, TailIs
<1>4. /\ tasks \in Seq(Sources) /\ ToSet(tasks) \subseteq ToSet(search.tasks)
      /\ ToSet(search.tasks) \subseteq {h} \cup ToSet(tasks)
      /\ pc \in {"keep", "read"} /\ (pc = "keep" => tasks = search.tasks)
  BY <1>2, <1>3
<1>5. h \in ToSet(search.tasks)
  BY <1>3
<1> HIDE DEF pc, tasks, h
<1>6. a \in Searches /\ a.pc = pc /\ a.offset = search.offset /\ a.known = search.known /\ a.calls = search.calls
  BY <1>2, <1>4 DEF Searches
<1> HIDE DEF a
<1>7. /\ e \in Searches /\ e.pc = pc /\ e.offset = search.offset /\ e.known = search.known
      /\ e.calls = search.calls /\ e.tasks = tasks
  BY <1>4, <1>6 DEF Searches
<1> HIDE DEF e
<1>8. /\ session' \in Session /\ session'.records = session.records
      /\ session'.remaining = session.remaining
      /\ session'.exhausted = session.exhausted \cup {h}
  BY <1>1, <1>2, <1>3, RecordIs
<1>9. UNCHANGED <<counted, made, asked, searches, failures>>
  BY <1>1 DEF tally
<1>10. TypeOK'
  BY <1>1, <1>7, <1>8, <1>9 DEF TypeOK
<1>11. CallsAreReserved'
  BY <1>1, <1>4, <1>7, <1>8, <1>9, AskedStays DEF CallsAreReserved, At
<1>12. SavedFit' /\ WalkIsWindow'
  BY <1>1, <1>8, RecordsStay
<1>13. Shape'
  BY <1>1, <1>4, <1>7, <1>8 DEF Shape, At
<1>14. PlannedIsNew' /\ PlannedAsNamed'
  BY <1>4, <1>7, <1>1 DEF PlannedIsNew, PlannedAsNamed, At
<1>15. AskedUnrecorded'
  <2>1. search'.pc = "keep" => Head(search'.tasks) \in session'.exhausted
    BY <1>1, <1>4, <1>7, <1>8 DEF h
  <2>2. ASSUME NEW s \in Sources \ session'.exhausted
        PROVE  asked[s] <= failures * Named(s) + (IF s \in ToSet(search'.tasks) THEN Named(s) ELSE 0)
    <3>1. s \in Sources \ session.exhausted /\ s # h
      BY <1>8
    <3>2. s \in ToSet(search.tasks) => s \in ToSet(search'.tasks)
      BY <1>1, <1>4, <1>7, <3>1
    <3>3. asked[s] <= failures * Named(s) + (IF s \in ToSet(search.tasks) THEN Named(s) ELSE 0)
      BY <1>1, <3>1 DEF AskedUnrecorded
    <3>4. ToSet(search'.tasks) \subseteq ToSet(search.tasks)
      BY <1>1, <1>4, <1>7
    <3>5. s \in ToSet(search.tasks) <=> s \in ToSet(search'.tasks)
      BY <3>2, <3>4
    <3>6. QED
      BY <3>3, <3>5
  <2>3. search'.pc \in {"read", "record", "keep"}
    BY <1>1, <1>4, <1>7
  <2>4. QED
    BY <1>1, <1>9, <2>1, <2>2, <2>3 DEF AskedUnrecorded, At, Named, ForJobs
<1>16. Progress'
  <2>1. h \notin search.known /\ search.known \subseteq session.exhausted
    BY <1>1, <1>5 DEF Progress, At
  <2>2. session'.exhausted # search'.known /\ search'.known \subseteq session'.exhausted
    BY <1>1, <1>7, <1>8, <2>1
  <2>3. \A s \in ToSet(search'.tasks) : s \notin search'.known
    BY <1>1, <1>4, <1>7 DEF Progress, At
  <2>4. search'.pc # "plan"
    BY <1>1, <1>4, <1>7
  <2>5. QED
    BY <2>2, <2>3, <2>4 DEF Progress, At
<1>17. RanksWhenRead'
  BY <1>1, <1>4, <1>7 DEF RanksWhenRead, At
<1>18. QED
  BY <1>10, <1>11, <1>12, <1>13, <1>14, <1>15, <1>16, <1>17

LEMMA KeepKeeps ==
  ASSUME Inv, KeepEvidence
  PROVE  Inv'
<1> USE DEF Inv
<1> DEFINE h == Head(search.tasks)
           rest == Tail(search.tasks)
           found == search.found \cup search.answer.found
           a == [search EXCEPT !.pc = "read"]
           b == [a EXCEPT !.tasks = rest]
           e == [b EXCEPT !.found = found]
<1>1. /\ search.pc = "keep" /\ search.tasks # <<>>
      /\ search' = e
      /\ UNCHANGED <<setting, session, page, tally>>
  <2>1. search.pc = "keep"
    BY DEF KeepEvidence, At
  <2>2. search.tasks # <<>>
    BY <2>1 DEF Shape, At
  <2>3. search \in Searches
    BY DEF TypeOK
  <2>4. search' = e
    BY <2>3 DEF KeepEvidence, Searches
  <2>5. QED
    BY <2>1, <2>2, <2>4 DEF KeepEvidence
<1>2. /\ search \in Searches /\ search.tasks \in Seq(Sources)
      /\ found \in SUBSET Candidates
  BY Numbers
<1>3. rest \in Seq(Sources) /\ ToSet(search.tasks) = {h} \cup ToSet(rest)
  BY <1>1, <1>2, TailIs
<1>4. h \in session.exhausted
  BY <1>1 DEF AskedUnrecorded, At
<1> HIDE DEF h, rest, found
<1>5. a \in Searches /\ a.pc = "read" /\ a.offset = search.offset /\ a.known = search.known /\ a.calls = search.calls
  BY <1>2 DEF Searches
<1> HIDE DEF a
<1>6. /\ b \in Searches /\ b.pc = "read" /\ b.offset = search.offset /\ b.known = search.known
      /\ b.calls = search.calls /\ b.tasks = rest
  BY <1>3, <1>5 DEF Searches
<1> HIDE DEF b
<1>7. /\ e \in Searches /\ e.pc = "read" /\ e.offset = search.offset /\ e.known = search.known
      /\ e.calls = search.calls /\ e.tasks = rest
  BY <1>2, <1>6 DEF Searches
<1> HIDE DEF e
<1>8. UNCHANGED <<counted, made, asked, searches, failures>>
  BY <1>1 DEF tally
<1>9. TypeOK'
  BY <1>1, <1>7, <1>8 DEF TypeOK
<1>10. CallsAreReserved'
  BY <1>1, <1>7, <1>8, AskedStays DEF CallsAreReserved, At
<1>11. SavedFit' /\ WalkIsWindow'
  BY <1>1, RecordsStay
<1>12. Shape'
  BY <1>1, <1>7 DEF Shape, At
<1>13. PlannedIsNew' /\ PlannedAsNamed'
  BY <1>1, <1>7 DEF PlannedIsNew, PlannedAsNamed, At
<1>14. AskedUnrecorded'
  <2>1. ASSUME NEW s \in Sources \ session.exhausted
        PROVE  asked[s] <= failures * Named(s) + (IF s \in ToSet(rest) THEN Named(s) ELSE 0)
    <3>1. s \in ToSet(search.tasks) <=> s \in ToSet(rest)
      BY <1>3, <1>4, <2>1
    <3>2. asked[s] <= failures * Named(s) + (IF s \in ToSet(search.tasks) THEN Named(s) ELSE 0)
      BY <1>1, <2>1 DEF AskedUnrecorded
    <3>3. QED
      BY <3>1, <3>2
  <2>2. QED
    BY <1>1, <1>7, <1>8, <2>1 DEF AskedUnrecorded, At, Named, ForJobs
<1>15. Progress'
  <2>1. h \notin search.known
    BY <1>1, <1>3 DEF Progress, At
  <2>2. session.exhausted # search.known
    BY <1>4, <2>1
  <2>3. QED
    BY <1>1, <1>3, <1>7, <2>2 DEF Progress, At
<1>16. RanksWhenRead'
  BY <1>1, <1>7 DEF RanksWhenRead, At
<1>17. QED
  BY <1>9, <1>10, <1>11, <1>12, <1>13, <1>14, <1>15, <1>16

\* The answers are read: the search goes on to rank, with more calls or without.
LEMMA GoesOnToRank ==
  ASSUME Inv, At("read"), search.tasks = <<>>, NEW calls \in Nat, calls <= session.remaining,
         NEW found \in SUBSET Candidates,
         search' = [search EXCEPT !.pc = "rank", !.calls = @ + calls, !.found = @ \cup found],
         session' = Reserved(calls), made' = made + calls,
         UNCHANGED <<setting, page, counted, asked, searches, failures>>
  PROVE  Inv'
<1> USE DEF Inv
<1> DEFINE all == search.calls + calls
           union == search.found \cup found
           a == [search EXCEPT !.pc = "rank"]
           b == [a EXCEPT !.calls = all]
           e == [b EXCEPT !.found = union]
<1>1. search.pc = "read" /\ search' = e
  <2>1. search \in Searches
    BY DEF TypeOK
  <2>2. QED
    BY <2>1 DEF Searches, At
<1>2. /\ search \in Searches /\ session \in Session
      /\ search.calls \in 0..Budget /\ Budget \in Nat /\ session.remaining \in 0..Budget
      /\ counted \in 0..Budget /\ made \in 0..Budget /\ union \in SUBSET Candidates
  BY Numbers
<1>3. /\ counted + search.calls <= Budget - session.remaining
      /\ made + 0 <= Budget - session.remaining
      /\ AskedWithin
  BY <1>1 DEF CallsAreReserved, At
<1>4. all \in 0..Budget /\ counted + all <= Budget - (session.remaining - calls)
  BY <1>2, <1>3
<1>5. made' \in 0..Budget /\ made' + 0 <= Budget - (session.remaining - calls)
  BY <1>1, <1>2, <1>3
<1> HIDE DEF all, union
<1>6. a \in Searches /\ a.pc = "rank" /\ a.tasks = search.tasks /\ a.offset = search.offset /\ a.known = search.known
  BY <1>2 DEF Searches
<1> HIDE DEF a
<1>7. /\ b \in Searches /\ b.pc = "rank" /\ b.tasks = search.tasks /\ b.offset = search.offset
      /\ b.known = search.known /\ b.calls = all
  BY <1>4, <1>6 DEF Searches
<1> HIDE DEF b
<1>8. /\ e \in Searches /\ e.pc = "rank" /\ e.tasks = search.tasks /\ e.offset = search.offset
      /\ e.known = search.known /\ e.calls = all
  BY <1>2, <1>7 DEF Searches
<1> HIDE DEF e
<1>9. /\ session' \in Session /\ session'.records = session.records
      /\ session'.remaining = session.remaining - calls
      /\ session'.exhausted = session.exhausted
  BY <1>2, ReservedIs
<1>10. TypeOK'
  BY <1>1, <1>5, <1>8, <1>9 DEF TypeOK
<1>11. CallsAreReserved'
  <2>1. search'.pc # "plan" /\ search'.calls = all
    BY <1>1, <1>8
  <2>2. QED
    BY <1>3, <1>4, <1>5, <1>9, <2>1, AskedStays DEF CallsAreReserved, At
<1>12. SavedFit' /\ WalkIsWindow'
  BY <1>9, RecordsStay
<1>13. Shape'
  BY <1>1, <1>8, <1>9 DEF Shape, At
<1>14. PlannedIsNew' /\ PlannedAsNamed'
  BY <1>1, <1>8 DEF PlannedIsNew, PlannedAsNamed, At
<1>15. AskedUnrecorded'
  BY <1>1, <1>8, <1>9, EmptyIs DEF AskedUnrecorded, At, Named, ForJobs
<1>16. Progress'
  <2>1. \/ session.exhausted # search.known
        \/ Everything \subseteq search.known
        \/ session.remaining = 0
    BY <1>1 DEF Progress, At
  <2>2. session.remaining = 0 => session'.remaining = 0
    BY <1>2, <1>9
  <2>3. QED
    BY <1>1, <1>8, <1>9, <2>1, <2>2 DEF Progress, At, Everything, ForJobs
<1>17. RanksWhenRead'
  BY <1>1, <1>8 DEF RanksWhenRead, At
<1>18. QED
  BY <1>10, <1>11, <1>12, <1>13, <1>14, <1>15, <1>16, <1>17

LEMMA DiscoverKeeps ==
  ASSUME Inv, NEW pages \in SUBSET Web, NEW n \in Nat, NEW again \in Nat,
         Discovered(pages, n, again)
  PROVE  Inv'
<1> DEFINE calls == 1 + n + again
<1>1. calls \in Nat /\ calls <= session.remaining
  BY DEF Discovered
<1>2. PICK kept \in SUBSET pages :
        search' = [search EXCEPT !.pc = "rank", !.calls = @ + calls, !.found = @ \cup kept]
  BY DEF Discovered
<1>3. kept \in SUBSET Candidates
  BY SourceAssumption
<1>4. /\ At("read") /\ search.tasks = <<>>
      /\ session' = Reserved(calls) /\ made' = made + calls
      /\ UNCHANGED <<setting, page, counted, asked, searches, failures>>
  BY DEF Discovered
<1> HIDE DEF calls
<1>5. QED
  BY <1>1, <1>2, <1>3, <1>4, GoesOnToRank

LEMMA NoDiscoveryKeeps ==
  ASSUME Inv, NoDiscovery
  PROVE  Inv'
<1>1. /\ At("read") /\ search.tasks = <<>>
      /\ search' = [search EXCEPT !.pc = "rank"]
      /\ UNCHANGED <<setting, session, page, tally>>
  BY DEF NoDiscovery
<1>2. /\ search \in Searches /\ session \in Session /\ search.calls \in Nat
      /\ made \in Nat /\ session.remaining \in Nat
  BY Numbers DEF Inv
<1>3. search.calls + 0 = search.calls /\ made + 0 = made /\ search.found \cup {} = search.found
  BY <1>2
<1>4. search' = [search EXCEPT !.pc = "rank", !.calls = @ + 0, !.found = @ \cup {}]
  BY <1>1, <1>2, <1>3 DEF Searches
<1>5. Min({0, session.remaining}) = 0 /\ session.remaining - 0 = session.remaining
  BY <1>2, MinOfTwo
<1>6. session' = Reserved(0)
  BY <1>1, <1>2, <1>5 DEF Reserved, Session
<1>7. made' = made + 0 /\ UNCHANGED <<setting, page, counted, asked, searches, failures>>
  BY <1>1, <1>3 DEF tally
<1>8. 0 \in Nat /\ 0 <= session.remaining /\ {} \in SUBSET Candidates
  BY <1>2
<1>9. QED
  BY <1>1, <1>4, <1>6, <1>7, <1>8, GoesOnToRank

\* What was allowed before one more failure is allowed after it.
LEMMA OnceMore ==
  ASSUME NEW n \in Nat, NEW f \in Nat, NEW a \in Nat, a <= (1 + f) * n
  PROVE  a <= (1 + (f + 1)) * n
<1> DEFINE most == (1 + f) * n
           all == (1 + (f + 1)) * n
<1>1. most \in Nat /\ all = most + n
  OBVIOUS
<1> HIDE DEF most, all
<1>2. a <= most
  BY DEF most
<1>3. a <= all
  BY <1>1, <1>2
<1>4. QED
  BY <1>3 DEF all

LEMMA RaiseKeeps ==
  ASSUME Inv, Raise
  PROVE  Inv'
<1> USE DEF Inv
<1>1. /\ search.pc # "idle" /\ failures < MaxFailures /\ failures' = failures + 1
      /\ search' = NoSearch
      /\ UNCHANGED <<setting, session, page, counted, made, asked, searches>>
  BY DEF Raise, At
<1>2. /\ NoSearch \in Searches /\ NoSearch.pc = "idle" /\ NoSearch.tasks = <<>> /\ NoSearch.calls = 0
  BY NoSearchFits DEF NoSearch
<1>3. /\ Budget \in Nat /\ session.remaining \in 0..Budget /\ counted \in 0..Budget /\ made \in 0..Budget
      /\ search.calls \in 0..Budget /\ Len(search.tasks) \in Nat
      /\ failures \in 0..MaxFailures /\ MaxFailures \in Nat /\ asked \in [Sources -> Nat]
  BY Numbers
<1>4. /\ made + (IF search.pc = "plan" THEN Len(search.tasks) ELSE 0) <= Budget - session.remaining
      /\ counted + search.calls <= Budget - session.remaining
  BY DEF CallsAreReserved, At
<1>5. made + 0 <= Budget - session.remaining /\ counted + 0 <= Budget - session.remaining
  BY <1>3, <1>4
<1>6. TypeOK'
  <2>1. failures' \in 0..MaxFailures
    BY <1>1, <1>3
  <2>2. QED
    BY <1>1, <1>2, <2>1 DEF TypeOK
<1>7. CallsAreReserved'
  <2>1. ASSUME NEW s \in Sources PROVE asked[s] <= (1 + (failures + 1)) * Named(s)
    <3>1. asked[s] <= (1 + failures) * Named(s) /\ asked[s] \in Nat
      BY <1>3 DEF CallsAreReserved, AskedWithin
    <3>2. QED
      BY <1>3, <3>1, NamedIs, OnceMore
  <2>2. AskedWithin'
    BY <1>1, <2>1 DEF AskedWithin, Named, ForJobs
  <2>3. QED
    BY <1>1, <1>2, <1>5, <2>2 DEF CallsAreReserved, At
<1>8. SavedFit' /\ WalkIsWindow'
  BY <1>1, RecordsStay
<1>9. Shape'
  BY <1>1, <1>2 DEF Shape, At
<1>10. PlannedIsNew' /\ PlannedAsNamed'
  BY <1>1, <1>2 DEF PlannedIsNew, PlannedAsNamed, At
<1>11. AskedUnrecorded'
  <2>1. ASSUME NEW s \in Sources \ session.exhausted
        PROVE  asked[s] <= (failures + 1) * Named(s) + 0
    <3> DEFINE most == failures * Named(s)
               all == (failures + 1) * Named(s)
    <3>1. most \in Nat /\ Named(s) \in Nat /\ all = most + Named(s)
      BY <1>3, NamedIs
    <3>2. asked[s] \in Nat /\ (asked[s] <= most + Named(s) \/ asked[s] <= most + 0)
      BY <1>3 DEF AskedUnrecorded
    <3> HIDE DEF most, all
    <3>3. asked[s] <= all + 0
      BY <3>1, <3>2
    <3>4. QED
      BY <3>3 DEF all
  <2>3. search'.pc = "idle" /\ session' = session
    BY <1>1, <1>2
  <2>4. QED
    BY <1>1, <2>1, <2>3 DEF AskedUnrecorded, At, Named, ForJobs
<1>12. Progress'
  BY <1>1, <1>2 DEF Progress, At
<1>13. RanksWhenRead'
  BY <1>1, <1>2 DEF RanksWhenRead, At
<1>14. QED
  BY <1>6, <1>7, <1>8, <1>9, <1>10, <1>11, <1>12, <1>13

(***************************************************************************)
(* Paging.                                                                 *)
(***************************************************************************)

LEMMA ListedIs ==
  ASSUME NEW s \in Seq(Record)
  PROVE  /\ Listed(s) \in Seq(Known) /\ Len(Listed(s)) = Len(s) /\ Len(s) \in Nat
         /\ \A i \in 1..Len(s) : Listed(s)[i] = s[i].id
<1>1. Len(s) \in Nat /\ DOMAIN s = 1..Len(s) /\ \A i \in 1..Len(s) : s[i] \in Record
  BY LenProperties, ElementOfSeq
<1>2. Listed(s) = [i \in 1..Len(s) |-> s[i].id]
  BY <1>1 DEF Listed
<1>3. \A i \in 1..Len(s) : s[i].id \in Known
  BY <1>1 DEF Record
<1>4. Listed(s) \in [1..Len(s) -> Known]
  BY <1>2, <1>3
<1>5. Listed(s) \in Seq(Known) /\ Len(Listed(s)) = Len(s)
  BY <1>1, <1>4
<1>6. QED
  BY <1>1, <1>2, <1>5

LEMMA PrefixIs ==
  ASSUME NEW T, NEW s \in Seq(T), NEW q \in Nat, q <= Len(s)
  PROVE  /\ SubSeq(s, 1, q) \in Seq(T) /\ Len(SubSeq(s, 1, q)) = q
         /\ \A i \in 1..q : SubSeq(s, 1, q)[i] = s[i]
<1>1. Len(s) \in Nat /\ 1 \in Int /\ q \in Int
  BY LenProperties
<1>2. \A i \in 1..q : s[i] \in T
  BY <1>1, ElementOfSeq
<1>3. /\ SubSeq(s, 1, q) \in Seq(T)
      /\ Len(SubSeq(s, 1, q)) = IF 1 <= q THEN q - 1 + 1 ELSE 0
      /\ \A i \in 1..(q - 1 + 1) : SubSeq(s, 1, q)[i] = s[1 + i - 1]
  BY <1>1, <1>2, SubSeqProperties
<1>4. \A i \in 1..q : i \in 1..(q - 1 + 1) /\ 1 + i - 1 = i
  OBVIOUS
<1>5. Len(SubSeq(s, 1, q)) = q
  BY <1>3
<1>6. QED
  BY <1>3, <1>4, <1>5

\* The page that is shown ends where the records end or where the next one begins, and a
\* walk that goes on shows the records up to there.
LEMMA ShowsKeeps ==
  ASSUME TypeOK, NEW records \in Seq(Record), Len(records) <= Shown,
         NEW offset \in 0..Shown, Shows(records, offset), WalkIsWindow,
         offset # 0 => records = session.records \/ session.records = <<>>
  PROVE  /\ page' \in Pages
         /\ page'.whole =>
              /\ page'.next # 0 => page'.next < Len(records)
              /\ page'.shown = Listed(SubSeq(records, 1,
                                  IF page'.next = 0 THEN Len(records) ELSE page'.next))
<1> DEFINE items == Slice(records, offset + 1, offset + PageSize)
           m == Len(items)
           n == Len(records)
           next == IF offset + m < n THEN offset + m ELSE 0
           q == IF next = 0 THEN n ELSE next
           follows == offset # 0 /\ page.whole /\ offset = page.next
           shown == IF follows THEN page.shown \o Listed(items) ELSE Listed(items)
<1>1. n \in Nat /\ offset \in Nat /\ Shown \in Nat /\ PageSize \in Nat \ {0}
  BY LenProperties, SearchBounds
<1>2. offset + 1 \in Nat \ {0} /\ offset + PageSize \in Nat
  BY <1>1
<1>3. /\ items \in Seq(Record)
      /\ m = IF offset + 1 <= offset + PageSize /\ offset + 1 <= n
             THEN (IF offset + PageSize <= n THEN offset + PageSize ELSE n) - (offset + 1) + 1
             ELSE 0
      /\ \A i \in 1..m : items[i] = records[offset + 1 + i - 1]
  <2> DEFINE from == offset + 1
             to == offset + PageSize
  <2> HIDE DEF from, to
  <2>1. from \in Nat \ {0} /\ to \in Nat
    BY <1>2 DEF from, to
  <2>2. /\ Slice(records, from, to) \in Seq(Record)
        /\ Len(Slice(records, from, to)) =
             IF from <= to /\ from <= Len(records)
             THEN (IF to <= Len(records) THEN to ELSE Len(records)) - from + 1 ELSE 0
        /\ \A i \in 1..Len(Slice(records, from, to)) : Slice(records, from, to)[i] = records[from + i - 1]
    BY <2>1, SliceIs
  <2>3. QED
    BY <2>2 DEF from, to
<1>4. page' = [next |-> next, shown |-> shown, whole |-> (offset = 0 \/ follows)]
  BY DEF Shows, PageAt
<1> HIDE DEF items
<1>5. Listed(items) \in Seq(Known) /\ Len(Listed(items)) = m /\ \A i \in 1..m : Listed(items)[i] = items[i].id
  BY <1>3, ListedIs
<1>6. m \in Nat /\ (offset <= n => offset + m <= n) /\ (offset < n => m # 0)
  BY <1>1, <1>3
<1>7. \A i \in 1..m : items[i] = records[offset + i]
  <2>1. \A i \in 1..m : offset + 1 + i - 1 = offset + i
    BY <1>1, <1>6
  <2>2. QED
    BY <1>3, <2>1
<1> HIDE DEF m
<1>8. next \in 0..Shown /\ (next # 0 => next < n) /\ q \in Nat /\ q <= n
  BY <1>1, <1>6
<1>9. offset <= n => q = offset + m
  BY <1>1, <1>6
<1> HIDE DEF next, q, n
<1>10. /\ SubSeq(records, 1, q) \in Seq(Record) /\ Len(SubSeq(records, 1, q)) = q
       /\ \A i \in 1..q : SubSeq(records, 1, q)[i] = records[i]
  BY <1>8, PrefixIs DEF n
<1>11. /\ Listed(SubSeq(records, 1, q)) \in Seq(Known) /\ Len(Listed(SubSeq(records, 1, q))) = q
       /\ \A i \in 1..q : Listed(SubSeq(records, 1, q))[i] = records[i].id
  BY <1>10, ListedIs
<1>12. page \in Pages /\ page.shown \in Seq(Known)
  BY DEF TypeOK, Pages
<1>13. CASE follows
  <2>1. records = session.records
    <3>1. session.records # <<>>
      <4>1. page.next < Len(session.records) /\ page.next = offset
        BY <1>13 DEF WalkIsWindow
      <4>2. QED
        BY <1>1, <1>13, <4>1, EmptyIs
    <3>2. QED
      BY <1>13, <3>1
  <2>2. offset < n /\ page.shown = Listed(SubSeq(records, 1, offset))
    BY <1>13, <2>1 DEF WalkIsWindow, n
  <2>3. offset \in Nat /\ offset <= Len(records)
    BY <1>1, <2>2 DEF n
  <2>4. /\ SubSeq(records, 1, offset) \in Seq(Record) /\ Len(SubSeq(records, 1, offset)) = offset
        /\ \A i \in 1..offset : SubSeq(records, 1, offset)[i] = records[i]
    BY <2>3, PrefixIs
  <2>5. Len(page.shown) = offset /\ \A i \in 1..offset : page.shown[i] = records[i].id
    BY <2>2, <2>4, ListedIs
  <2>6. shown = page.shown \o Listed(items)
    BY <1>13
  <2>7. /\ shown \in Seq(Known) /\ Len(shown) = offset + m
        /\ \A i \in 1..(offset + m) : shown[i] = IF i <= offset THEN page.shown[i] ELSE Listed(items)[i - offset]
    <3>1. /\ page.shown \o Listed(items) \in Seq(Known)
          /\ Len(page.shown \o Listed(items)) = Len(page.shown) + Len(Listed(items))
          /\ \A i \in 1..Len(page.shown) + Len(Listed(items)) :
               (page.shown \o Listed(items))[i] =
                 IF i <= Len(page.shown) THEN page.shown[i] ELSE Listed(items)[i - Len(page.shown)]
      BY <1>5, <1>12, ConcatProperties
    <3>2. Len(page.shown) = offset /\ Len(Listed(items)) = m
      BY <1>5, <2>5
    <3> HIDE DEF shown
    <3>3. QED
      BY <2>6, <3>1, <3>2
  <2>8. q = offset + m
    BY <1>9, <2>2, <1>1
  <2>9. \A i \in 1..q : shown[i] = records[i].id
    <3>1. SUFFICES ASSUME NEW i \in 1..q PROVE shown[i] = records[i].id
      OBVIOUS
    <3>2. CASE i <= offset
      <4>1. i \in 1..offset /\ i \in 1..(offset + m)
        BY <1>1, <1>6, <2>8, <3>1, <3>2
      <4> HIDE DEF shown
      <4>2. QED
        BY <2>5, <2>7, <3>2, <4>1
    <3>3. CASE ~(i <= offset)
      <4>1. i - offset \in 1..m /\ offset + (i - offset) = i /\ i \in 1..(offset + m)
        BY <1>1, <1>6, <2>8, <3>1, <3>3
      <4>2. Listed(items)[i - offset] = records[i].id
        BY <1>5, <1>7, <4>1
      <4> HIDE DEF shown
      <4>3. QED
        BY <2>7, <3>3, <4>1, <4>2
    <3>4. QED
      BY <3>2, <3>3
  <2> HIDE DEF shown
  <2>10. shown = Listed(SubSeq(records, 1, q))
    BY <1>11, <2>7, <2>8, <2>9, SeqEqual
  <2>11. QED
    BY <1>4, <1>8, <2>7, <2>10 DEF Pages, n, q
<1>14. CASE ~follows /\ offset = 0
  <2>1. shown = Listed(items)
    BY <1>14
  <2>2. q = m
    BY <1>1, <1>6, <1>9, <1>14
  <2>3. \A i \in 1..q : Listed(items)[i] = records[i].id
    <3>1. \A i \in 1..m : offset + i = i
      BY <1>6, <1>14
    <3>2. QED
      BY <1>5, <1>7, <2>2, <3>1
  <2>4. Listed(items) = Listed(SubSeq(records, 1, q))
    BY <1>5, <1>11, <2>2, <2>3, SeqEqual
  <2> HIDE DEF shown
  <2>5. QED
    BY <1>4, <1>5, <1>8, <2>1, <2>4 DEF Pages, n, q
<1>15. CASE ~follows /\ offset # 0
  <2>1. shown = Listed(items)
    BY <1>15
  <2> HIDE DEF shown
  <2>2. QED
    BY <1>4, <1>5, <1>8, <1>15, <2>1 DEF Pages
<1>16. QED
  BY <1>13, <1>14, <1>15

LEMMA TurnKeeps ==
  ASSUME Inv, NEW offset \in 0..Shown, TurnPage(offset)
  PROVE  Inv'
<1> USE DEF Inv
<1>1. /\ search.pc = "idle" /\ Shows(session.records, offset)
      /\ UNCHANGED <<setting, session, search, tally>>
  BY DEF TurnPage, At
<1>2. session.records \in Seq(Record) /\ Len(session.records) <= Shown
  BY Numbers DEF SavedFit, FitRecords
<1>3. /\ page' \in Pages
      /\ page'.whole =>
           /\ page'.next # 0 => page'.next < Len(session.records)
           /\ page'.shown = Listed(SubSeq(session.records, 1,
                               IF page'.next = 0 THEN Len(session.records) ELSE page'.next))
  BY <1>1, <1>2, ShowsKeeps
<1>4. UNCHANGED <<counted, made, asked, searches, failures>>
  BY <1>1 DEF tally
<1>5. TypeOK'
  BY <1>1, <1>3, <1>4 DEF TypeOK
<1>6. CallsAreReserved'
  BY <1>1, <1>4, AskedStays DEF CallsAreReserved, At
<1>7. SavedFit'
  BY <1>1 DEF SavedFit, FitRecords, ForJobs
<1>8. WalkIsWindow'
  BY <1>1, <1>3 DEF WalkIsWindow
<1>9. Shape' /\ PlannedIsNew' /\ PlannedAsNamed' /\ RanksWhenRead'
  BY <1>1 DEF Shape, PlannedIsNew, PlannedAsNamed, RanksWhenRead, At, ForJobs
<1>10. AskedUnrecorded'
  BY <1>1, <1>4 DEF AskedUnrecorded, At, Named, ForJobs
<1>11. Progress'
  BY <1>1 DEF Progress, At
<1>12. QED
  BY <1>5, <1>6, <1>7, <1>8, <1>9, <1>10, <1>11

(***************************************************************************)
(* Ranking.                                                                *)
(***************************************************************************)

LEMMA FitIs ==
  ASSUME TypeOK, SavedFit
  PROVE  /\ Fit \in SUBSET Known /\ IsFiniteSet(Fit) /\ Cardinality(Fit) \in Nat
         /\ \A id \in Fit : ~Conflicts(id)
         /\ ~ForJobs => \A id \in Fit : id \notin search.found => id \in Ids(session.records)
<1>1. session.records \in Seq(Record) /\ search.found \in SUBSET Candidates
  BY Numbers
<1>2. /\ DOMAIN session.records = 1..Len(session.records)
      /\ \A i \in DOMAIN session.records : session.records[i].id \in Known
  <2>1. DOMAIN session.records = 1..Len(session.records)
    BY <1>1, LenProperties
  <2>2. \A i \in 1..Len(session.records) : session.records[i] \in Record
    BY <1>1, ElementOfSeq
  <2>3. QED
    BY <2>1, <2>2 DEF Record
<1>3. Ids(session.records) \in SUBSET Known /\ \A id \in Ids(session.records) : ~Conflicts(id)
  BY <1>2 DEF Ids, SavedFit, FitRecords
<1>4. Fit \in SUBSET Known
  BY <1>1, <1>3 DEF Fit, FitJobs, FitPeople, Known
<1>5. \A id \in Fit : ~Conflicts(id)
  BY <1>3 DEF Fit, FitJobs, FitPeople
<1>6. IsFiniteSet(Known)
  <2>1. Samples \in Seq(ToSet(Samples)) /\ Len(Samples) \in Nat /\ DOMAIN Samples = 1..Len(Samples)
    BY CandidateAssumption, LenProperties
  <2>2. Samples \in [1..Len(Samples) -> ToSet(Samples)]
    BY <2>1, SeqDef
  <2>3. Samples \in Surjection(1..Len(Samples), ToSet(Samples))
    BY <2>1, <2>2 DEF Surjection, ToSet
  <2>4. IsFiniteSet(ToSet(Samples))
    BY <2>1, <2>3, CardinalityUpto, FS_Surjection
  <2>5. QED
    BY <2>4, CandidateAssumption, FS_Union DEF Known
<1>7. IsFiniteSet(Fit) /\ Cardinality(Fit) \in Nat
  BY <1>4, <1>6, FS_Subset, FS_CardinalityType
<1>8. ~ForJobs => \A id \in Fit : id \notin search.found => id \in Ids(session.records)
  BY DEF Fit, FitPeople
<1>9. QED
  BY <1>4, <1>5, <1>7, <1>8

\* A sequence lists a set: each element once, and for jobs the verified ones first.
Lists(o, S) ==
  /\ o \in Seq(Known)
  /\ \A i \in 1..Len(o) : o[i] \in S
  /\ \A i, j \in 1..Len(o) : o[i] = o[j] => i = j
  /\ \A id \in S : \E i \in 1..Len(o) : o[i] = id
  /\ ForJobs => \A i, j \in 1..Len(o) : i < j /\ Meets(o[j]) => Meets(o[i])

\* The candidates that are ranked: all that are fit, or as many as the shortlist takes.
Ranks(S) ==
  /\ S \in SUBSET Fit /\ IsFiniteSet(S) /\ Cardinality(S) \in Nat
  /\ S = Fit \/ Cardinality(S) = Shortlist
  /\ Cardinality(Fit) <= Shortlist => S = Fit

LEMMA RankingIs ==
  ASSUME TypeOK, SavedFit, NEW ranking \in Rankings
  PROVE  \E S : /\ Ranks(S)
                /\ ranking \in Seq(Known)
                /\ \A i \in 1..Len(ranking) : ranking[i] \in S
                /\ \A i, j \in 1..Len(ranking) : ranking[i] = ranking[j] => i = j
                /\ \A id \in S : \E i \in 1..Len(ranking) : ranking[i] = id
<1> DEFINE all == Cardinality(Fit)
           size == IF all <= Shortlist THEN all ELSE Shortlist
<1>1. Fit \in SUBSET Known /\ IsFiniteSet(Fit) /\ all \in Nat /\ Shortlist \in Nat
  BY FitIs, SearchBounds
<1>2. Min({all, Shortlist}) = size /\ size \in Nat
  BY <1>1, MinOfTwo
<1>3. Rankings = UNION {SetToSeqs(S) : S \in kSubset(size, Fit)}
  BY <1>2 DEF Rankings
<1> HIDE DEF size, all
<1>4. PICK S \in kSubset(size, Fit) : ranking \in SetToSeqs(S)
  BY <1>3
<1>5. S \in SUBSET Fit /\ Cardinality(S) = size
  BY <1>4 DEF kSubset
<1>6. IsFiniteSet(S) /\ S \in SUBSET Known
  BY <1>1, <1>5, FS_Subset
<1>7. S = Fit \/ Cardinality(S) = Shortlist
  <2>1. CASE all <= Shortlist
    BY <1>1, <1>5, <2>1, FS_Subset DEF size, all
  <2>2. CASE ~(all <= Shortlist)
    BY <1>5, <2>2 DEF size
  <2>3. QED
    BY <2>1, <2>2
<1>8. all <= Shortlist => S = Fit
  BY <1>1, <1>5, FS_Subset DEF size, all
<1>9. /\ ranking \in [1..size -> S]
      /\ \A i, j \in 1..size : i # j => ranking[i] # ranking[j]
  BY <1>4, <1>5 DEF SetToSeqs
<1>10. ranking \in Seq(Known) /\ Len(ranking) = size
  BY <1>2, <1>6, <1>9
<1>11. ranking \in Injection(1..size, S)
  BY <1>9 DEF Injection, IsInjective
<1>12. ranking \in Surjection(1..size, S)
  BY <1>2, <1>5, <1>6, <1>11, CardinalityUpto, FS_Injection
<1>13. \A id \in S : \E i \in 1..size : ranking[i] = id
  BY <1>12 DEF Surjection
<1>14. Ranks(S)
  BY <1>2, <1>5, <1>6, <1>7, <1>8 DEF Ranks, all
<1>15. QED
  BY <1>9, <1>10, <1>13, <1>14

LEMMA InOrderIs ==
  ASSUME NEW S, NEW r \in Seq(Known),
         \A i \in 1..Len(r) : r[i] \in S,
         \A i, j \in 1..Len(r) : r[i] = r[j] => i = j,
         \A id \in S : \E i \in 1..Len(r) : r[i] = id
  PROVE  Lists(InOrder(r), S)
<1>1. CASE ~ForJobs
  BY <1>1 DEF Lists, InOrder
<1>2. CASE ForJobs
  <2> DEFINE unmet == Known \ Met
  <2> HIDE DEF unmet
  <2> DEFINE a == Selected(r, Met)
             b == Selected(r, unmet)
             o == a \o b
  <2>0. Len(r) \in Nat /\ \A i \in 1..Len(r) : r[i] \in Known
    BY LenProperties, ElementOfSeq
  <2>1. PICK at \in [1..Len(a) -> 1..Len(r)] :
          /\ \A k \in 1..Len(a) : a[k] = r[at[k]] /\ r[at[k]] \in Met
          /\ \A k, l \in 1..Len(a) : k < l => at[k] < at[l]
          /\ \A i \in 1..Len(r) : r[i] \in Met => \E k \in 1..Len(a) : at[k] = i
    <3> DEFINE met == Met
    <3> HIDE DEF met
    <3>1. \E at \in [1..Len(Selected(r, met)) -> 1..Len(r)] :
            /\ \A k \in 1..Len(Selected(r, met)) : Selected(r, met)[k] = r[at[k]] /\ r[at[k]] \in met
            /\ \A k, l \in 1..Len(Selected(r, met)) : k < l => at[k] < at[l]
            /\ \A i \in 1..Len(r) : r[i] \in met => \E k \in 1..Len(Selected(r, met)) : at[k] = i
      BY SelectedIs
    <3>2. QED
      BY <3>1 DEF met
  <2>2. PICK bt \in [1..Len(b) -> 1..Len(r)] :
          /\ \A k \in 1..Len(b) : b[k] = r[bt[k]] /\ r[bt[k]] \in unmet
          /\ \A k, l \in 1..Len(b) : k < l => bt[k] < bt[l]
          /\ \A i \in 1..Len(r) : r[i] \in unmet => \E k \in 1..Len(b) : bt[k] = i
    BY SelectedIs
  <2>3. a \in Seq(Known) /\ b \in Seq(Known) /\ Len(a) \in Nat /\ Len(b) \in Nat
    <3>1. a \in Seq(Known) /\ b \in Seq(Known)
      BY SelectedIs
    <3> HIDE DEF a, b
    <3>2. QED
      BY <3>1, LenProperties
  <2>4. InOrder(r) = o
    BY <1>2 DEF InOrder, unmet
  <2> HIDE DEF a, b
  <2>5. /\ o \in Seq(Known) /\ Len(o) = Len(a) + Len(b)
        /\ \A i \in 1..(Len(a) + Len(b)) : o[i] = IF i <= Len(a) THEN a[i] ELSE b[i - Len(a)]
    BY <2>3, ConcatProperties
  <2> HIDE DEF o
  <2> DEFINE la == Len(a)
             lb == Len(b)
  <2>6. la \in Nat /\ lb \in Nat /\ Len(o) = la + lb
    BY <2>3, <2>5
  <2>7. \A i \in 1..Len(o) : i <= la => i \in 1..la /\ o[i] = r[at[i]] /\ o[i] \in Met /\ at[i] \in 1..Len(r)
    <3>1. SUFFICES ASSUME NEW i \in 1..Len(o), i <= la
                   PROVE  i \in 1..la /\ o[i] = r[at[i]] /\ o[i] \in Met /\ at[i] \in 1..Len(r)
      OBVIOUS
    <3>2. i \in 1..la
      BY <2>6, <3>1
    <3>3. o[i] = a[i]
      BY <2>5, <3>1
    <3>4. QED
      BY <2>1, <3>2, <3>3
  <2>8. ASSUME NEW i \in 1..Len(o), ~(i <= la)
        PROVE  i - la \in 1..lb /\ o[i] = r[bt[i - la]] /\ o[i] \in unmet /\ bt[i - la] \in 1..Len(r)
    <3>1. i - la \in 1..lb
      BY <2>6, <2>8
    <3>2. o[i] = b[i - la]
      BY <2>5, <2>8
    <3>3. QED
      BY <2>2, <3>1, <3>2
  <2>9. \A i \in 1..Len(o) : o[i] \in S
    BY <2>7, <2>8
  <2>10. ASSUME NEW k \in 1..la, NEW l \in 1..la, at[k] = at[l] PROVE k = l
    <3>1. at[k] \in Nat /\ at[l] \in Nat /\ ~(at[k] < at[l]) /\ ~(at[l] < at[k])
      BY <2>0, <2>1, <2>10
    <3>2. ~(k < l) /\ ~(l < k)
      BY <2>1, <3>1
    <3>3. QED
      BY <2>6, <3>2
  <2>11. ASSUME NEW k \in 1..lb, NEW l \in 1..lb, bt[k] = bt[l] PROVE k = l
    <3>1. bt[k] \in 1..Len(r)
      BY <2>2
    <3>2. ~(bt[k] < bt[l]) /\ ~(bt[l] < bt[k])
      BY <2>0, <2>11, <3>1
    <3>3. ~(k < l) /\ ~(l < k)
      BY <2>2, <3>2
    <3>4. QED
      BY <2>6, <3>3
  <2>12. ASSUME NEW i \in 1..Len(o), NEW j \in 1..Len(o), o[i] = o[j] PROVE i = j
    <3>1. CASE i <= la /\ j <= la
      <4>1. /\ i \in 1..la /\ at[i] \in 1..Len(r) /\ o[i] = r[at[i]]
            /\ j \in 1..la /\ at[j] \in 1..Len(r) /\ o[j] = r[at[j]]
        BY <2>7, <3>1
      <4>2. at[i] = at[j]
        BY <2>12, <4>1
      <4>3. QED
        BY <2>10, <4>1, <4>2
    <3>2. CASE ~(i <= la) /\ ~(j <= la)
      <4>1. /\ i - la \in 1..lb /\ bt[i - la] \in 1..Len(r) /\ o[i] = r[bt[i - la]]
            /\ j - la \in 1..lb /\ bt[j - la] \in 1..Len(r) /\ o[j] = r[bt[j - la]]
        BY <2>8, <3>2
      <4>2. bt[i - la] = bt[j - la]
        BY <2>12, <4>1
      <4>3. i - la = j - la
        BY <2>11, <4>1, <4>2
      <4>4. QED
        BY <2>6, <4>3
    <3>3. CASE i <= la /\ ~(j <= la)
      <4>1. o[i] \in Met /\ o[j] \notin Met
        BY <2>7, <2>8, <3>3 DEF unmet
      <4>2. QED
        BY <2>12, <4>1
    <3>4. CASE j <= la /\ ~(i <= la)
      <4>1. o[j] \in Met /\ o[i] \notin Met
        BY <2>7, <2>8, <3>4 DEF unmet
      <4>2. QED
        BY <2>12, <4>1
    <3>5. QED
      BY <3>1, <3>2, <3>3, <3>4
  <2>13. ASSUME NEW id \in S PROVE \E i \in 1..Len(o) : o[i] = id
    <3>1. PICK i \in 1..Len(r) : r[i] = id
      OBVIOUS
    <3>2. CASE r[i] \in Met
      <4>1. PICK k \in 1..la : at[k] = i
        BY <2>1, <3>2
      <4>2. k \in 1..Len(o) /\ k <= la
        BY <2>6, <4>1
      <4>3. QED
        BY <2>7, <3>1, <4>1, <4>2
    <3>3. CASE r[i] \notin Met
      <4>1. PICK k \in 1..lb : bt[k] = i
        BY <2>0, <2>2, <3>3 DEF unmet
      <4>2. la + k \in 1..Len(o) /\ ~(la + k <= la) /\ (la + k) - la = k
        BY <2>6, <4>1
      <4> DEFINE j == la + k
      <4>3. j \in 1..Len(o) /\ ~(j <= la) /\ j - la = k
        BY <4>2
      <4> HIDE DEF j
      <4>4. o[j] = r[bt[j - la]]
        BY <2>8, <4>3
      <4>5. o[j] = id
        BY <3>1, <4>1, <4>3, <4>4
      <4>6. QED
        BY <4>3, <4>5
    <3>4. QED
      BY <3>2, <3>3
  <2>14. ASSUME NEW i \in 1..Len(o), NEW j \in 1..Len(o), i < j, Meets(o[j]) PROVE Meets(o[i])
    <3>1. o[j] \in Known
      BY <2>5, ElementOfSeq
    <3>2. o[j] \in Met
      BY <2>14, <3>1 DEF Met
    <3>3. j <= la
      BY <2>8, <3>2 DEF unmet
    <3>4. i <= la
      BY <2>6, <2>14, <3>3
    <3>5. QED
      BY <2>7, <3>4 DEF Met
  <2>15. QED
    BY <2>4, <2>5, <2>9, <2>12, <2>13, <2>14 DEF Lists
<1>3. QED
  BY <1>1, <1>2

(***************************************************************************)
(* What is saved.                                                          *)
(***************************************************************************)

\* The page of records that a ranking gives: the first ones listed, as many as are shown.
FirstOf(records, o) ==
  /\ records \in Seq(Record)
  /\ Len(records) = IF Shown <= Len(o) THEN Shown ELSE Len(o)
  /\ \A i \in 1..Len(records) : records[i].id = o[i]

LEMMA LiveIs ==
  ASSUME TypeOK, SavedFit, NEW r, NEW S, Ranks(S), Lists(InOrder(r), S)
  PROVE  FirstOf(Live(r), InOrder(r))
<1> DEFINE o == InOrder(r)
<1>0. o \in Seq(Known) /\ Len(o) \in Nat /\ \A i \in 1..Len(o) : o[i] \in S
  BY LenProperties DEF Lists
<1> DEFINE ids == Slice(o, 1, Shown)
<1>1. Live(r) = [i \in DOMAIN ids |-> [id |-> ids[i], label |-> LabelOf(ids[i])]]
  BY DEF Live
<1>2. Lists(o, S)
  OBVIOUS
<1> HIDE DEF o
<1>3. /\ ids \in Seq(Known)
      /\ Len(ids) = IF 1 <= Shown /\ 1 <= Len(o) THEN (IF Shown <= Len(o) THEN Shown ELSE Len(o)) - 1 + 1 ELSE 0
      /\ \A i \in 1..Len(ids) : ids[i] = o[1 + i - 1]
  <2>1. 1 \in Nat \ {0} /\ Shown \in Nat
    BY SearchBounds
  <2>2. QED
    BY <1>0, <2>1, SliceIs
<1> HIDE DEF ids
<1>4. Len(ids) = (IF Shown <= Len(o) THEN Shown ELSE Len(o)) /\ Len(ids) \in Nat /\ Len(ids) <= Len(o)
  <2>1. Shown \in Nat \ {0}
    BY SearchBounds
  <2>2. QED
    BY <1>0, <1>3, <2>1
<1>5. \A i \in 1..Len(ids) : ids[i] = o[i] /\ i \in 1..Len(o)
  BY <1>0, <1>3, <1>4
<1>6. DOMAIN ids = 1..Len(ids)
  BY <1>3, LenProperties
<1>7. ASSUME NEW i \in 1..Len(ids) PROVE ids[i] \in Known /\ LabelOf(ids[i]) \in Labels
  <2>1. ids[i] \in S /\ ids[i] \in Fit /\ ids[i] \in Known
    BY <1>0, <1>5, FitIs DEF Ranks
  <2>2. ForJobs => LabelOf(ids[i]) \in Labels
    BY DEF LabelOf, JobLabel, Labels
  <2>3. ASSUME ~ForJobs PROVE LabelOf(ids[i]) \in Labels
    <3> DEFINE id == ids[i]
               saved == {x \in Range(session.records) : x.id = id}
    <3>1. CASE id \notin search.found
      <4>1. id \in Ids(session.records)
        BY <2>1, <2>3, <3>1, FitIs
      <4>2. /\ DOMAIN session.records = 1..Len(session.records)
            /\ \A k \in 1..Len(session.records) : session.records[k] \in Record
        BY Numbers, LenProperties, ElementOfSeq
      <4>3. PICK k \in 1..Len(session.records) : session.records[k].id = id
        BY <4>1, <4>2 DEF Ids
      <4>4. session.records[k] \in saved /\ \A x \in saved : x \in Record
        BY <4>2, <4>3 DEF Range
      <4>5. LabelOf(id) = (CHOOSE x \in saved : TRUE).label
        <5>1. LabelOf(id) = PersonLabel(id)
          BY <2>3 DEF LabelOf
        <5>2. PersonLabel(id) = (CHOOSE x \in saved : TRUE).label
          <6> HIDE DEF id
          <6>1. QED
            BY <3>1 DEF PersonLabel
        <5>3. QED
          BY <5>1, <5>2
      <4> HIDE DEF saved
      <4>6. (CHOOSE x \in saved : TRUE) \in saved
        BY <4>4
      <4>7. QED
        BY <4>4, <4>5, <4>6 DEF Record
    <3>2. CASE id \in search.found
      BY <2>3, <3>2 DEF LabelOf, PersonLabel, JobLabel, Labels
    <3>3. QED
      BY <3>1, <3>2
  <2>4. QED
    BY <2>1, <2>2, <2>3
<1>8. Live(r) = [i \in 1..Len(ids) |-> [id |-> ids[i], label |-> LabelOf(ids[i])]]
  BY <1>1, <1>6
<1>9. Live(r) \in [1..Len(ids) -> Record]
  BY <1>7, <1>8 DEF Record
<1>10. Live(r) \in Seq(Record) /\ Len(Live(r)) = Len(ids)
  BY <1>4, <1>9
<1>11. \A i \in 1..Len(ids) : Live(r)[i].id = o[i]
  BY <1>5, <1>8
<1>12. QED
  BY <1>4, <1>10, <1>11 DEF FirstOf, o

\* Records that are fit, and leave a fit one out only as they should: the last two conjuncts
\* of SavesTheBest.
BestOf(records) ==
  \A id \in Fit \ Ids(records) :
    /\ Len(records) = Shown
    /\ ForJobs /\ Meets(id) /\ Cardinality(Fit) <= Shortlist =>
         \A kept \in Ids(records) : Meets(kept)

LEMMA FirstAreBest ==
  ASSUME TypeOK, SavedFit, NEW S, Ranks(S), NEW o, Lists(o, S), NEW records, FirstOf(records, o)
  PROVE  FitRecords(records) /\ BestOf(records)
<1> DEFINE n == Len(records)
<1>1. /\ Len(o) \in Nat /\ Shown \in Nat \ {0} /\ Shortlist \in Nat /\ Shown <= Shortlist
      /\ records \in Seq(Record) /\ n = (IF Shown <= Len(o) THEN Shown ELSE Len(o))
      /\ DOMAIN records = 1..n
  <2>1. o \in Seq(Known) /\ records \in Seq(Record)
    BY DEF Lists, FirstOf
  <2>2. DOMAIN records = 1..n /\ Len(o) \in Nat
    BY <2>1, LenProperties
  <2>3. QED
    BY <2>1, <2>2, SearchBounds DEF FirstOf
<1>2. n \in Nat /\ n <= Shown /\ \A i \in 1..n : i \in 1..Len(o) /\ records[i].id = o[i]
  BY <1>1 DEF FirstOf
<1>3. \A i \in 1..n : records[i].id \in S /\ records[i].id \in Fit
  BY <1>2 DEF Lists, Ranks
<1> HIDE DEF n
<1>4. FitRecords(records)
  <2>1. Len(records) <= Shown
    BY <1>2 DEF n
  <2>2. \A i, j \in 1..n : records[i].id = records[j].id => i = j
    BY <1>2 DEF Lists
  <2>3. \A i \in 1..n : ~Conflicts(records[i].id)
    BY <1>3, FitIs
  <2>4. ForJobs => \A i, j \in 1..n : i < j /\ Meets(records[j].id) => Meets(records[i].id)
    BY <1>2 DEF Lists
  <2>5. QED
    BY <1>1, <2>1, <2>2, <2>3, <2>4 DEF FitRecords
<1>5. ASSUME NEW id \in Fit \ Ids(records), id \in S
      PROVE  \E k \in 1..Len(o) : k > Shown /\ o[k] = id
  <2>1. PICK k \in 1..Len(o) : o[k] = id
    BY <1>5 DEF Lists
  <2>2. k \notin 1..n
    BY <1>1, <1>2, <1>5, <2>1 DEF Ids
  <2>3. k > Shown
    BY <1>1, <2>2
  <2>4. QED
    BY <2>1, <2>3
<1>6. Cardinality(S) <= Len(o)
  <2>1. o \in [1..Len(o) -> S]
    <3>1. o \in Seq(Known) /\ \A i \in 1..Len(o) : o[i] \in S
      BY DEF Lists
    <3>2. QED
      BY <3>1, SeqDef
  <2>2. o \in Surjection(1..Len(o), S)
    BY <2>1 DEF Surjection, Lists
  <2>3. IsFiniteSet(1..Len(o)) /\ Cardinality(1..Len(o)) = Len(o)
    BY <1>1, CardinalityUpto
  <2>4. QED
    BY <2>2, <2>3, FS_Surjection
<1>7. ASSUME NEW id \in Fit \ Ids(records) PROVE n = Shown
  <2>1. CASE id \in S
    <3>1. PICK k \in 1..Len(o) : k > Shown
      BY <1>5, <2>1
    <3>2. QED
      BY <1>1, <3>1
  <2>2. CASE id \notin S
    <3>1. Cardinality(S) = Shortlist
      BY <2>2 DEF Ranks
    <3>2. QED
      BY <1>1, <1>6, <3>1
  <2>3. QED
    BY <2>1, <2>2
<1>8. ASSUME NEW id \in Fit \ Ids(records), ForJobs, Meets(id), Cardinality(Fit) <= Shortlist
      PROVE  \A kept \in Ids(records) : Meets(kept)
  <2>1. id \in S
    BY <1>8 DEF Ranks
  <2>2. PICK k \in 1..Len(o) : k > Shown /\ o[k] = id
    BY <1>5, <2>1
  <2>3. \A i \in 1..n : i < k
    BY <1>1, <1>2, <2>2
  <2>4. \A i \in 1..n : Meets(records[i].id)
    BY <1>2, <1>8, <2>2, <2>3 DEF Lists
  <2>5. QED
    BY <1>1, <2>4 DEF Ids
<1>9. BestOf(records)
  BY <1>7, <1>8 DEF BestOf, n
<1>10. QED
  BY <1>4, <1>9

LEMMA FilledIs ==
  ASSUME NEW live \in Seq(Record), FitRecords(live), BestOf(live)
  PROVE  Filled(live) \in Seq(Record) /\ FitRecords(Filled(live)) /\ BestOf(Filled(live))
<1> DEFINE n == Len(live)
           others == Known \ Ids(live)
<1> HIDE DEF others
<1> DEFINE rest == Selected(Samples, others)
           limit == IF n < Requested THEN Requested - n ELSE 0
           more == Slice(rest, 1, limit)
           m == Len(more)
           extra == [i \in DOMAIN more |-> [id |-> more[i], label |-> "sample"]]
           all == live \o extra
<1>1. /\ n \in Nat /\ n <= Shown /\ DOMAIN live = 1..n /\ Shown \in Nat /\ Requested \in 1..Shown
      /\ Requested <= Shown
  BY LenProperties, SearchBounds DEF FitRecords
<1>2. limit \in Nat /\ n + limit <= Shown /\ (n = Shown => limit = 0)
  <2>1. Requested \in Nat /\ n \in Nat /\ Shown \in Nat /\ Requested <= Shown /\ n <= Shown
    BY <1>1
  <2> HIDE DEF n
  <2>2. CASE n < Requested
    <3>1. limit = Requested - n /\ n # Shown
      BY <2>1, <2>2
    <3> HIDE DEF limit
    <3>2. QED
      BY <2>1, <2>2, <3>1
  <2>3. CASE ~(n < Requested)
    <3>1. limit = 0
      BY <2>3
    <3> HIDE DEF limit
    <3>2. QED
      BY <2>1, <3>1
  <2>4. QED
    BY <2>2, <2>3
<1>3. Filled(live) = all
  BY DEF Filled, others
<1>4. /\ Samples \in Seq(ToSet(Samples)) /\ Len(Samples) \in Nat
      /\ \A i \in 1..Len(Samples) : Samples[i] \in ToSet(Samples)
      /\ \A i, j \in 1..Len(Samples) : Samples[i] = Samples[j] => i = j
  <2>1. Samples \in Seq(ToSet(Samples)) /\ Len(Samples) \in Nat /\ DOMAIN Samples = 1..Len(Samples)
    BY CandidateAssumption, LenProperties
  <2>2. QED
    BY <2>1, CandidateAssumption, ElementOfSeq DEF IsInjective
<1>5. PICK at \in [1..Len(rest) -> 1..Len(Samples)] :
        /\ \A k \in 1..Len(rest) : rest[k] = Samples[at[k]] /\ Samples[at[k]] \in others
        /\ \A k, l \in 1..Len(rest) : k < l => at[k] < at[l]
  BY <1>4, SelectedIs
<1>6. rest \in Seq(ToSet(Samples)) /\ Len(rest) \in Nat
  <2>1. rest \in Seq(ToSet(Samples))
    BY <1>4, SelectedIs
  <2> HIDE DEF rest
  <2>2. QED
    BY <2>1, LenProperties
<1> HIDE DEF rest, limit
<1>7. /\ more \in Seq(ToSet(Samples)) /\ m <= limit /\ m <= Len(rest) /\ m \in Nat
      /\ \A i \in 1..m : more[i] = rest[i]
  <2>1. 1 \in Nat \ {0}
    OBVIOUS
  <2>2. /\ Slice(rest, 1, limit) \in Seq(ToSet(Samples))
        /\ Len(Slice(rest, 1, limit)) =
             IF 1 <= limit /\ 1 <= Len(rest)
             THEN (IF limit <= Len(rest) THEN limit ELSE Len(rest)) - 1 + 1 ELSE 0
        /\ \A i \in 1..Len(Slice(rest, 1, limit)) : Slice(rest, 1, limit)[i] = rest[1 + i - 1]
    BY <1>2, <1>6, <2>1, SliceIs
  <2>3. m <= limit /\ m <= Len(rest) /\ m \in Nat
    BY <1>2, <1>6, <2>2
  <2>4. \A i \in 1..m : 1 + i - 1 = i
    BY <2>3
  <2>5. QED
    BY <2>2, <2>3, <2>4
<1> HIDE DEF more
<1>8. DOMAIN more = 1..m /\ \A i \in 1..m : more[i] \in ToSet(Samples)
  BY <1>7, LenProperties, ElementOfSeq
<1> HIDE DEF m
<1>9. ASSUME NEW i \in 1..m PROVE more[i] \in others
  <2>1. i \in 1..Len(rest)
    BY <1>6, <1>7
  <2>2. QED
    BY <1>5, <1>7, <2>1
<1>10. ASSUME NEW i \in 1..m, NEW j \in 1..m, i < j PROVE more[i] # more[j]
  <2>1. i \in 1..Len(rest) /\ j \in 1..Len(rest)
    BY <1>6, <1>7
  <2>2. at[i] \in 1..Len(Samples) /\ at[j] \in 1..Len(Samples) /\ at[i] < at[j]
    BY <1>5, <1>10, <2>1
  <2>3. at[i] # at[j]
    BY <1>4, <2>2
  <2>4. more[i] = Samples[at[i]] /\ more[j] = Samples[at[j]]
    BY <1>5, <1>7, <2>1
  <2>5. QED
    BY <1>4, <2>2, <2>3, <2>4
<1>11. /\ extra \in Seq(Record) /\ Len(extra) = m /\ \A i \in 1..m : extra[i].id = more[i]
  <2>1. extra = [i \in 1..m |-> [id |-> more[i], label |-> "sample"]]
    BY <1>8
  <2>2. \A i \in 1..m : [id |-> more[i], label |-> "sample"] \in Record
    BY <1>8 DEF Record, Known, Labels
  <2>3. extra \in [1..m -> Record]
    BY <2>1, <2>2
  <2>4. extra \in Seq(Record) /\ Len(extra) = m
    BY <1>7, <2>3
  <2>5. QED
    BY <2>1, <2>4
<1> HIDE DEF extra
<1>12. /\ all \in Seq(Record) /\ Len(all) = n + m
       /\ \A i \in 1..(n + m) : all[i] = IF i <= n THEN live[i] ELSE extra[i - n]
  BY <1>11, ConcatProperties
<1> HIDE DEF all
<1>13. \A i \in 1..(n + m) : i <= n => i \in 1..n /\ all[i] = live[i]
  BY <1>1, <1>7, <1>12
<1>14. ASSUME NEW i \in 1..(n + m), ~(i <= n)
       PROVE  i - n \in 1..m /\ all[i].id = more[i - n]
  <2>1. i - n \in 1..m
    BY <1>1, <1>7, <1>14
  <2>2. QED
    BY <1>11, <1>12, <1>14, <2>1
<1>15. \A i \in 1..n : live[i].id \in Ids(live)
  BY <1>1 DEF Ids
<1>16. \A i \in 1..m : more[i] \notin Ids(live) /\ ~Conflicts(more[i]) /\ ~Meets(more[i])
  BY <1>8, <1>9, CandidateAssumption DEF others, Conflicts, Meets
<1>17. FitRecords(all)
  <2>1. n + m \in Nat /\ n + m <= Shown /\ DOMAIN all = 1..(n + m)
    <3>1. DOMAIN all = 1..(n + m)
      BY <1>12, LenProperties
    <3> HIDE DEF n
    <3>2. n + m \in Nat /\ n + m <= Shown
      BY <1>1, <1>2, <1>7
    <3>3. QED
      BY <3>1, <3>2
  <2>2. ASSUME NEW i \in 1..(n + m), NEW j \in 1..(n + m), i < j
        PROVE  all[i].id # all[j].id
    <3>1. CASE j <= n
      <4>1. i <= n
        BY <1>1, <2>2, <3>1
      <4>2. i \in 1..n /\ j \in 1..n /\ all[i] = live[i] /\ all[j] = live[j] /\ i # j
        BY <1>13, <2>2, <3>1, <4>1
      <4>3. QED
        BY <1>1, <4>2 DEF FitRecords
    <3>2. CASE ~(j <= n) /\ i <= n
      <4>1. all[i].id \in Ids(live)
        BY <1>13, <1>15, <3>2
      <4>2. all[j].id \notin Ids(live)
        BY <1>14, <1>16, <3>2
      <4>3. QED
        BY <4>1, <4>2
    <3>3. CASE ~(j <= n) /\ ~(i <= n)
      <4> DEFINE a == i - n
                 b == j - n
      <4>1. a \in 1..m /\ b \in 1..m /\ all[i].id = more[a] /\ all[j].id = more[b]
        BY <1>14, <3>3
      <4>2. a < b
        BY <1>1, <2>2
      <4> HIDE DEF a, b
      <4>3. QED
        BY <1>10, <4>1, <4>2
    <3>4. QED
      BY <3>1, <3>2, <3>3
  <2>3. \A i, j \in 1..(n + m) : all[i].id = all[j].id => i = j
    <3>1. SUFFICES ASSUME NEW i \in 1..(n + m), NEW j \in 1..(n + m), i # j PROVE all[i].id # all[j].id
      OBVIOUS
    <3>2. i < j \/ j < i
      BY <2>1, <3>1
    <3>3. QED
      BY <2>2, <3>2
  <2>4. ASSUME NEW i \in 1..(n + m) PROVE ~Conflicts(all[i].id)
    <3>1. CASE i <= n
      <4>1. i \in 1..n /\ all[i] = live[i]
        BY <1>13, <3>1
      <4>2. QED
        BY <1>1, <4>1 DEF FitRecords
    <3>2. CASE ~(i <= n)
      BY <1>14, <1>16, <3>2
    <3>3. QED
      BY <3>1, <3>2
  <2>5. ASSUME ForJobs, NEW i \in 1..(n + m), NEW j \in 1..(n + m), i < j, Meets(all[j].id)
        PROVE  Meets(all[i].id)
    <3>1. j <= n
      BY <1>14, <1>16, <2>5
    <3>2. i <= n
      BY <1>1, <2>5, <3>1
    <3>3. i \in 1..n /\ j \in 1..n /\ all[i] = live[i] /\ all[j] = live[j]
      BY <1>13, <3>1, <3>2
    <3>4. QED
      BY <1>1, <2>5, <3>3 DEF FitRecords
  <2>6. Len(all) <= Shown
    BY <1>12, <2>1
  <2>7. QED
    BY <2>1, <2>3, <2>4, <2>5, <2>6 DEF FitRecords
<1>18. BestOf(all)
  <2>1. \A i \in 1..n : all[i] = live[i] /\ i \in 1..(n + m)
    BY <1>1, <1>7, <1>12
  <2>2. DOMAIN all = 1..(n + m)
    BY <1>12, LenProperties
  <2>3. Ids(live) \subseteq Ids(all)
    BY <1>1, <2>1, <2>2 DEF Ids
  <2>4. ASSUME NEW id \in Fit \ Ids(all)
        PROVE  /\ Len(all) = Shown
               /\ ForJobs /\ Meets(id) /\ Cardinality(Fit) <= Shortlist =>
                    \A kept \in Ids(all) : Meets(kept)
    <3>1. id \in Fit \ Ids(live)
      BY <2>3, <2>4
    <3>2. n = Shown
      BY <3>1 DEF BestOf
    <3>3. m = 0
      BY <1>2, <1>7, <3>2
    <3>4. n + m = n
      BY <1>1, <3>3
    <3>5. Ids(all) = Ids(live)
      BY <1>1, <2>1, <2>2, <3>4 DEF Ids
    <3>6. QED
      BY <1>12, <3>1, <3>2, <3>4, <3>5 DEF BestOf
  <2>5. QED
    BY <2>4 DEF BestOf
<1>19. QED
  BY <1>3, <1>12, <1>17, <1>18

(***************************************************************************)
(* Saving, and the invariant.                                              *)
(***************************************************************************)

LEMMA SaveKeeps ==
  ASSUME Inv, At("rank"), NEW records \in Seq(Record), FitRecords(records), Save(records),
         UNCHANGED <<setting, made, asked, searches, failures>>
  PROVE  Inv'
<1> USE DEF Inv
<1>1. /\ search.pc = "rank" /\ session' = [session EXCEPT !.records = records]
      /\ Shows(records, search.offset)
      /\ counted' = counted + search.calls
      /\ search' = NoSearch
  BY DEF Save, At
<1>2. /\ Budget \in Nat /\ session \in Session /\ session.remaining \in 0..Budget
      /\ search.calls \in 0..Budget /\ search.offset \in 0..Shown
      /\ counted \in 0..Budget /\ made \in 0..Budget
  BY Numbers
<1>3. /\ counted + search.calls <= Budget - session.remaining
      /\ made + 0 <= Budget - session.remaining
      /\ AskedWithin
  BY <1>1 DEF CallsAreReserved, At
<1>4. counted' \in 0..Budget /\ counted' + 0 <= Budget - session.remaining
  BY <1>1, <1>2, <1>3
<1>5. /\ session' \in Session /\ session'.records = records
      /\ session'.remaining = session.remaining /\ session'.exhausted = session.exhausted
  BY <1>1, <1>2 DEF Session
<1>6. /\ NoSearch \in Searches /\ NoSearch.pc = "idle" /\ NoSearch.calls = 0
  BY NoSearchFits DEF NoSearch
<1>7. search.offset # 0 => session.records = <<>>
  BY <1>1 DEF Shape, At
<1>8. Len(records) <= Shown
  BY DEF FitRecords
<1>9. /\ page' \in Pages
      /\ page'.whole =>
           /\ page'.next # 0 => page'.next < Len(records)
           /\ page'.shown = Listed(SubSeq(records, 1,
                               IF page'.next = 0 THEN Len(records) ELSE page'.next))
  <2> DEFINE offset == search.offset
  <2>1. offset \in 0..Shown /\ Shows(records, offset) /\ (offset # 0 => session.records = <<>>)
    BY <1>1, <1>2, <1>7
  <2> HIDE DEF offset
  <2>2. QED
    BY <1>8, <2>1, ShowsKeeps
<1>10. TypeOK'
  BY <1>1, <1>4, <1>5, <1>6, <1>9 DEF TypeOK
<1>11. CallsAreReserved'
  BY <1>1, <1>3, <1>4, <1>5, <1>6, AskedStays DEF CallsAreReserved, At
<1>12. SavedFit'
  BY <1>5 DEF SavedFit, FitRecords, ForJobs
<1>13. WalkIsWindow'
  BY <1>5, <1>9 DEF WalkIsWindow
<1>14. Shape' /\ PlannedIsNew' /\ PlannedAsNamed' /\ Progress' /\ RanksWhenRead'
  BY <1>1, <1>6 DEF Shape, PlannedIsNew, PlannedAsNamed, Progress, RanksWhenRead, At
<1>15. AskedUnrecorded'
  <2>1. \A s \in Sources \ session.exhausted : asked[s] <= failures * Named(s) + 0
    <3>1. search.tasks = <<>>
      BY <1>1 DEF RanksWhenRead, At
    <3>2. QED
      BY <1>1 DEF AskedUnrecorded, At
  <2>2. QED
    BY <1>1, <1>5, <1>6, <2>1 DEF AskedUnrecorded, At, Named, ForJobs
<1>16. QED
  BY <1>10, <1>11, <1>12, <1>13, <1>14, <1>15

\* What a search saves is fit and the best of what was found.
LEMMA RankSaves ==
  ASSUME Inv, Rank
  PROVE  \E records \in Seq(Record) :
           /\ FitRecords(records) /\ BestOf(records)
           /\ Save(records)
<1>1. TypeOK /\ SavedFit
  BY DEF Inv
<1>2. PICK r \in Rankings : LET live == Live(r)
                            IN  Save(live) \/ Save(Filled(live))
  BY DEF Rank
<1>3. PICK S : /\ Ranks(S)
               /\ r \in Seq(Known)
               /\ \A i \in 1..Len(r) : r[i] \in S
               /\ \A i, j \in 1..Len(r) : r[i] = r[j] => i = j
               /\ \A id \in S : \E i \in 1..Len(r) : r[i] = id
  BY <1>1, RankingIs
<1>4. Lists(InOrder(r), S)
  BY <1>3, InOrderIs
<1>5. FirstOf(Live(r), InOrder(r))
  BY <1>1, <1>3, <1>4, LiveIs
<1> DEFINE live == Live(r)
           o == InOrder(r)
<1>6. Save(live) \/ Save(Filled(live))
  BY <1>2
<1>7. Lists(o, S) /\ FirstOf(live, o)
  BY <1>4, <1>5
<1> HIDE DEF live, o
<1>8. FitRecords(live) /\ BestOf(live) /\ live \in Seq(Record)
  BY <1>1, <1>3, <1>7, FirstAreBest DEF FirstOf
<1>9. Filled(live) \in Seq(Record) /\ FitRecords(Filled(live)) /\ BestOf(Filled(live))
  BY <1>8, FilledIs
<1>10. QED
  BY <1>6, <1>8, <1>9

LEMMA RankKeeps ==
  ASSUME Inv, Rank
  PROVE  Inv'
<1>1. PICK records \in Seq(Record) : FitRecords(records) /\ Save(records)
  BY RankSaves
<1>2. At("rank") /\ UNCHANGED <<setting, made, asked, searches, failures>>
  BY DEF Rank
<1>3. QED
  BY <1>1, <1>2, SaveKeeps

LEMMA InitHolds ==
  ASSUME Init
  PROVE  Inv
<1>1. /\ setting \in [kind : {"job", "people"}, judge : BOOLEAN, web : BOOLEAN, render : BOOLEAN]
      /\ session = [remaining |-> Budget, records |-> <<>>, exhausted |-> {}]
      /\ search = NoSearch /\ page = NoPage
      /\ counted = 0 /\ made = 0 /\ asked = [s \in Sources |-> 0] /\ searches = 0 /\ failures = 0
  BY DEF Init
<1>2. /\ NoSearch \in Searches /\ NoSearch.pc = "idle" /\ NoSearch.calls = 0 /\ NoSearch.tasks = <<>>
  BY NoSearchFits DEF NoSearch
<1>3. /\ Budget \in Nat /\ Shown \in Nat /\ MaxSearches \in Nat /\ MaxFailures \in Nat
  BY SearchBounds
<1>4. <<>> \in Seq(Record) /\ <<>> \in Seq(Known) /\ Len(<<>>) = 0 /\ DOMAIN <<>> = {}
  BY EmptyIs
<1>5. session \in Session
  <2>1. Budget \in 0..Budget
    BY <1>3
  <2>2. QED
    BY <1>1, <1>4, <2>1 DEF Session
<1>6. page \in Pages /\ ~page.whole
  <2>1. 0 \in 0..Shown
    BY <1>3
  <2>2. QED
    BY <1>1, <1>4, <2>1 DEF Pages, NoPage
<1>7. TypeOK
  <2>1. 0 \in 0..Budget /\ 0 \in 0..MaxSearches /\ 0 \in 0..MaxFailures
    BY <1>3
  <2>2. asked \in [Sources -> Nat]
    BY <1>1
  <2>3. QED
    BY <1>1, <1>2, <1>5, <1>6, <2>1, <2>2 DEF TypeOK
<1>8. CallsAreReserved
  <2>1. Budget - session.remaining = 0
    BY <1>1, <1>3
  <2>2. AskedWithin
    <3>1. \A s \in Sources : asked[s] = 0 /\ Named(s) \in Nat /\ (1 + 0) * Named(s) = Named(s)
      BY <1>1, NamedIs
    <3>2. QED
      BY <1>1, <3>1 DEF AskedWithin
  <2>3. QED
    BY <1>1, <1>2, <2>1, <2>2 DEF CallsAreReserved, At
<1>9. SavedFit
  <2>1. session.records = <<>>
    BY <1>1
  <2>2. QED
    BY <1>3, <1>4, <2>1 DEF SavedFit, FitRecords
<1>10. Shape /\ PlannedIsNew /\ PlannedAsNamed /\ Progress /\ RanksWhenRead
  BY <1>1, <1>2 DEF Shape, PlannedIsNew, PlannedAsNamed, Progress, RanksWhenRead, At
<1>11. AskedUnrecorded
  <2>1. \A s \in Sources : asked[s] = 0 /\ Named(s) \in Nat /\ 0 * Named(s) + 0 = 0
    BY <1>1, NamedIs
  <2>2. QED
    BY <1>1, <1>2, <2>1 DEF AskedUnrecorded, At
<1>12. WalkIsWindow
  BY <1>6 DEF WalkIsWindow
<1>13. QED
  BY <1>7, <1>8, <1>9, <1>10, <1>11, <1>12 DEF Inv

LEMMA StutterKeeps ==
  ASSUME Inv, UNCHANGED vars
  PROVE  Inv'
<1>1. UNCHANGED <<setting, session, search, page, counted, made, asked, searches, failures>>
  BY DEF vars, tally
<1>2. TypeOK'
  BY <1>1 DEF Inv, TypeOK
<1>3. Shape' /\ PlannedIsNew' /\ RanksWhenRead'
  BY <1>1 DEF Inv, Shape, PlannedIsNew, RanksWhenRead, At, ForJobs
<1>7. CallsAreReserved' /\ PlannedAsNamed' /\ AskedUnrecorded'
  <2>1. CallsAreReserved'
    BY <1>1, AskedStays DEF Inv, CallsAreReserved, At
  <2>2. PlannedAsNamed' /\ AskedUnrecorded'
    BY <1>1 DEF Inv, PlannedAsNamed, AskedUnrecorded, At, Named, ForJobs
  <2>3. QED
    BY <2>1, <2>2
<1>4. Progress'
  BY <1>1 DEF Inv, Progress, At, Everything, ForJobs
<1>5. SavedFit' /\ WalkIsWindow'
  BY <1>1, RecordsStay DEF Inv
<1>6. QED
  BY <1>2, <1>3, <1>4, <1>5, <1>7 DEF Inv

LEMMA NextKeeps ==
  ASSUME Inv, [Next]_vars
  PROVE  Inv'
<1>1. ASSUME NEW offset \in 0..Shown,
             TurnPage(offset) \/ StartJobSearch(offset) \/ StartPeopleSearch(offset)
      PROVE  Inv'
  BY <1>1, TurnKeeps, StartKeeps
<1>2. CASE SkipClosed \/ PlanSource \/ PlanRegister \/ Fetch
  BY <1>2, SkipKeeps, PlanKeeps, FetchKeeps
<1>3. ASSUME NEW listed \in SUBSET Candidates, NEW rendered \in BOOLEAN, ReadAnswer(listed, rendered)
      PROVE  Inv'
  BY <1>3, ReadKeeps
<1>4. ASSUME NEW listed \in SUBSET Candidates, ReadRegister(listed) PROVE Inv'
  BY <1>4, RegisterKeeps
<1>5. ASSUME NEW late \in BOOLEAN, ReadNothing(late) PROVE Inv'
  BY <1>5, NothingKeeps
<1>6. CASE RecordSource \/ KeepEvidence
  BY <1>6, RecordKeeps, KeepKeeps
<1>7. ASSUME NEW pages \in SUBSET Web, NEW n \in 0..Cardinality(Web),
             DiscoverJobs(pages, n) \/ \E again \in 0..n : DiscoverPeople(pages, n, again)
      PROVE  Inv'
  <2>1. n \in Nat /\ 0 \in Nat /\ \A again \in 0..n : again \in Nat
    BY <1>7
  <2>2. \E again \in Nat : Discovered(pages, n, again)
    BY <1>7, <2>1 DEF DiscoverJobs, DiscoverPeople
  <2>3. QED
    BY <2>1, <2>2, DiscoverKeeps
<1>8. CASE NoDiscovery \/ Rank
  BY <1>8, NoDiscoveryKeeps, RankKeeps
<1>9. CASE Raise
  BY <1>9, RaiseKeeps
<1>10. CASE UNCHANGED vars
  BY <1>10, StutterKeeps
<1>11. CASE Step
  BY <1>11, <1>2, <1>3, <1>4, <1>5, <1>6, <1>7, <1>8 DEF Step
<1>12. QED
  BY <1>1, <1>9, <1>10, <1>11 DEF Next

THEOREM InvHolds == Spec => []Inv
<1>1. Init => Inv
  BY InitHolds
<1>2. Inv /\ [Next]_vars => Inv'
  BY NextKeeps
<1>3. QED
  BY <1>1, <1>2, PTL DEF Spec

(***************************************************************************)
(* The theorems.                                                           *)
(***************************************************************************)

\* Every reachable state has its type: the counters of calls, records and searches stay
\* within what the run and the session allow.
THEOREM TypeCorrect == Spec => []TypeOK
<1>1. Inv => TypeOK
  BY DEF Inv
<1>2. QED
  BY <1>1, InvHolds, PTL

\* Calls are reserved before they are made, those reported were reserved, also by searches
\* that raised half-way, and no source is asked more often than the request names it and
\* searches have raised.
THEOREM CallsReserved == Spec => []CallsAreReserved
<1>1. Inv => CallsAreReserved
  BY DEF Inv
<1>2. QED
  BY <1>1, InvHolds, PTL

\* A walk that follows the cursors to the end has shown what is saved, each record once.
THEOREM WalkComplete == Spec => []WalkShowsAll
<1>1. Inv => WalkShowsAll
  <2>1. SUFFICES ASSUME Inv, page.whole, page.next = 0
                 PROVE  page.shown = Listed(session.records)
    BY DEF WalkShowsAll
  <2>2. page.shown = Listed(SubSeq(session.records, 1, Len(session.records)))
    BY <2>1 DEF Inv, WalkIsWindow
  <2>3. session.records \in Seq(Record) /\ Len(session.records) \in Nat
    BY <2>1, Numbers, LenProperties DEF Inv
  <2> DEFINE s == session.records
             n == Len(s)
             t == SubSeq(s, 1, n)
  <2>4. s \in Seq(Record) /\ n \in Nat /\ n <= n
    BY <2>3
  <2>5. t \in Seq(Record) /\ Len(t) = Len(s) /\ \A i \in 1..Len(s) : t[i] = s[i]
    BY <2>4, PrefixIs
  <2>6. t = s
    <3> HIDE DEF s, t
    <3>1. QED
      BY <2>4, <2>5, SeqEqual
  <2>7. QED
    BY <2>2, <2>6
<1>2. QED
  BY <1>1, InvHolds, PTL

\* A search that completes with calls left has put a source on record, unless all were.
THEOREM SearchesProgress == Spec => SearchProgresses
<1>1. Inv /\ [Next]_vars =>
        [Completes /\ session.remaining > 0 =>
           \/ session.exhausted # search.known
           \/ (IF ForJobs THEN ToSet(Catalog) ELSE ToSet(Registers)) \subseteq search.known]_vars
  <2>1. SUFFICES ASSUME Inv, Completes, session.remaining > 0
                 PROVE  session.exhausted # search.known \/ Everything \subseteq search.known
    BY DEF Everything
  <2>2. search.pc = "rank" /\ search.tasks = <<>>
    BY <2>1 DEF Completes, Inv, RanksWhenRead, At
  <2>3. session.remaining # 0
    BY <2>1
  <2>4. QED
    BY <2>1, <2>2, <2>3 DEF Inv, Progress, At
<1>2. QED
  BY <1>1, InvHolds, PTL DEF Spec, SearchProgresses

LEMMA OnlyRankCompletes ==
  ASSUME Inv, [Next]_vars, Completes
  PROVE  Rank
<1>1. search.pc = "rank" /\ search'.pc = "idle" /\ failures' = failures /\ failures \in Nat
  BY Numbers DEF Completes, At, Inv
<1>2. ~UNCHANGED vars
  BY <1>1 DEF vars
<1>3. \A offset \in 0..Shown :
        ~TurnPage(offset) /\ ~StartJobSearch(offset) /\ ~StartPeopleSearch(offset)
  BY <1>1 DEF TurnPage, StartJobSearch, StartPeopleSearch, Begin, At
<1>4. ~SkipClosed /\ ~PlanSource /\ ~PlanRegister /\ ~Fetch
  BY <1>1 DEF SkipClosed, PlanSource, PlanRegister, Plan, Fetch, At
<1>5. ~RecordSource /\ ~KeepEvidence /\ ~NoDiscovery
  BY <1>1 DEF RecordSource, KeepEvidence, NoDiscovery, At
<1>6. /\ \A listed \in SUBSET Candidates, rendered \in BOOLEAN : ~ReadAnswer(listed, rendered)
      /\ \A listed \in SUBSET Candidates : ~ReadRegister(listed)
      /\ \A late \in BOOLEAN : ~ReadNothing(late)
  BY <1>1 DEF ReadAnswer, ReadRegister, ReadNothing, At
<1>7. \A pages \in SUBSET Web, n \in 0..Cardinality(Web) :
        /\ ~DiscoverJobs(pages, n)
        /\ \A again \in 0..n : ~DiscoverPeople(pages, n, again)
  BY <1>1 DEF DiscoverJobs, DiscoverPeople, Discovered, At
<1>8. ~Raise
  BY <1>1 DEF Raise
<1>9. QED
  BY <1>2, <1>3, <1>4, <1>5, <1>6, <1>7, <1>8 DEF Next, Step

\* A completed search saves records that are fit, and leaves a fit one out only for others.
THEOREM SavedBest == Spec => SavesTheBest
<1>1. ASSUME Inv, [Next]_vars, Completes
      PROVE  /\ FitRecords(session'.records)
             /\ \A id \in Fit \ Ids(session'.records) :
                  /\ Len(session'.records) = Shown
                  /\ ForJobs /\ Meets(id) /\ Cardinality(Fit) <= Shortlist =>
                       \A kept \in Ids(session'.records) : Meets(kept)
  <2>1. Rank
    BY <1>1, OnlyRankCompletes
  <2>2. PICK records \in Seq(Record) : FitRecords(records) /\ BestOf(records) /\ Save(records)
    BY <1>1, <2>1, RankSaves
  <2>3. session'.records = records
    <3>1. session \in Session /\ session' = [session EXCEPT !.records = records]
      BY <1>1, <2>2, Numbers DEF Inv, Save
    <3>2. QED
      BY <3>1 DEF Session
  <2>4. QED
    BY <2>2, <2>3 DEF BestOf
<1>2. Inv /\ [Next]_vars =>
        [Completes =>
           /\ FitRecords(session'.records)
           /\ \A id \in Fit \ Ids(session'.records) :
                /\ Len(session'.records) = Shown
                /\ ForJobs /\ Meets(id) /\ Cardinality(Fit) <= Shortlist =>
                     \A kept \in Ids(session'.records) : Meets(kept)]_vars
  BY <1>1
<1>3. QED
  BY <1>2, InvHolds, PTL DEF Spec, SavesTheBest
=============================================================================
