------------------------ MODULE RetrievalCorpusProofs ------------------------
(***************************************************************************)
(* Theorems about RetrievalCorpus, for every number of calls, any texts,   *)
(* batches, versions and failures, and every size of a ranking that the    *)
(* constant of the fusion allows.                                          *)
(***************************************************************************)
EXTENDS RetrievalCorpus, FiniteSetTheorems, FunctionTheorems, SequenceTheorems, TLAPS

(***************************************************************************)
(* The inductive invariant.                                                *)
(***************************************************************************)

Indexing(w) == work[w].pc \in {"chunk", "upsert", "gather", "embed", "store"}

\* The place of a piece in its source.
Place(u)          == <<u.source, u.index>>
PlacesDiffer(seq) == \A m, n \in DOMAIN seq : Place(seq[m]) = Place(seq[n]) => m = n

\* One text is indexed: its pieces are counted from zero.
TextWork(j) ==
  /\ Len(j.items) = 1 /\ j.plan \in Seq(Chunks) /\ j.plan # <<>>
  /\ \A n \in DOMAIN j.placed :
       j.placed[n].source = j.items[1].source /\ j.placed[n].index = n - 1
  /\ j.pc = "upsert" =>
       /\ Len(j.units) = 1
       /\ j.units[1].source = j.items[1].source /\ j.units[1].index = Len(j.placed)

\* Several texts are indexed: their chunks are gathered, given vectors, and stored.
BatchWork(j) ==
  LET sources == {j.items[i].source : i \in DOMAIN j.items} IN
  /\ PlacesDiffer(j.units) /\ PlacesDiffer(j.placed)
  /\ \A n \in DOMAIN j.units : j.units[n].source \in sources
  /\ j.pc = "gather" =>
       /\ j.plan \in Seq(Item) /\ j.plan # <<>>
       /\ \A i \in DOMAIN j.plan : j.plan[i].source \in sources
       /\ \A i, k \in DOMAIN j.plan : j.plan[i].source = j.plan[k].source => i = k
       /\ \A n \in DOMAIN j.units, i \in DOMAIN j.plan : j.units[n].source # j.plan[i].source
  /\ j.pc # "gather" => j.units # <<>>
  /\ j.pc # "store" => j.placed = <<>> /\ j.own = {}
  /\ \A m \in DOMAIN j.placed, n \in DOMAIN j.units : Place(j.placed[m]) # Place(j.units[n])

ShapeOf(j) ==
  /\ j.pc = "idle" => j.items = <<>>
  /\ j.pc \in {"chunk", "upsert"} => TextWork(j)
  /\ j.pc \in {"gather", "embed", "store"} => BatchWork(j)
  /\ j.pc \notin {"search", "hits"} => j.sparse = NoRanking /\ j.dense = NoRanking
  /\ j.sparse # NoRanking => IsInjective(j.sparse) /\ Len(j.sparse) <= Limit
  /\ j.dense # NoRanking => IsInjective(j.dense) /\ Len(j.dense) <= Limit

Base ==
  /\ TypeOK
  /\ \A w \in Workers : ShapeOf(work[w])
  /\ backfill.vector => backfill.todo # <<>>

\* No two rows are of the same version of the same piece.
RowsDiffer ==
  \A i, j \in DOMAIN rows :
    /\ Place(rows[i]) = Place(rows[j]) /\ rows[i].version = rows[j].version
    /\ rows[i].chunk = rows[j].chunk
    => i = j

\* Two calls on one source both know it.
CrossingsSeen ==
  \A w, o \in Workers : w # o => WorksOn(w) \cap WorksOn(o) \subseteq work[w].crossed

\* Nobody indexes a source whose last call ended.
AloneIsQuiet ==
  \A s \in Sources : last[s].alone => \A w \in Workers : Indexing(w) => s \notin WorksOn(w)

\* The sources of a call that are still to be gathered, and those it has for itself.
Left(w) == IF At(w, "gather") THEN {work[w].plan[i].source : i \in DOMAIN work[w].plan} ELSE {}
Mine(w) == WorksOn(w) \ (work[w].crossed \cup Left(w))

\* A source has the rows of these pieces, all of one version.
ActiveOf(R, s)      == {i \in DOMAIN R : R[i].active /\ R[i].source = s}
RowPieces(R, s)     == {<<R[i].index, R[i].chunk>> : i \in ActiveOf(R, s)}
PiecesOf(pieces, s) == {<<pieces[n].index, pieces[n].chunk>> : n \in Of(pieces, s)}
HasOnly(R, s, v, pieces) ==
  /\ \A i \in ActiveOf(R, s) : R[i].version = v
  /\ RowPieces(R, s) = PiecesOf(pieces, s)

\* A source that a call has for itself has the rows that the call stored.
RowsAreMine ==
  \A w \in Workers : Indexing(w) =>
    \A s \in Mine(w) : HasOnly(rows, s, work[w].version, work[w].placed)

(***************************************************************************)
(* Sequences.                                                              *)
(***************************************************************************)

LEMMA MinOfTwo ==
  ASSUME NEW a \in Int, NEW b \in Int
  PROVE  Min({a, b}) = IF a <= b THEN a ELSE b
<1>1. CASE a <= b
  BY <1>1 DEF Min
<1>2. CASE ~(a <= b)
  BY <1>2 DEF Min
<1>3. QED
  BY <1>1, <1>2

LEMMA CardinalityUpto ==
  ASSUME NEW n \in Nat
  PROVE  IsFiniteSet(1..n) /\ Cardinality(1..n) = n
<1>1. 1 \in Int /\ n \in Int /\ (1 > n => n = 0) /\ (n - 1) + 1 = n
  OBVIOUS
<1>2. IsFiniteSet(1..n) /\ Cardinality(1..n) = IF 1 > n THEN 0 ELSE (n - 1) + 1
  BY <1>1, FS_Interval
<1>3. QED
  BY <1>1, <1>2

\* A function on the first numbers is a sequence.
LEMMA FunctionIsSequence ==
  ASSUME NEW T, NEW n \in Nat, NEW f \in [1..n -> T]
  PROVE  f \in Seq(T) /\ Len(f) = n
<1>1. f \in Seq(T)
  BY SeqDef
<1>2. 1..Len(f) = 1..n /\ Len(f) \in Nat
  BY <1>1, LenProperties
<1>3. Cardinality(1..Len(f)) = Len(f) /\ Cardinality(1..n) = n
  BY <1>2, CardinalityUpto
<1>4. QED
  BY <1>1, <1>2, <1>3

\* The first elements of a sequence.
LEMMA FirstIs ==
  ASSUME NEW T, NEW s \in Seq(T), NEW n \in Nat
  PROVE  /\ First(n, s) \in Seq(T)
         /\ Len(s) \in Nat
         /\ Len(First(n, s)) = IF n <= Len(s) THEN n ELSE Len(s)
         /\ \A i \in 1..Len(First(n, s)) : First(n, s)[i] = s[i]
<1> DEFINE end == IF n <= Len(s) THEN n ELSE Len(s)
<1>1. Len(s) \in Nat
  BY LenProperties
<1>2. Min({n, Len(s)}) = end
  BY <1>1, MinOfTwo
<1>3. First(n, s) = SubSeq(s, 1, end)
  BY <1>2 DEF First
<1>4. end \in Nat /\ end \in Int /\ 1 \in Int /\ end <= Len(s)
  BY <1>1
<1> HIDE DEF end
<1>5. \A i \in 1..end : s[i] \in T
  <2>1. \A i \in 1..end : i \in 1..Len(s)
    BY <1>1, <1>4
  <2>2. QED
    BY <2>1, ElementOfSeq
<1>6. /\ SubSeq(s, 1, end) \in Seq(T)
      /\ Len(SubSeq(s, 1, end)) = IF 1 <= end THEN end - 1 + 1 ELSE 0
      /\ \A i \in 1..(end - 1 + 1) : SubSeq(s, 1, end)[i] = s[1 + i - 1]
  BY <1>4, <1>5, SubSeqProperties
<1>7. Len(SubSeq(s, 1, end)) = end /\ end - 1 + 1 = end
  BY <1>4, <1>6
<1>8. \A i \in 1..end : 1 + i - 1 = i
  BY <1>4
<1>9. \A i \in 1..end : SubSeq(s, 1, end)[i] = s[i]
  BY <1>6, <1>7, <1>8
<1>10. QED
  BY <1>1, <1>3, <1>6, <1>7, <1>9 DEF end

LEMMA TailIs ==
  ASSUME NEW T, NEW s \in Seq(T), s # <<>>
  PROVE  /\ Head(s) \in T /\ Tail(s) \in Seq(T)
         /\ Len(s) \in Nat \ {0} /\ Len(Tail(s)) = Len(s) - 1
         /\ ToSet(s) = {Head(s)} \cup ToSet(Tail(s))
<1>1. /\ Head(s) \in T /\ Tail(s) \in Seq(T) /\ Len(Tail(s)) = Len(s) - 1
      /\ \A i \in 1..Len(Tail(s)) : Tail(s)[i] = s[i + 1]
  BY HeadTailProperties
<1>2. Len(s) \in Nat \ {0} /\ DOMAIN s = 1..Len(s) /\ DOMAIN Tail(s) = 1..(Len(s) - 1)
  BY <1>1, EmptySeq, LenProperties
<1>3. Head(s) = s[1]
  BY <1>2
<1>4. \A i \in DOMAIN s : s[i] \in {Head(s)} \cup ToSet(Tail(s))
  <2>1. SUFFICES ASSUME NEW i \in DOMAIN s, i # 1 PROVE s[i] \in ToSet(Tail(s))
    BY <1>3
  <2>2. i - 1 \in 1..(Len(s) - 1) /\ (i - 1) + 1 = i
    BY <1>2, <2>1
  <2>3. s[i] = Tail(s)[i - 1]
    BY <1>1, <2>2
  <2>4. QED
    BY <1>2, <2>2, <2>3 DEF ToSet
<1>5. \A i \in DOMAIN Tail(s) : Tail(s)[i] \in ToSet(s)
  <2>1. \A i \in DOMAIN Tail(s) : i + 1 \in DOMAIN s
    BY <1>2
  <2>2. QED
    BY <1>1, <1>2, <2>1 DEF ToSet
<1>6. Head(s) \in ToSet(s)
  BY <1>2, <1>3 DEF ToSet
<1>7. QED
  BY <1>1, <1>2, <1>4, <1>5, <1>6 DEF ToSet

LEMMA AppendIs ==
  ASSUME NEW T, NEW s \in Seq(T), NEW x \in T
  PROVE  /\ Append(s, x) \in Seq(T) /\ Append(s, x) # <<>>
         /\ Len(s) \in Nat /\ Len(Append(s, x)) = Len(s) + 1
         /\ ToSet(Append(s, x)) = ToSet(s) \cup {x}
<1>1. /\ Append(s, x) \in Seq(T) /\ Len(Append(s, x)) = Len(s) + 1 /\ Len(s) \in Nat
      /\ \A i \in 1..Len(s) : Append(s, x)[i] = s[i]
      /\ Append(s, x)[Len(s) + 1] = x
  BY AppendProperties, LenProperties
<1>2. Append(s, x) # <<>>
  BY <1>1, EmptySeq
<1>3. DOMAIN s = 1..Len(s) /\ DOMAIN Append(s, x) = 1..(Len(s) + 1)
  BY <1>1, LenProperties
<1>4. \A i \in 1..(Len(s) + 1) : i \in 1..Len(s) \/ i = Len(s) + 1
  BY <1>1
<1>5. \A i \in 1..Len(s) : i \in 1..(Len(s) + 1)
  BY <1>1
<1>6. Len(s) + 1 \in 1..(Len(s) + 1)
  BY <1>1
<1>7. QED
  BY <1>1, <1>2, <1>3, <1>4, <1>5, <1>6 DEF ToSet

LEMMA EmptyIs ==
  /\ ToSet(<<>>) = {} /\ Len(<<>>) = 0 /\ DOMAIN <<>> = {}
  /\ \A T : <<>> \in Seq(T)
<1>1. \A T : <<>> \in Seq(T) /\ Len(<<>>) = 0
  BY EmptySeq
<1>2. DOMAIN <<>> = {}
  OBVIOUS
<1>3. QED
  BY <1>1, <1>2 DEF ToSet

(***************************************************************************)
(* Sorting.                                                                *)
(***************************************************************************)

\* A strict total order on a set.
Orders(S, before) ==
  /\ \A x \in S : <<x, x>> \notin before
  /\ \A x, y \in S : x # y => <<x, y>> \in before \/ <<y, x>> \in before
  /\ \A x, y, z \in S : <<x, y>> \in before /\ <<y, z>> \in before => <<x, z>> \in before

\* A set is sorted by its order: every element has one place, and comes before the greater ones.
LEMMA SortedIs ==
  ASSUME NEW S, IsFiniteSet(S), NEW before, Orders(S, before)
  PROVE  /\ Sorted(S, before) \in Seq(S)
         /\ Cardinality(S) \in Nat /\ Len(Sorted(S, before)) = Cardinality(S)
         /\ \A x \in S : \E k \in 1..Cardinality(S) : Sorted(S, before)[k] = x
         /\ \A m, n \in 1..Cardinality(S) :
              /\ Sorted(S, before)[m] = Sorted(S, before)[n] => m = n
              /\ m < n <=> <<Sorted(S, before)[m], Sorted(S, before)[n]>> \in before
<1> DEFINE card == Cardinality(S)
           under(x) == {y \in S : <<y, x>> \in before}
           rank == [x \in S |-> Cardinality(under(x))]
           at == [k \in 1..card |-> CHOOSE x \in S : Cardinality(under(x)) = k - 1]
<1>1. card \in Nat
  BY FS_CardinalityType
<1>2. \A U \in SUBSET S : /\ IsFiniteSet(U) /\ Cardinality(U) \in Nat
                          /\ Cardinality(U) <= card /\ (Cardinality(U) = card => U = S)
  <2>1. \A U \in SUBSET S : IsFiniteSet(U) /\ Cardinality(U) <= card /\ (card = Cardinality(U) => S = U)
    BY FS_Subset
  <2>2. QED
    BY <2>1, FS_CardinalityType
<1>3. \A x \in S : under(x) \in SUBSET S /\ x \notin under(x)
  BY DEF Orders
<1>4. \A x \in S : rank[x] = Cardinality(under(x))
  OBVIOUS
<1>5. ASSUME NEW x \in S, NEW y \in S, <<x, y>> \in before PROVE rank[x] < rank[y]
  <2>1. under(x) \subseteq under(y) /\ x \in under(y) /\ x \notin under(x)
    BY <1>5 DEF Orders
  <2> HIDE DEF under, rank
  <2>2. IsFiniteSet(under(y)) /\ under(x) \in SUBSET under(y) /\ under(x) # under(y)
    BY <1>2, <1>3, <2>1
  <2>3. Cardinality(under(x)) <= Cardinality(under(y)) /\ Cardinality(under(x)) # Cardinality(under(y))
    BY <2>2, FS_Subset
  <2>4. Cardinality(under(x)) \in Nat /\ Cardinality(under(y)) \in Nat
    BY <1>2, <1>3
  <2>5. QED
    BY <1>4, <2>3, <2>4
<1> DEFINE ranks == 0..(card - 1)
<1>6. ASSUME NEW x \in S PROVE rank[x] \in ranks
  <2>1. Cardinality(under(x)) # card
    BY <1>2, <1>3
  <2>2. Cardinality(under(x)) \in Nat /\ Cardinality(under(x)) <= card
    BY <1>2, <1>3
  <2> HIDE DEF under, rank, card
  <2>3. QED
    BY <1>1, <1>4, <2>1, <2>2
<1>7. rank \in Injection(S, ranks)
  <2>1. rank \in [S -> ranks]
    BY <1>6
  <2> HIDE DEF rank, under
  <2>2. \A x, y \in S : rank[x] = rank[y] => x = y
    <3>1. SUFFICES ASSUME NEW x \in S, NEW y \in S, x # y PROVE rank[x] # rank[y]
      OBVIOUS
    <3>2. rank[x] \in Nat /\ rank[y] \in Nat
      BY <1>1, <1>6
    <3>3. <<x, y>> \in before \/ <<y, x>> \in before
      BY <3>1 DEF Orders
    <3>4. QED
      BY <1>5, <3>2, <3>3
  <2>3. QED
    BY <2>1, <2>2 DEF Injection, IsInjective
<1>8. rank \in Surjection(S, ranks)
  <2>1. IsFiniteSet(ranks) /\ Cardinality(ranks) = IF 0 > card - 1 THEN 0 ELSE card - 1 - 0 + 1
    BY <1>1, FS_Interval
  <2> HIDE DEF rank, ranks
  <2>2. Cardinality(ranks) = card
    BY <1>1, <2>1
  <2>3. QED
    BY <1>7, <2>1, <2>2, FS_Injection
<1>9. \A k \in 1..card : \E x \in S : rank[x] = k - 1
  <2>1. \A k \in 1..card : k - 1 \in ranks
    BY <1>1
  <2> HIDE DEF rank, ranks
  <2>2. QED
    BY <1>8, <2>1 DEF Surjection
<1>10. ASSUME NEW k \in 1..card PROVE at[k] \in S /\ rank[at[k]] = k - 1
  <2>1. \E x \in S : Cardinality(under(x)) = k - 1
    BY <1>9
  <2>2. at[k] = CHOOSE x \in S : Cardinality(under(x)) = k - 1
    OBVIOUS
  <2>3. at[k] \in S /\ Cardinality(under(at[k])) = k - 1
    BY <2>1, <2>2
  <2>4. QED
    BY <1>4, <2>3
<1>11. Sorted(S, before) = at
  BY DEF Sorted
<1> HIDE DEF at, rank, ranks, under, card
<1>12. at \in [1..card -> S]
  BY <1>10, <1>11 DEF at
<1>13. at \in Seq(S) /\ Len(at) = card
  BY <1>1, <1>12, FunctionIsSequence
<1>14. ASSUME NEW x \in S PROVE \E k \in 1..card : at[k] = x
  <2>1. rank[x] + 1 \in 1..card /\ (rank[x] + 1) - 1 = rank[x]
    BY <1>1, <1>6 DEF ranks
  <2>2. at[rank[x] + 1] \in S /\ rank[at[rank[x] + 1]] = rank[x]
    BY <1>10, <2>1
  <2>3. at[rank[x] + 1] = x
    BY <1>7, <2>2 DEF Injection, IsInjective
  <2>4. QED
    BY <2>1, <2>3
<1>15. ASSUME NEW m \in 1..card, NEW n \in 1..card
       PROVE  (at[m] = at[n] => m = n) /\ (m < n <=> <<at[m], at[n]>> \in before)
  <2>1. at[m] \in S /\ at[n] \in S /\ rank[at[m]] = m - 1 /\ rank[at[n]] = n - 1
    BY <1>10
  <2>2. at[m] = at[n] => m = n
    BY <1>1, <2>1
  <2>3. ASSUME <<at[m], at[n]>> \in before PROVE m < n
    BY <1>1, <1>5, <2>1, <2>3
  <2>4. ASSUME m < n PROVE <<at[m], at[n]>> \in before
    <3>1. at[m] # at[n]
      BY <1>1, <2>1, <2>4
    <3>2. CASE <<at[n], at[m]>> \in before
      <4>1. n - 1 < m - 1
        BY <1>5, <2>1, <3>2
      <4>2. QED
        BY <1>1, <2>4, <4>1
    <3>3. QED
      BY <2>1, <3>1, <3>2 DEF Orders
  <2>5. QED
    BY <2>2, <2>3, <2>4
<1>16. QED
  BY <1>1, <1>11, <1>13, <1>14, <1>15 DEF card

\* Some sequence has the elements of a finite set, each once.
LEMMA SetToSeqIs ==
  ASSUME NEW S, IsFiniteSet(S)
  PROVE  /\ SetToSeq(S) \in Seq(S)
         /\ Cardinality(S) \in Nat /\ Len(SetToSeq(S)) = Cardinality(S)
         /\ IsInjective(SetToSeq(S)) /\ ToSet(SetToSeq(S)) \subseteq S
<1> DEFINE n == Cardinality(S)
           q == SetToSeq(S)
<1>1. n \in Nat /\ ExistsBijection(1..n, S)
  BY FS_CardinalityType
<1>2. \E f \in [1..n -> S] : IsInjective(f)
  BY <1>1 DEF ExistsBijection, Bijection, Injection
<1>3. q \in [1..n -> S] /\ IsInjective(q)
  BY <1>2 DEF SetToSeq
<1> HIDE DEF q
<1> HIDE DEF n
<1>4. q \in Seq(S) /\ Len(q) = n
  BY <1>1, <1>3, FunctionIsSequence
<1>5. ToSet(q) \subseteq S
  BY <1>3 DEF ToSet
<1>6. QED
  BY <1>1, <1>3, <1>4, <1>5 DEF q, n

\* An element comes in a sequence before every place where another one is.
ComesBefore(seq, i, j) == \E m \in DOMAIN seq : seq[m] = i /\ \A k \in 1..m : seq[k] # j

\* A sequence of elements of a set, none twice, in which none comes before a lesser one and
\* none that is greater is missing.
Leads(seq, S, before) ==
  /\ seq \in Seq(S) /\ IsInjective(seq)
  /\ \A j \in ToSet(seq), i \in S : <<i, j>> \in before => ComesBefore(seq, i, j)

LEMMA SortedLeads ==
  ASSUME NEW S, IsFiniteSet(S), NEW before, Orders(S, before)
  PROVE  /\ Leads(Sorted(S, before), S, before)
         /\ ToSet(Sorted(S, before)) = S
         /\ Cardinality(S) \in Nat /\ Len(Sorted(S, before)) = Cardinality(S)
<1> DEFINE q == Sorted(S, before)
           n == Cardinality(S)
<1>1. /\ q \in Seq(S) /\ n \in Nat /\ Len(q) = n
      /\ \A x \in S : \E k \in 1..n : q[k] = x
      /\ \A m, k \in 1..n : (q[m] = q[k] => m = k) /\ (m < k <=> <<q[m], q[k]>> \in before)
  BY SortedIs
<1> HIDE DEF q, n
<1>2. DOMAIN q = 1..n /\ \A k \in 1..n : q[k] \in S
  BY <1>1, LenProperties, ElementOfSeq
<1>3. IsInjective(q)
  BY <1>1, <1>2 DEF IsInjective
<1>4. ToSet(q) = S
  BY <1>1, <1>2 DEF ToSet
<1>5. ASSUME NEW j \in ToSet(q), NEW i \in S, <<i, j>> \in before PROVE ComesBefore(q, i, j)
  <2>1. PICK m \in 1..n : q[m] = i
    BY <1>1
  <2>2. PICK l \in 1..n : q[l] = j
    BY <1>2 DEF ToSet
  <2>3. m < l
    BY <1>1, <1>5, <2>1, <2>2
  <2>4. \A k \in 1..m : k \in 1..n /\ k # l
    BY <1>1, <2>1, <2>2, <2>3
  <2>5. \A k \in 1..m : q[k] # j
    BY <1>1, <2>2, <2>4
  <2>6. QED
    BY <1>2, <2>1, <2>5 DEF ComesBefore
<1>6. QED
  BY <1>1, <1>3, <1>4, <1>5 DEF Leads, q, n

LEMMA FirstLeads ==
  ASSUME NEW S, NEW before, NEW seq, Leads(seq, S, before), NEW n \in Nat
  PROVE  /\ Leads(First(n, seq), S, before)
         /\ Len(seq) \in Nat
         /\ Len(First(n, seq)) = IF n <= Len(seq) THEN n ELSE Len(seq)
         /\ ToSet(First(n, seq)) \subseteq ToSet(seq)
         /\ Len(First(n, seq)) < n => ToSet(First(n, seq)) = ToSet(seq)
<1> DEFINE q == First(n, seq)
           end == Len(First(n, seq))
<1>1. seq \in Seq(S) /\ IsInjective(seq)
  BY DEF Leads
<1>2. /\ q \in Seq(S) /\ Len(seq) \in Nat
      /\ end = IF n <= Len(seq) THEN n ELSE Len(seq)
      /\ \A i \in 1..end : q[i] = seq[i]
  BY <1>1, FirstIs
<1>3. DOMAIN q = 1..end /\ DOMAIN seq = 1..Len(seq)
  BY <1>1, <1>2, LenProperties
<1> HIDE DEF q, end
<1>4. end \in Nat /\ end <= Len(seq) /\ \A i \in 1..end : i \in 1..Len(seq)
  BY <1>2
<1>5. IsInjective(q)
  BY <1>1, <1>2, <1>3, <1>4 DEF IsInjective
<1>6. ToSet(q) \subseteq ToSet(seq)
  BY <1>2, <1>3, <1>4 DEF ToSet
<1>7. ASSUME end < n PROVE ToSet(q) = ToSet(seq)
  <2>1. end = Len(seq)
    BY <1>2, <1>7
  <2>2. QED
    BY <1>2, <1>3, <2>1 DEF ToSet
<1>8. ASSUME NEW j \in ToSet(q), NEW i \in S, <<i, j>> \in before PROVE ComesBefore(q, i, j)
  <2>1. PICK l \in 1..end : q[l] = j
    BY <1>3 DEF ToSet
  <2>2. ComesBefore(seq, i, j)
    BY <1>6, <1>8 DEF Leads
  <2>3. PICK m \in 1..Len(seq) : seq[m] = i /\ \A k \in 1..m : seq[k] # j
    BY <1>3, <2>2 DEF ComesBefore
  <2>4. seq[l] = j
    BY <1>2, <2>1
  <2>5. ~(l <= m)
    BY <2>1, <2>3, <2>4, <1>4
  <2>6. m \in 1..end /\ \A k \in 1..m : k \in 1..end
    BY <1>4, <2>1, <2>3, <2>5
  <2>7. QED
    BY <1>2, <1>3, <2>3, <2>6 DEF ComesBefore
<1>9. QED
  BY <1>2, <1>5, <1>6, <1>7, <1>8 DEF Leads, q, end

(***************************************************************************)
(* Rankings.                                                               *)
(***************************************************************************)

LEMMA RowsFinite ==
  ASSUME rows \in Seq(Row)
  PROVE  /\ Len(rows) \in Nat /\ DOMAIN rows = 1..Len(rows)
         /\ \A i \in DOMAIN rows : i \in Nat /\ rows[i] \in Row
         /\ \A S \in SUBSET DOMAIN rows : IsFiniteSet(S)
<1>1. Len(rows) \in Nat /\ DOMAIN rows = 1..Len(rows)
  BY LenProperties
<1>2. \A i \in DOMAIN rows : i \in Nat /\ rows[i] \in Row
  BY <1>1, ElementOfSeq
<1>3. IsFiniteSet(DOMAIN rows)
  BY <1>1, CardinalityUpto
<1>4. QED
  BY <1>1, <1>2, <1>3, FS_Subset

\* A ranking has rows of the set, none twice; if it is not full it has them all.
LEMMA RankingIs ==
  ASSUME rows \in Seq(Row), NEW set \in SUBSET DOMAIN rows, NEW score \in [Chunks -> Nat]
  PROVE  /\ Ranking(set, score) \in Seq(set)
         /\ IsInjective(Ranking(set, score))
         /\ Len(Ranking(set, score)) \in Nat /\ Len(Ranking(set, score)) <= Limit
         /\ Len(Ranking(set, score)) < Limit => ToSet(Ranking(set, score)) = set
<1>1. /\ \A i \in set : i \in Nat /\ rows[i].chunk \in Chunks
      /\ IsFiniteSet(set)
  BY RowsFinite DEF Row
<1>2. \A i \in set : score[rows[i].chunk] \in Nat
  BY <1>1
<1> DEFINE before == Better(set, score)
           of(i) == score[rows[i].chunk]
<1>3. \A i, j \in set : <<i, j>> \in before <=> (of(i) > of(j) \/ (of(i) = of(j) /\ i < j))
  BY DEF Better
<1> HIDE DEF before
<1>4. Orders(set, before)
  <2>1. \A i \in set : of(i) \in Nat /\ i \in Nat
    BY <1>1, <1>2
  <2> HIDE DEF of
  <2>2. \A i \in set : <<i, i>> \notin before
    BY <1>3, <2>1
  <2>3. ASSUME NEW i \in set, NEW j \in set, i # j
        PROVE  <<i, j>> \in before \/ <<j, i>> \in before
    <3>1. /\ of(i) \in Nat /\ of(j) \in Nat /\ i \in Nat /\ j \in Nat
      BY <2>1
    <3>2. \/ of(i) > of(j) \/ (of(i) = of(j) /\ i < j)
          \/ of(j) > of(i) \/ (of(j) = of(i) /\ j < i)
      BY <2>3, <3>1
    <3>3. QED
      BY <1>3, <3>2
  <2>4. ASSUME NEW i \in set, NEW j \in set, NEW k \in set,
               <<i, j>> \in before, <<j, k>> \in before
        PROVE  <<i, k>> \in before
    <3>1. /\ of(i) > of(j) \/ (of(i) = of(j) /\ i < j)
          /\ of(j) > of(k) \/ (of(j) = of(k) /\ j < k)
      BY <1>3, <2>4
    <3>2. /\ of(i) \in Nat /\ of(j) \in Nat /\ of(k) \in Nat
          /\ i \in Nat /\ j \in Nat /\ k \in Nat
      BY <2>1
    <3>3. of(i) > of(k) \/ (of(i) = of(k) /\ i < k)
      BY <3>1, <3>2
    <3>4. QED
      BY <1>3, <3>3
  <2>5. QED
    BY <2>2, <2>3, <2>4 DEF Orders
<1> DEFINE all == Sorted(set, before)
<1>5. Leads(all, set, before) /\ ToSet(all) = set
  BY <1>1, <1>4, SortedLeads
<1>6. Limit \in Nat
  BY QueryAssumption
<1> HIDE DEF all
<1>7. /\ Leads(First(Limit, all), set, before) /\ Len(all) \in Nat
      /\ Len(First(Limit, all)) = IF Limit <= Len(all) THEN Limit ELSE Len(all)
      /\ Len(First(Limit, all)) < Limit => ToSet(First(Limit, all)) = ToSet(all)
  BY <1>5, <1>6, FirstLeads
<1>8. Ranking(set, score) = First(Limit, all)
  BY DEF Ranking, all, before
<1>9. Len(First(Limit, all)) \in Nat /\ Len(First(Limit, all)) <= Limit
  BY <1>6, <1>7
<1>10. QED
  BY <1>5, <1>7, <1>8, <1>9 DEF Leads

(***************************************************************************)
(* Fusion.                                                                 *)
(***************************************************************************)

LEMMA ProductGrows ==
  ASSUME NEW a \in Nat, NEW b \in Nat, NEW c \in Nat \ {0}
  PROVE  /\ a < b <=> a * c < b * c
         /\ a <= b <=> a * c <= b * c
<1>1. CASE a = b
  BY <1>1
<1>2. CASE a < b
  <2>1. PICK d \in Nat \ {0} : b = a + d
    <3>1. b - a \in Nat \ {0} /\ b = a + (b - a)
      BY <1>2
    <3>2. QED
      BY <3>1
  <2>2. b * c = a * c + d * c /\ d * c > 0 /\ a * c \in Nat
    BY <2>1
  <2>3. QED
    BY <1>2, <2>2
<1>3. CASE b < a
  <2>1. PICK d \in Nat \ {0} : a = b + d
    <3>1. a - b \in Nat \ {0} /\ a = b + (a - b)
      BY <1>3
    <3>2. QED
      BY <3>1
  <2>2. a * c = b * c + d * c /\ d * c > 0 /\ b * c \in Nat
    BY <2>1
  <2>3. QED
    BY <1>3, <2>2
<1>4. QED
  BY <1>1, <1>2, <1>3

LEMMA TimesCommutes ==
  ASSUME NEW a \in Nat, NEW b \in Nat, NEW c \in Nat
  PROVE  /\ a * b \in Nat /\ a * b = b * a
         /\ (a * b) * c = (a * c) * b
         /\ (a * b) * c = a * (b * c)
<1>1. QED
  OBVIOUS

\* Fractions are compared by cross-multiplication.
LEMMA FractionsCompare ==
  ASSUME NEW a \in Nat \ {0}, NEW b \in Nat \ {0}, NEW c \in Nat \ {0},
         NEW d \in Nat \ {0}, NEW e \in Nat \ {0}, NEW f \in Nat \ {0},
         c * b <= a * d, e * d <= c * f
  PROVE  /\ e * b <= a * f
         /\ c * b < a * d \/ e * d < c * f => e * b < a * f
<1> DEFINE cb == c * b
           ad == a * d
           ed == e * d
           cf == c * f
           eb == e * b
           af == a * f
<1>1. /\ cb \in Nat /\ ad \in Nat /\ ed \in Nat /\ cf \in Nat /\ eb \in Nat /\ af \in Nat
  BY TimesCommutes
<1>2. ad * f = af * d
  BY TimesCommutes
<1>3. cb * f = cf * b
  BY TimesCommutes
<1>4. ed * b = eb * d
  BY TimesCommutes
<1>5. cb <= ad /\ ed <= cf
  OBVIOUS
<1> HIDE DEF cb, ad, ed, cf, eb, af
<1>6. /\ cb * f \in Nat /\ ad * f \in Nat /\ ed * b \in Nat /\ cf * b \in Nat
      /\ eb * d \in Nat /\ af * d \in Nat
  BY <1>1, TimesCommutes
<1>7. cb * f <= ad * f /\ (cb < ad => cb * f < ad * f)
  BY <1>1, <1>5, ProductGrows
<1>8. ed * b <= cf * b /\ (ed < cf => ed * b < cf * b)
  BY <1>1, <1>5, ProductGrows
<1>9. eb * d <= af * d /\ (cb < ad \/ ed < cf => eb * d < af * d)
  BY <1>2, <1>3, <1>4, <1>6, <1>7, <1>8
<1>10. eb <= af /\ (cb < ad \/ ed < cf => eb < af)
  BY <1>1, <1>9, ProductGrows
<1>11. QED
  BY <1>10 DEF cb, ad, ed, cf, eb, af

\* Where a row is in a ranking.
LEMMA PlaceIs ==
  ASSUME NEW S, NEW r \in Seq(S), Len(r) <= Limit, NEW i \in ToSet(r)
  PROVE  /\ PlaceIn(i, r) \in Nat \ {0} /\ PlaceIn(i, r) <= Limit
         /\ PlaceIn(i, r) \in DOMAIN r /\ r[PlaceIn(i, r)] = i
<1>1. \E n \in DOMAIN r : r[n] = i
  BY DEF ToSet
<1>2. PlaceIn(i, r) \in DOMAIN r /\ r[PlaceIn(i, r)] = i
  BY <1>1 DEF PlaceIn
<1>3. DOMAIN r = 1..Len(r) /\ Len(r) \in Nat /\ Limit \in Nat
  BY LenProperties, QueryAssumption
<1>4. QED
  BY <1>2, <1>3

\* The rankings of a search that has both.
Ranked(sparse, dense) ==
  /\ sparse \in Rankings /\ IsInjective(sparse) /\ Len(sparse) <= Limit
  /\ dense \in Rankings /\ IsInjective(dense) /\ Len(dense) <= Limit

LEMMA PlacesAre ==
  ASSUME NEW sparse, NEW dense, Ranked(sparse, dense)
  PROVE  /\ \A i \in ToSet(sparse) : PlaceIn(i, sparse) \in Nat \ {0} /\ PlaceIn(i, sparse) <= Limit
         /\ \A i \in ToSet(dense) : PlaceIn(i, dense) \in Nat \ {0} /\ PlaceIn(i, dense) <= Limit
         /\ K \in Nat /\ Limit \in Nat /\ Limit <= K
<1>1. sparse \in Seq(DOMAIN rows) /\ dense \in Seq(DOMAIN rows)
  BY DEF Ranked, Rankings
<1>2. QED
  BY <1>1, PlaceIs, QueryAssumption DEF Ranked

LEMMA FusionIs ==
  ASSUME NEW sparse, NEW dense, Ranked(sparse, dense),
         NEW i \in ToSet(sparse) \cup ToSet(dense)
  PROVE  Fusion(i, sparse, dense).num \in Nat \ {0} /\ Fusion(i, sparse, dense).den \in Nat \ {0}
<1> DEFINE u == PlaceIn(i, sparse)
           v == PlaceIn(i, dense)
<1>1. /\ i \in ToSet(sparse) => u \in Nat \ {0}
      /\ i \in ToSet(dense) => v \in Nat \ {0}
      /\ K \in Nat
  BY PlacesAre
<1>2. Fusion(i, sparse, dense) =
        IF i \notin ToSet(dense) THEN [num |-> 1, den |-> K + u]
        ELSE IF i \notin ToSet(sparse) THEN [num |-> 1, den |-> K + v]
        ELSE [num |-> (K + u) + (K + v), den |-> (K + u) * (K + v)]
  BY DEF Fusion
<1> HIDE DEF u, v
<1>3. /\ i \in ToSet(sparse) => K + u \in Nat \ {0}
      /\ i \in ToSet(dense) => K + v \in Nat \ {0}
  BY <1>1
<1>4. ASSUME i \in ToSet(sparse), i \in ToSet(dense)
      PROVE  (K + u) + (K + v) \in Nat \ {0} /\ (K + u) * (K + v) \in Nat \ {0}
  <2> DEFINE a == K + u
             b == K + v
  <2>1. a \in Nat \ {0} /\ b \in Nat \ {0}
    BY <1>3, <1>4
  <2> HIDE DEF a, b
  <2>2. a + b \in Nat \ {0} /\ a * b \in Nat \ {0}
    BY <2>1
  <2>3. QED
    BY <2>2 DEF a, b
<1>5. CASE i \notin ToSet(dense)
  BY <1>2, <1>3, <1>5
<1>6. CASE i \in ToSet(dense) /\ i \notin ToSet(sparse)
  BY <1>2, <1>3, <1>6
<1>7. CASE i \in ToSet(dense) /\ i \in ToSet(sparse)
  BY <1>2, <1>4, <1>7
<1>8. QED
  BY <1>5, <1>6, <1>7

\* 1 / a + 1 / b is more than 1 / c when a and b are below 2 c.
LEMMA TwoBeatOne ==
  ASSUME NEW a \in Nat \ {0}, NEW b \in Nat \ {0}, NEW c \in Nat \ {0},
         NEW k \in Nat, a <= 2 * k, b <= 2 * k, k < c
  PROVE  1 * (a * b) < (a + b) * c
<1>1. a * b <= 2 * (k * b)
  <2>1. 2 * k \in Nat
    OBVIOUS
  <2>2. a * b <= (2 * k) * b
    BY <2>1, ProductGrows
  <2>3. (2 * k) * b = 2 * (k * b)
    BY TimesCommutes
  <2>4. QED
    BY <2>2, <2>3
<1>2. b * a <= 2 * (k * a)
  <2>1. 2 * k \in Nat
    OBVIOUS
  <2>2. b * a <= (2 * k) * a
    BY <2>1, ProductGrows
  <2>3. (2 * k) * a = 2 * (k * a)
    BY TimesCommutes
  <2>4. QED
    BY <2>2, <2>3
<1>3. k * a < c * a /\ k * b < c * b
  BY ProductGrows
<1>4. /\ a * b \in Nat /\ b * a = a * b /\ k * a \in Nat /\ k * b \in Nat
      /\ c * a \in Nat /\ c * b \in Nat
  BY TimesCommutes
<1>5. (a + b) * c = c * a + c * b
  OBVIOUS
<1>6. 1 * (a * b) = a * b
  BY <1>4
<1>7. QED
  BY <1>1, <1>2, <1>3, <1>4, <1>5, <1>6

\* 1 / a + 1 / b is more than 1 / c + 1 / d when c is more than a and d more than b.
LEMMA SmallerBeat ==
  ASSUME NEW a \in Nat \ {0}, NEW b \in Nat \ {0}, NEW c \in Nat \ {0}, NEW d \in Nat \ {0},
         a < c, b < d
  PROVE  (c + d) * (a * b) < (a + b) * (c * d)
<1>1. b * (a * c) < d * (a * c) /\ a * (b * d) < c * (b * d)
  <2>1. a * c \in Nat \ {0} /\ b * d \in Nat \ {0}
    OBVIOUS
  <2>2. QED
    BY <2>1, ProductGrows
<1>2. (c + d) * (a * b) = b * (a * c) + a * (b * d)
  OBVIOUS
<1>3. (a + b) * (c * d) = d * (a * c) + c * (b * d)
  OBVIOUS
<1>4. /\ b * (a * c) \in Nat /\ a * (b * d) \in Nat
      /\ d * (a * c) \in Nat /\ c * (b * d) \in Nat
  BY TimesCommutes
<1>5. QED
  BY <1>1, <1>2, <1>3, <1>4

AheadIn(w) == {p \in Found(w) \X Found(w) : Ahead(w, p[1], p[2])}

LEMMA AheadOrders ==
  ASSUME rows \in Seq(Row), NEW w \in Workers, Ranked(work[w].sparse, DenseOf(w))
  PROVE  /\ IsFiniteSet(Found(w)) /\ Found(w) \subseteq DOMAIN rows
         /\ Orders(Found(w), AheadIn(w))
<1> DEFINE sparse == work[w].sparse
           dense == DenseOf(w)
           num == [i \in Found(w) |-> Fusion(i, sparse, dense).num]
           den == [i \in Found(w) |-> Fusion(i, sparse, dense).den]
<1>1. Found(w) \subseteq DOMAIN rows
  <2>1. sparse \in Seq(DOMAIN rows) /\ dense \in Seq(DOMAIN rows)
    BY DEF Ranked, Rankings
  <2>2. ToSet(sparse) \subseteq DOMAIN rows /\ ToSet(dense) \subseteq DOMAIN rows
    BY <2>1, LenProperties, ElementOfSeq DEF ToSet
  <2>3. QED
    BY <2>2 DEF Found
<1>2. IsFiniteSet(Found(w)) /\ \A i \in Found(w) : i \in Nat
  BY <1>1, RowsFinite
<1>3. \A i \in Found(w) : num[i] \in Nat \ {0} /\ den[i] \in Nat \ {0}
  BY FusionIs DEF Found
<1>4. \A i, j \in Found(w) :
        <<i, j>> \in AheadIn(w) <=>
          num[i] * den[j] > num[j] * den[i] \/ (num[i] * den[j] = num[j] * den[i] /\ i < j)
  BY DEF AheadIn, Ahead
<1> HIDE DEF num, den
<1>5. \A i, j \in Found(w) : num[i] * den[j] \in Nat
  BY <1>3, TimesCommutes
<1>6. ASSUME NEW i \in Found(w) PROVE <<i, i>> \notin AheadIn(w)
  BY <1>2, <1>4, <1>5
<1>7. ASSUME NEW i \in Found(w), NEW j \in Found(w), i # j
      PROVE  <<i, j>> \in AheadIn(w) \/ <<j, i>> \in AheadIn(w)
  <2>1. num[i] * den[j] \in Nat /\ num[j] * den[i] \in Nat /\ i \in Nat /\ j \in Nat
    BY <1>2, <1>5
  <2>2. \/ num[i] * den[j] > num[j] * den[i] \/ (num[i] * den[j] = num[j] * den[i] /\ i < j)
        \/ num[j] * den[i] > num[i] * den[j] \/ (num[j] * den[i] = num[i] * den[j] /\ j < i)
    BY <1>7, <2>1
  <2>3. QED
    BY <1>4, <2>2
<1>8. ASSUME NEW i \in Found(w), NEW j \in Found(w), NEW k \in Found(w),
             <<i, j>> \in AheadIn(w), <<j, k>> \in AheadIn(w)
      PROVE  <<i, k>> \in AheadIn(w)
  <2>1. /\ num[i] * den[j] \in Nat /\ num[j] * den[i] \in Nat
        /\ num[j] * den[k] \in Nat /\ num[k] * den[j] \in Nat
        /\ num[i] * den[k] \in Nat /\ num[k] * den[i] \in Nat
        /\ i \in Nat /\ j \in Nat /\ k \in Nat
    BY <1>2, <1>5
  <2>2. /\ num[i] * den[j] > num[j] * den[i] \/ (num[i] * den[j] = num[j] * den[i] /\ i < j)
        /\ num[j] * den[k] > num[k] * den[j] \/ (num[j] * den[k] = num[k] * den[j] /\ j < k)
    BY <1>4, <1>8
  <2>3. num[j] * den[i] <= num[i] * den[j] /\ num[k] * den[j] <= num[j] * den[k]
    BY <2>1, <2>2
  <2>4. /\ num[k] * den[i] <= num[i] * den[k]
        /\ num[j] * den[i] < num[i] * den[j] \/ num[k] * den[j] < num[j] * den[k]
             => num[k] * den[i] < num[i] * den[k]
    <3> DEFINE a == num[i]
               b == den[i]
               c == num[j]
               d == den[j]
               e == num[k]
               f == den[k]
    <3>1. /\ a \in Nat \ {0} /\ b \in Nat \ {0} /\ c \in Nat \ {0}
          /\ d \in Nat \ {0} /\ e \in Nat \ {0} /\ f \in Nat \ {0}
      BY <1>3
    <3>2. c * b <= a * d /\ e * d <= c * f
      BY <2>3
    <3> HIDE DEF a, b, c, d, e, f
    <3>3. e * b <= a * f /\ (c * b < a * d \/ e * d < c * f => e * b < a * f)
      BY <3>1, <3>2, FractionsCompare
    <3>4. QED
      BY <3>3 DEF a, b, c, d, e, f
  <2>5. CASE num[k] * den[i] < num[i] * den[k]
    BY <1>4, <2>1, <2>5
  <2>6. CASE ~(num[k] * den[i] < num[i] * den[k])
    <3>1. ~(num[j] * den[i] < num[i] * den[j]) /\ ~(num[k] * den[j] < num[j] * den[k])
      BY <2>4, <2>6
    <3>2. i < j /\ j < k
      BY <2>1, <2>2, <3>1
    <3>3. num[i] * den[k] = num[k] * den[i] /\ i < k
      BY <2>1, <2>4, <2>6, <3>2
    <3>4. QED
      BY <1>4, <3>3
  <2>7. QED
    BY <2>5, <2>6
<1>9. QED
  BY <1>1, <1>2, <1>6, <1>7, <1>8 DEF Orders

\* The fused rows, and the first of them.
LEMMA FusedIs ==
  ASSUME rows \in Seq(Row), NEW w \in Workers, Ranked(work[w].sparse, DenseOf(w))
  PROVE  /\ Leads(Fused(w), Found(w), AheadIn(w))
         /\ Fused(w) \in Rankings
         /\ Cardinality(Found(w)) \in Nat
         /\ Len(Fused(w)) =
              IF Limit <= Cardinality(Found(w)) THEN Limit ELSE Cardinality(Found(w))
         /\ Len(Fused(w)) < Limit => ToSet(Fused(w)) = Found(w)
<1> DEFINE all == Sorted(Found(w), AheadIn(w))
<1>1. /\ Leads(all, Found(w), AheadIn(w)) /\ ToSet(all) = Found(w)
      /\ Cardinality(Found(w)) \in Nat /\ Len(all) = Cardinality(Found(w))
  BY AheadOrders, SortedLeads
<1>2. Fused(w) = First(Limit, all)
  BY DEF Fused, AheadIn
<1> HIDE DEF all
<1>3. Limit \in Nat
  BY QueryAssumption
<1>4. /\ Leads(Fused(w), Found(w), AheadIn(w))
      /\ Len(Fused(w)) = IF Limit <= Len(all) THEN Limit ELSE Len(all)
      /\ Len(Fused(w)) < Limit => ToSet(Fused(w)) = ToSet(all)
  BY <1>1, <1>2, <1>3, FirstLeads
<1>5. Fused(w) \in Rankings
  <2>1. Fused(w) \in Seq(Found(w))
    BY <1>4 DEF Leads
  <2>2. Found(w) \subseteq DOMAIN rows
    BY AheadOrders
  <2>3. QED
    BY <2>1, <2>2, SeqMonotonic DEF Rankings
<1>6. QED
  BY <1>1, <1>4, <1>5

\* A row that both searches found is ahead of a row that one of them found.
LEMMA BothAhead ==
  ASSUME NEW w \in Workers, Ranked(work[w].sparse, DenseOf(w)),
         NEW i \in ToSet(work[w].sparse) \cap ToSet(DenseOf(w)),
         NEW j \in Found(w), j \notin ToSet(work[w].sparse) \cap ToSet(DenseOf(w))
  PROVE  Ahead(w, i, j)
<1> DEFINE sparse == work[w].sparse
           dense == DenseOf(w)
           a == K + PlaceIn(i, sparse)
           b == K + PlaceIn(i, dense)
           c == IF j \in ToSet(sparse) THEN K + PlaceIn(j, sparse) ELSE K + PlaceIn(j, dense)
<1>1. Fusion(i, sparse, dense) = [num |-> a + b, den |-> a * b]
  BY DEF Fusion
<1>2. Fusion(j, sparse, dense) = [num |-> 1, den |-> c]
  BY DEF Fusion, Found
<1>3. /\ PlaceIn(i, sparse) \in Nat \ {0} /\ PlaceIn(i, sparse) <= Limit
      /\ PlaceIn(i, dense) \in Nat \ {0} /\ PlaceIn(i, dense) <= Limit
      /\ K \in Nat /\ Limit \in Nat /\ Limit <= K
  BY PlacesAre
<1>4. a \in Nat \ {0} /\ b \in Nat \ {0} /\ a <= 2 * K /\ b <= 2 * K
  BY <1>3
<1>5. c \in Nat \ {0} /\ K < c
  <2>1. CASE j \in ToSet(sparse)
    <3>1. PlaceIn(j, sparse) \in Nat \ {0}
      BY <2>1, PlacesAre
    <3>2. K + PlaceIn(j, sparse) \in Nat \ {0} /\ K < K + PlaceIn(j, sparse)
      BY <1>3, <3>1
    <3>3. QED
      BY <2>1, <3>2
  <2>2. CASE j \notin ToSet(sparse)
    <3>1. PlaceIn(j, dense) \in Nat \ {0}
      BY <2>2, PlacesAre DEF Found
    <3>2. K + PlaceIn(j, dense) \in Nat \ {0} /\ K < K + PlaceIn(j, dense)
      BY <1>3, <3>1
    <3>3. QED
      BY <2>2, <3>2
  <2>3. QED
    BY <2>1, <2>2
<1> HIDE DEF a, b, c
<1>6. 1 * (a * b) < (a + b) * c
  BY <1>3, <1>4, <1>5, TwoBeatOne
<1>7. 1 * (a * b) \in Nat /\ (a + b) * c \in Nat
  BY <1>4, <1>5
<1>8. (a + b) * c > 1 * (a * b)
  BY <1>6, <1>7
<1>9. QED
  BY <1>1, <1>2, <1>8 DEF Ahead

\* A row is no worse in a ranking if it is before the other one, where that one is there.
NotBehind(i, j, r) == j \in ToSet(r) => i \in ToSet(r) /\ PlaceIn(i, r) < PlaceIn(j, r)

LEMMA NotBehindAhead ==
  ASSUME NEW w \in Workers, Ranked(work[w].sparse, DenseOf(w)),
         NEW i \in Found(w), NEW j \in Found(w),
         NotBehind(i, j, work[w].sparse), NotBehind(i, j, DenseOf(w))
  PROVE  Ahead(w, i, j)
<1> DEFINE sparse == work[w].sparse
           dense == DenseOf(w)
           a == K + PlaceIn(i, sparse)
           b == K + PlaceIn(i, dense)
           c == K + PlaceIn(j, sparse)
           d == K + PlaceIn(j, dense)
<1>1. Fusion(i, sparse, dense) =
        IF i \notin ToSet(dense) THEN [num |-> 1, den |-> a]
        ELSE IF i \notin ToSet(sparse) THEN [num |-> 1, den |-> b]
        ELSE [num |-> a + b, den |-> a * b]
  BY DEF Fusion
<1>2. Fusion(j, sparse, dense) =
        IF j \notin ToSet(dense) THEN [num |-> 1, den |-> c]
        ELSE IF j \notin ToSet(sparse) THEN [num |-> 1, den |-> d]
        ELSE [num |-> c + d, den |-> c * d]
  BY DEF Fusion
<1>3. /\ i \in ToSet(sparse) => a \in Nat \ {0}
      /\ i \in ToSet(dense) => b \in Nat \ {0}
      /\ j \in ToSet(sparse) => c \in Nat \ {0}
      /\ j \in ToSet(dense) => d \in Nat \ {0}
  <2>1. /\ \A k \in ToSet(sparse) : K + PlaceIn(k, sparse) \in Nat \ {0}
        /\ \A k \in ToSet(dense) : K + PlaceIn(k, dense) \in Nat \ {0}
    BY PlacesAre
  <2>2. QED
    BY <2>1
<1>4. /\ j \in ToSet(sparse) => i \in ToSet(sparse) /\ a < c
      /\ j \in ToSet(dense) => i \in ToSet(dense) /\ b < d
  <2>1. /\ \A k \in ToSet(sparse) : PlaceIn(k, sparse) \in Nat
        /\ \A k \in ToSet(dense) : PlaceIn(k, dense) \in Nat
        /\ K \in Nat
    BY PlacesAre
  <2>2. QED
    BY <2>1 DEF NotBehind
<1>5. CASE i \in ToSet(sparse) \cap ToSet(dense) /\ j \notin ToSet(sparse) \cap ToSet(dense)
  BY <1>5, BothAhead
<1> HIDE DEF a, b, c, d
<1>6. CASE j \in ToSet(sparse) /\ j \in ToSet(dense)
  <2>1. /\ a \in Nat \ {0} /\ b \in Nat \ {0} /\ c \in Nat \ {0} /\ d \in Nat \ {0}
        /\ a < c /\ b < d /\ i \in ToSet(sparse) /\ i \in ToSet(dense)
    BY <1>3, <1>4, <1>6
  <2>2. (c + d) * (a * b) < (a + b) * (c * d)
    BY <2>1, SmallerBeat
  <2>3. (c + d) * (a * b) \in Nat /\ (a + b) * (c * d) \in Nat
    <3>1. /\ c + d \in Nat /\ a + b \in Nat /\ a * b \in Nat /\ c * d \in Nat
      BY <2>1
    <3>2. QED
      BY <3>1, TimesCommutes
  <2>4. (a + b) * (c * d) > (c + d) * (a * b)
    BY <2>2, <2>3
  <2>5. /\ Fusion(i, sparse, dense) = [num |-> a + b, den |-> a * b]
        /\ Fusion(j, sparse, dense) = [num |-> c + d, den |-> c * d]
    BY <1>1, <1>2, <1>6, <2>1
  <2>6. QED
    BY <2>4, <2>5 DEF Ahead
<1>7. CASE j \in ToSet(sparse) /\ j \notin ToSet(dense) /\ i \notin ToSet(dense)
  <2>1. a \in Nat \ {0} /\ c \in Nat \ {0} /\ a < c
    BY <1>3, <1>4, <1>7
  <2>2. 1 * c > 1 * a
    BY <2>1
  <2>3. /\ Fusion(i, sparse, dense) = [num |-> 1, den |-> a]
        /\ Fusion(j, sparse, dense) = [num |-> 1, den |-> c]
    BY <1>1, <1>2, <1>7
  <2>4. QED
    BY <2>2, <2>3 DEF Ahead
<1>8. CASE j \notin ToSet(sparse) /\ j \in ToSet(dense) /\ i \notin ToSet(sparse)
  <2>1. b \in Nat \ {0} /\ d \in Nat \ {0} /\ b < d /\ i \in ToSet(dense)
    BY <1>3, <1>4, <1>8
  <2>2. 1 * d > 1 * b
    BY <2>1
  <2>3. /\ Fusion(i, sparse, dense) = [num |-> 1, den |-> b]
        /\ Fusion(j, sparse, dense) = [num |-> 1, den |-> d]
    BY <1>1, <1>2, <1>8, <2>1
  <2>4. QED
    BY <2>2, <2>3 DEF Ahead
<1>9. j \in ToSet(sparse) \/ j \in ToSet(dense)
  BY DEF Found
<1>10. QED
  BY <1>4, <1>5, <1>6, <1>7, <1>8, <1>9

LEMMA ElementsCounted ==
  ASSUME NEW T, NEW s \in Seq(T), IsInjective(s)
  PROVE  Cardinality(ToSet(s)) = Len(s)
<1>1. Len(s) \in Nat /\ DOMAIN s = 1..Len(s)
  BY LenProperties
<1>2. IsFiniteSet(1..Len(s)) /\ Cardinality(1..Len(s)) = Len(s)
  BY <1>1, CardinalityUpto
<1>3. s \in Surjection(1..Len(s), ToSet(s)) /\ s \in Injection(1..Len(s), ToSet(s))
  <2>1. s \in [1..Len(s) -> ToSet(s)]
    BY LenProperties DEF ToSet
  <2>2. \A x \in ToSet(s) : \E n \in 1..Len(s) : s[n] = x
    BY <1>1 DEF ToSet
  <2>3. QED
    BY <2>1, <2>2 DEF Surjection, Injection
<1>4. QED
  BY <1>2, <1>3, FS_Surjection

\* The hits of a retrieval without the reranker are in the fused order.
LEMMA HitsAreFair ==
  ASSUME rows \in Seq(Row), NEW w \in Workers, Ranked(work[w].sparse, DenseOf(w)),
         NEW hits, hits = First(TopK, Fused(w))
  PROVE  /\ hits \in Seq(Found(w)) /\ IsInjective(hits)
         /\ Cardinality(ToSet(hits)) = Len(hits)
         /\ Len(hits) = Min({TopK, Cardinality(Found(w))})
         /\ \A j \in ToSet(hits) : \A i \in Found(w) \ {j} :
              \/ i \in ToSet(work[w].sparse) \cap ToSet(DenseOf(w))
                 /\ j \notin ToSet(work[w].sparse) \cap ToSet(DenseOf(w))
              \/ NotBehind(i, j, work[w].sparse) /\ NotBehind(i, j, DenseOf(w))
              => ComesBefore(hits, i, j)
<1> DEFINE both == ToSet(work[w].sparse) \cap ToSet(DenseOf(w))
<1>1. TopK \in Nat /\ Limit \in Nat /\ TopK <= Limit
  BY QueryAssumption
<1>2. /\ Leads(Fused(w), Found(w), AheadIn(w)) /\ Cardinality(Found(w)) \in Nat
      /\ Len(Fused(w)) =
           IF Limit <= Cardinality(Found(w)) THEN Limit ELSE Cardinality(Found(w))
  BY FusedIs
<1>3. /\ Leads(hits, Found(w), AheadIn(w))
      /\ Len(hits) = IF TopK <= Len(Fused(w)) THEN TopK ELSE Len(Fused(w))
  BY <1>1, <1>2, FirstLeads
<1>4. Len(hits) = IF TopK <= Cardinality(Found(w)) THEN TopK ELSE Cardinality(Found(w))
  BY <1>1, <1>2, <1>3
<1>5. Len(hits) = Min({TopK, Cardinality(Found(w))})
  BY <1>1, <1>2, <1>4, MinOfTwo
<1>6. hits \in Seq(Found(w)) /\ IsInjective(hits)
  BY <1>3 DEF Leads
<1>7. Cardinality(ToSet(hits)) = Len(hits)
  BY <1>6, ElementsCounted
<1>8. ASSUME NEW j \in ToSet(hits), NEW i \in Found(w) \ {j},
             \/ i \in both /\ j \notin both
             \/ NotBehind(i, j, work[w].sparse) /\ NotBehind(i, j, DenseOf(w))
      PROVE  ComesBefore(hits, i, j)
  <2>1. j \in Found(w)
    BY <1>6, LenProperties, ElementOfSeq DEF ToSet
  <2>2. Ahead(w, i, j)
    BY <1>8, <2>1, BothAhead, NotBehindAhead
  <2>3. <<i, j>> \in AheadIn(w)
    BY <2>1, <2>2 DEF AheadIn
  <2>4. QED
    BY <1>3, <2>3 DEF Leads
<1>9. QED
  BY <1>5, <1>6, <1>7, <1>8

(***************************************************************************)
(* Records.                                                                *)
(***************************************************************************)

\* What a worker is doing, over a set of rows.
WorkOver(D) ==
  [pc : {"idle", "chunk", "upsert", "gather", "embed", "store", "query", "search", "hits"},
   model : BOOLEAN, version : Versions, items : Seq(Item), plan : Seq(Chunks) \cup Seq(Item),
   units : Seq(Unit), placed : Seq(Piece), own : SUBSET D, open : BOOLEAN,
   query : BOOLEAN, sparse : Seq(D) \cup {NoRanking}, dense : Seq(D) \cup {NoRanking},
   hits : Seq(D), reranked : BOOLEAN, crossed : SUBSET Sources]

LEMMA WorkIs == Work = WorkOver(DOMAIN rows) /\ Work' = WorkOver(DOMAIN rows')
<1>1. QED
  BY DEF Work, WorkOver, Rankings

LEMMA IdleIs ==
  ASSUME NEW D
  PROVE  Idle \in WorkOver(D) /\ ShapeOf(Idle)
<1>1. (CHOOSE v \in Versions : TRUE) \in Versions
  BY CorpusBounds
<1>2. Idle \in WorkOver(D)
  BY <1>1, EmptyIs DEF WorkOver, Idle
<1>3. ShapeOf(Idle)
  BY DEF ShapeOf, Idle
<1>4. QED
  BY <1>2, <1>3

LEMMA CrossedIs ==
  ASSUME NEW D, NEW j \in WorkOver(D), NEW c \in SUBSET Sources
  PROVE  /\ [j EXCEPT !.crossed = c] \in WorkOver(D)
         /\ ShapeOf(j) => ShapeOf([j EXCEPT !.crossed = c])
<1> DEFINE n == [j EXCEPT !.crossed = c]
<1>1. n \in WorkOver(D)
  BY DEF WorkOver
<1>2. /\ n.pc = j.pc /\ n.items = j.items /\ n.plan = j.plan /\ n.units = j.units
      /\ n.placed = j.placed /\ n.own = j.own /\ n.sparse = j.sparse /\ n.dense = j.dense
  BY DEF WorkOver
<1> HIDE DEF n
<1>3. ShapeOf(j) => ShapeOf(n)
  BY <1>2 DEF ShapeOf, TextWork, BatchWork
<1>4. QED
  BY <1>1, <1>3 DEF n

\* What workers do stays well-formed while rows are added.
LEMMA RowsAdded ==
  ASSUME DOMAIN rows \subseteq DOMAIN rows'
  PROVE  /\ \A j \in Work : j \in WorkOver(DOMAIN rows')
         /\ \A r \in Rankings : r \in Rankings'
<1>1. \A r \in Seq(DOMAIN rows) : r \in Seq(DOMAIN rows')
  BY SeqMonotonic
<1>2. QED
  BY <1>1 DEF Work, WorkOver, Rankings

\* A step of one worker.
LEMMA WorkerSteps ==
  ASSUME Base, NEW w \in Workers, NEW next, To(w, next),
         rows' \in Seq(Row), DOMAIN rows \subseteq DOMAIN rows',
         next \in WorkOver(DOMAIN rows'), ShapeOf(next),
         backfill' = backfill, calls' \in 0..MaxCalls, failures' \in 0..MaxFailures,
         last' \in [Sources -> [alone : BOOLEAN, placed : Seq(Piece)]]
  PROVE  Base'
<1>1. /\ work \in [Workers -> Work] /\ work' = [work EXCEPT ![w] = next]
      /\ \A o \in Workers : ShapeOf(work[o])
      /\ backfill \in [todo : Rankings, vector : BOOLEAN]
      /\ backfill.vector => backfill.todo # <<>>
  BY DEF Base, TypeOK, To
<1>2. \A o \in Workers : work'[o] = IF o = w THEN next ELSE work[o]
  BY <1>1
<1>3. \A o \in Workers : work'[o] \in Work' /\ ShapeOf(work'[o])
  BY <1>1, <1>2, RowsAdded, WorkIs
<1>4. work' \in [Workers -> Work']
  BY <1>1, <1>3
<1>5. backfill' \in [todo : Rankings', vector : BOOLEAN] /\ (backfill'.vector => backfill'.todo # <<>>)
  BY <1>1, RowsAdded
<1>6. TypeOK'
  BY <1>4, <1>5 DEF TypeOK
<1>7. (\A o \in Workers : ShapeOf(work[o]))'
  BY <1>3 DEF ShapeOf, TextWork, BatchWork
<1>8. QED
  BY <1>5, <1>6, <1>7 DEF Base

\* The start of a call.
LEMMA StartKeeps ==
  ASSUME Base, NEW w \in Workers, NEW sources \in SUBSET Sources, NEW next,
         Start(w, sources, next), rows' \in Seq(Row), DOMAIN rows \subseteq DOMAIN rows',
         next \in WorkOver(DOMAIN rows'), ShapeOf(next)
  PROVE  Base'
<1> DEFINE busy == {s \in sources : \E o \in Workers \ {w} : s \in WorksOn(o)}
           now(o) == IF o = w THEN [next EXCEPT !.crossed = busy]
                     ELSE [work[o] EXCEPT !.crossed = @ \cup (sources \cap WorksOn(o))]
<1>1. /\ work \in [Workers -> Work] /\ work' = [o \in Workers |-> now(o)]
      /\ \A o \in Workers : ShapeOf(work[o])
      /\ backfill \in [todo : Rankings, vector : BOOLEAN] /\ backfill' = backfill
      /\ backfill.vector => backfill.todo # <<>>
      /\ calls < MaxCalls /\ calls' = calls + 1 /\ calls \in 0..MaxCalls
      /\ failures' = failures /\ failures \in 0..MaxFailures
      /\ last' = [s \in Sources |-> IF s \in sources THEN [alone |-> FALSE, placed |-> <<>>] ELSE last[s]]
      /\ last \in [Sources -> [alone : BOOLEAN, placed : Seq(Piece)]]
  BY DEF Base, TypeOK, Start, Crossing
<1>2. busy \in SUBSET Sources
  OBVIOUS
<1>3. ASSUME NEW o \in Workers PROVE now(o) \in Work' /\ ShapeOf(now(o))
  <2>1. work[o] \in Work /\ work[o] \in WorkOver(DOMAIN rows')
    BY <1>1, RowsAdded
  <2>2. work[o].crossed \cup (sources \cap WorksOn(o)) \in SUBSET Sources
    BY <2>1 DEF Work
  <2>3. now(w) \in WorkOver(DOMAIN rows') /\ ShapeOf(now(w))
    BY <1>2, CrossedIs
  <2>4. o # w => now(o) \in WorkOver(DOMAIN rows') /\ ShapeOf(now(o))
    BY <1>1, <2>1, <2>2, CrossedIs
  <2>5. QED
    BY <2>3, <2>4, WorkIs
<1>4. \A o \in Workers : work'[o] = now(o)
  BY <1>1
<1> HIDE DEF now, busy
<1>5. work' \in [Workers -> Work']
  BY <1>1, <1>3
<1>6. backfill' \in [todo : Rankings', vector : BOOLEAN] /\ (backfill'.vector => backfill'.todo # <<>>)
  BY <1>1, RowsAdded
<1>7. calls' \in 0..MaxCalls
  BY <1>1, CorpusBounds
<1>8. last' \in [Sources -> [alone : BOOLEAN, placed : Seq(Piece)]]
  <2>1. [alone |-> FALSE, placed |-> <<>>] \in [alone : BOOLEAN, placed : Seq(Piece)]
    BY EmptyIs
  <2>2. QED
    BY <1>1, <2>1
<1>9. TypeOK'
  BY <1>1, <1>5, <1>6, <1>7, <1>8 DEF TypeOK
<1>10. \A o \in Workers : ShapeOf(work'[o])
  BY <1>3, <1>4
<1>11. (\A o \in Workers : ShapeOf(work[o]))'
  BY <1>10 DEF ShapeOf, TextWork, BatchWork
<1>12. QED
  BY <1>6, <1>9, <1>11 DEF Base

(***************************************************************************)
(* Rows.                                                                   *)
(***************************************************************************)

\* Rows are only added, what they are never changes, and a vector stays.
Grown(before, after) ==
  /\ after \in Seq(Row) /\ DOMAIN before \subseteq DOMAIN after
  /\ \A i \in DOMAIN before :
       /\ after[i].source = before[i].source /\ after[i].version = before[i].version
       /\ after[i].index = before[i].index /\ after[i].chunk = before[i].chunk
       /\ before[i].vector => after[i].vector

LEMMA SameRows ==
  ASSUME rows \in Seq(Row), rows' = rows
  PROVE  Grown(rows, rows')
<1>1. QED
  BY DEF Grown

LEMMA DeactivatedIs ==
  ASSUME rows \in Seq(Row), NEW s, NEW v
  PROVE  /\ Grown(rows, Deactivated(s, v)) /\ DOMAIN Deactivated(s, v) = DOMAIN rows
         /\ \A i \in DOMAIN rows :
              /\ rows[i].source # s => Deactivated(s, v)[i] = rows[i]
              /\ rows[i].source = s => ~Deactivated(s, v)[i].active
<1> DEFINE q == Deactivated(s, v)
<1>1. /\ Len(rows) \in Nat /\ DOMAIN rows = 1..Len(rows)
      /\ \A i \in DOMAIN rows : rows[i] \in Row
  BY RowsFinite
<1>2. \A i \in DOMAIN rows :
        q[i] = IF rows[i].source = s THEN [rows[i] EXCEPT !.active = FALSE] ELSE rows[i]
  BY DEF Deactivated
<1>3. DOMAIN q = DOMAIN rows
  BY DEF Deactivated
<1>4. q = [i \in 1..Len(rows) |-> q[i]]
  BY <1>1 DEF Deactivated
<1> HIDE DEF q
<1>5. \A i \in DOMAIN rows :
        /\ q[i] \in Row
        /\ q[i].source = rows[i].source /\ q[i].version = rows[i].version
        /\ q[i].index = rows[i].index /\ q[i].chunk = rows[i].chunk
        /\ q[i].vector = rows[i].vector
        /\ rows[i].source # s => q[i] = rows[i]
        /\ rows[i].source = s => ~q[i].active
  BY <1>1, <1>2 DEF Row
<1>6. q \in [1..Len(rows) -> Row]
  BY <1>1, <1>4, <1>5
<1>7. q \in Seq(Row)
  BY <1>1, <1>6, FunctionIsSequence
<1>8. Grown(rows, q)
  BY <1>3, <1>5, <1>7 DEF Grown
<1>9. QED
  BY <1>3, <1>5, <1>8 DEF q

\* An upsert leaves one active row of its piece, and the other rows as they were.
Leaves(after, r, u, v) ==
  /\ DOMAIN after = DOMAIN rows \cup {r}
  /\ SameRow(after[r], u, v) /\ after[r].active
  /\ r \notin DOMAIN rows => \A i \in DOMAIN rows : ~SameRow(rows[i], u, v)
  /\ \A i \in DOMAIN rows :
       /\ ~SameRow(rows[i], u, v) => after[i] = rows[i]
       /\ rows[i].active => after[i].active

LEMMA UpsertedIs ==
  ASSUME rows \in Seq(Row), NEW u \in Unit, NEW v \in Versions, NEW m \in BOOLEAN
  PROVE  /\ Grown(rows, Upserted(u, v, m))
         /\ \E r : Leaves(Upserted(u, v, m), r, u, v)
<1> DEFINE q == Upserted(u, v, m)
<1>1. /\ Len(rows) \in Nat /\ DOMAIN rows = 1..Len(rows)
      /\ \A i \in DOMAIN rows : rows[i] \in Row
  BY RowsFinite
<1>2. u.source \in Sources /\ u.index \in Nat /\ u.chunk \in Chunks /\ u.vector \in BOOLEAN
  BY DEF Unit
<1>3. CASE \E i \in DOMAIN rows : SameRow(rows[i], u, v)
  <2>1. q = [i \in DOMAIN rows |->
               IF SameRow(rows[i], u, v) THEN Revived(rows[i], u.vector) ELSE rows[i]]
    BY <1>3 DEF Upserted
  <2> HIDE DEF q
  <2>2. DOMAIN q = DOMAIN rows
    BY <2>1
  <2>3. \A i \in DOMAIN rows :
          q[i] = IF SameRow(rows[i], u, v) THEN Revived(rows[i], u.vector) ELSE rows[i]
    BY <2>1
  <2>4. \A row \in Row :
          LET now == Revived(row, u.vector) IN
          /\ now \in Row /\ now.active
          /\ now.source = row.source /\ now.version = row.version
          /\ now.index = row.index /\ now.chunk = row.chunk
          /\ row.vector => now.vector
    BY <1>2 DEF Revived, Row
  <2>5. \A i \in DOMAIN rows :
          /\ q[i] \in Row
          /\ q[i].source = rows[i].source /\ q[i].version = rows[i].version
          /\ q[i].index = rows[i].index /\ q[i].chunk = rows[i].chunk
          /\ rows[i].vector => q[i].vector
          /\ rows[i].active => q[i].active
          /\ SameRow(rows[i], u, v) => q[i].active
          /\ ~SameRow(rows[i], u, v) => q[i] = rows[i]
    BY <1>1, <2>3, <2>4
  <2>6. q \in [1..Len(rows) -> Row]
    BY <1>1, <2>1, <2>5
  <2>7. q \in Seq(Row)
    BY <1>1, <2>6, FunctionIsSequence
  <2>8. Grown(rows, q)
    BY <2>2, <2>5, <2>7 DEF Grown
  <2>9. PICK r \in DOMAIN rows : SameRow(rows[r], u, v)
    BY <1>3
  <2>10. SameRow(q[r], u, v) /\ q[r].active
    BY <2>5, <2>9 DEF SameRow
  <2>11. Leaves(q, r, u, v)
    BY <2>2, <2>5, <2>9, <2>10 DEF Leaves
  <2>12. QED
    BY <2>8, <2>11 DEF q
<1>4. CASE ~(\E i \in DOMAIN rows : SameRow(rows[i], u, v))
  <2> DEFINE new == [source |-> u.source, version |-> v, index |-> u.index, chunk |-> u.chunk,
                     active |-> TRUE, vector |-> u.vector \/ (m /\ Cached(u.chunk))]
             r == Len(rows) + 1
  <2>1. q = Append(rows, new)
    BY <1>4 DEF Upserted
  <2>2. new.vector \in BOOLEAN
    BY <1>2
  <2>3. new \in Row
    BY <1>2, <2>2 DEF Row
  <2>4. SameRow(new, u, v) /\ new.active
    BY DEF SameRow
  <2> HIDE DEF new, q
  <2>5. /\ q \in Seq(Row) /\ Len(q) = Len(rows) + 1
        /\ \A i \in 1..Len(rows) : q[i] = rows[i]
        /\ q[r] = new
    BY <2>1, <2>3, AppendProperties
  <2>6. DOMAIN q = 1..(Len(rows) + 1)
    BY <2>5, LenProperties
  <2>7. DOMAIN q = DOMAIN rows \cup {r}
    <3>1. \A i \in 1..(Len(rows) + 1) : i \in 1..Len(rows) \/ i = r
      BY <1>1
    <3>2. r \in 1..(Len(rows) + 1) /\ \A i \in 1..Len(rows) : i \in 1..(Len(rows) + 1)
      BY <1>1
    <3>3. QED
      BY <1>1, <2>6, <3>1, <3>2
  <2>8. Grown(rows, q)
    BY <1>1, <2>5, <2>7 DEF Grown
  <2>9. Leaves(q, r, u, v)
    BY <1>1, <1>4, <2>4, <2>5, <2>7 DEF Leaves
  <2>10. QED
    BY <2>8, <2>9 DEF q
<1>5. QED
  BY <1>3, <1>4

(***************************************************************************)
(* Every step keeps its state well-formed.                                 *)
(***************************************************************************)

\* What a worker has in hand.
LEMMA WorkerIs ==
  ASSUME Base, NEW w \in Workers
  PROVE  /\ work[w] \in Work /\ work[w] \in WorkOver(DOMAIN rows) /\ ShapeOf(work[w])
         /\ rows \in Seq(Row)
         /\ calls \in 0..MaxCalls /\ failures \in 0..MaxFailures
         /\ last \in [Sources -> [alone : BOOLEAN, placed : Seq(Piece)]]
<1>1. QED
  BY WorkIs DEF Base, TypeOK

LEMMA EndedIs ==
  ASSUME Base, NEW w \in Workers, NEW placed \in Seq(Piece), Ended(w, placed)
  PROVE  last' \in [Sources -> [alone : BOOLEAN, placed : Seq(Piece)]]
<1>1. last \in [Sources -> [alone : BOOLEAN, placed : Seq(Piece)]]
  BY DEF Base, TypeOK
<1>2. [alone |-> TRUE, placed |-> placed] \in [alone : BOOLEAN, placed : Seq(Piece)]
  OBVIOUS
<1>3. QED
  BY <1>1, <1>2 DEF Ended

LEMMA StartTextKeeps ==
  ASSUME Base, NEW w \in Workers, NEW e \in Entries, StartText(w, e)
  PROVE  Base' /\ Grown(rows, rows')
<1> DEFINE items == <<[source |-> e.source, text |-> e.text]>>
           next(m) == [Idle EXCEPT !.pc = "chunk", !.model = m, !.version = e.version,
                         !.items = items, !.plan = ChunksOf[e.text]]
<1>1. PICK model \in BOOLEAN : Start(w, {e.source}, next(model))
  BY DEF StartText
<1>2. e.source \in Sources /\ e.text \in Texts /\ e.version \in Versions
  BY CorpusBounds
<1>3. ChunksOf[e.text] \in Seq(Chunks) /\ ChunksOf[e.text] # <<>>
  BY <1>2, CutAssumption
<1>4. items \in Seq(Item) /\ Len(items) = 1 /\ items[1].source = e.source
  BY <1>2 DEF Item
<1>5. rows' = Deactivated(e.source, e.version) /\ rows \in Seq(Row)
  BY WorkerIs DEF StartText
<1>6. Grown(rows, rows')
  BY <1>5, DeactivatedIs
<1>7. next(model) \in WorkOver(DOMAIN rows')
  <2>1. Idle \in WorkOver(DOMAIN rows')
    BY IdleIs
  <2> HIDE DEF items
  <2>2. QED
    BY <1>2, <1>3, <1>4, <2>1 DEF WorkOver
<1>8. ShapeOf(next(model))
  <2> DEFINE n == next(model)
  <2>1. /\ n.pc = "chunk" /\ n.items = items /\ n.plan = ChunksOf[e.text] /\ n.placed = <<>>
        /\ n.sparse = NoRanking /\ n.dense = NoRanking
    BY DEF Idle
  <2> HIDE DEF n, items
  <2>2. TextWork(n)
    BY <1>3, <1>4, <2>1, EmptyIs DEF TextWork
  <2>3. ShapeOf(n)
    BY <2>1, <2>2 DEF ShapeOf
  <2>4. QED
    BY <2>3 DEF n
<1> HIDE DEF next, items
<1>9. {e.source} \in SUBSET Sources
  BY <1>2
<1>10. Base'
  BY <1>1, <1>6, <1>7, <1>8, <1>9, StartKeeps DEF Grown
<1>11. QED
  BY <1>6, <1>10

LEMMA StartBatchKeeps ==
  ASSUME Base, NEW w \in Workers, NEW v \in Sessions, NEW b \in Batches, StartBatch(w, v, b)
  PROVE  Base' /\ Grown(rows, rows')
<1> DEFINE sources == {b[i].source : i \in DOMAIN b}
           next(m) == [Idle EXCEPT !.pc = "gather", !.model = m, !.version = v, !.items = b,
                         !.plan = b]
<1>1. PICK model \in BOOLEAN : Start(w, sources, next(model))
  BY DEF StartBatch
<1>2. /\ b \in Seq(Item) /\ b # <<>> /\ v \in Versions
      /\ \A i, j \in DOMAIN b : b[i].source = b[j].source => i = j
  BY BatchAssumption, CorpusBounds
<1>3. sources \in SUBSET Sources
  <2>1. \A i \in DOMAIN b : b[i] \in Item
    BY <1>2, LenProperties, ElementOfSeq
  <2>2. QED
    BY <2>1 DEF Item
<1>4. rows \in Seq(Row) /\ rows' = rows /\ Grown(rows, rows')
  BY WorkerIs, SameRows DEF StartBatch
<1>5. next(model) \in WorkOver(DOMAIN rows')
  <2>1. Idle \in WorkOver(DOMAIN rows')
    BY IdleIs
  <2>2. QED
    BY <1>2, <2>1 DEF WorkOver
<1>6. ShapeOf(next(model))
  <2> DEFINE n == next(model)
  <2>1. /\ n.pc = "gather" /\ n.items = b /\ n.plan = b /\ n.placed = <<>> /\ n.units = <<>>
        /\ n.own = {} /\ n.sparse = NoRanking /\ n.dense = NoRanking
    BY DEF Idle
  <2> HIDE DEF n
  <2>2. BatchWork(n)
    BY <1>2, <2>1, EmptyIs DEF BatchWork, PlacesDiffer
  <2>3. ShapeOf(n)
    BY <2>1, <2>2 DEF ShapeOf
  <2>4. QED
    BY <2>3 DEF n
<1> HIDE DEF next, sources
<1>7. Base'
  BY <1>1, <1>3, <1>4, <1>5, <1>6, StartKeeps DEF Grown
<1>8. QED
  BY <1>4, <1>7

LEMMA StartRetrievalKeeps ==
  ASSUME Base, NEW w \in Workers, StartRetrieval(w)
  PROVE  Base' /\ Grown(rows, rows')
<1> DEFINE next == [Idle EXCEPT !.pc = "query", !.open = TRUE]
<1>1. Start(w, {}, next) /\ rows' = rows /\ rows \in Seq(Row)
  BY WorkerIs DEF StartRetrieval
<1>2. Grown(rows, rows')
  BY <1>1, SameRows
<1>3. next \in WorkOver(DOMAIN rows')
  BY IdleIs DEF WorkOver
<1>4. ShapeOf(next)
  <2>1. next.pc = "query" /\ next.sparse = NoRanking /\ next.dense = NoRanking
    BY DEF Idle
  <2> HIDE DEF next
  <2>2. QED
    BY <2>1 DEF ShapeOf
<1> HIDE DEF next
<1>5. {} \in SUBSET Sources
  OBVIOUS
<1>6. Base'
  BY <1>1, <1>2, <1>3, <1>4, <1>5, StartKeeps DEF Grown
<1>7. QED
  BY <1>2, <1>6

\* A step of a worker that leaves everything but its own work.
LEMMA OwnSteps ==
  ASSUME Base, NEW w \in Workers, NEW next, To(w, next),
         next \in WorkOver(DOMAIN rows), ShapeOf(next),
         rows' = rows, backfill' = backfill, calls' = calls,
         failures' \in 0..MaxFailures, last' = last
  PROVE  Base' /\ Grown(rows, rows')
<1>1. Grown(rows, rows')
  BY WorkerIs, SameRows
<1>2. next \in WorkOver(DOMAIN rows') /\ calls' \in 0..MaxCalls
      /\ last' \in [Sources -> [alone : BOOLEAN, placed : Seq(Piece)]]
  BY WorkerIs
<1>3. Base'
  BY <1>1, <1>2, WorkerSteps DEF Grown
<1>4. QED
  BY <1>1, <1>3

LEMMA ToIdleKeeps ==
  ASSUME Base, NEW w \in Workers, Return(w) \/ BreakOff(w)
  PROVE  Base' /\ Grown(rows, rows')
<1>1. To(w, Idle) /\ UNCHANGED <<rows, backfill, calls, last>>
  BY DEF Return, BreakOff
<1>2. failures' \in 0..MaxFailures
  BY WorkerIs, CorpusBounds DEF Return, BreakOff
<1>3. QED
  BY <1>1, <1>2, IdleIs, OwnSteps

\* The text in hand, its next chunk and what is left of it.
LEMMA TextIs ==
  ASSUME Base, NEW w \in Workers, work[w].pc \in {"chunk", "upsert"}
  PROVE  /\ TextWork(work[w])
         /\ work[w].items \in Seq(Item) /\ work[w].items[1] \in Item
         /\ WorksOn(w) = {work[w].items[1].source}
         /\ work[w].plan \in Seq(Chunks) /\ Head(work[w].plan) \in Chunks
         /\ Tail(work[w].plan) \in Seq(Chunks)
         /\ Len(work[w].plan) # 1 => Tail(work[w].plan) # <<>>
         /\ work[w].placed \in Seq(Piece) /\ Len(work[w].placed) \in Nat
         /\ work[w].sparse = NoRanking /\ work[w].dense = NoRanking
<1> DEFINE j == work[w]
<1>1. j \in Work /\ ShapeOf(j)
  BY WorkerIs
<1>2. TextWork(j) /\ j.sparse = NoRanking /\ j.dense = NoRanking
  BY <1>1 DEF ShapeOf
<1>3. j.items \in Seq(Item) /\ Len(j.items) = 1 /\ j.placed \in Seq(Piece)
  BY <1>1, <1>2 DEF Work, TextWork
<1>4. DOMAIN j.items = 1..1 /\ j.items[1] \in Item
  BY <1>3, LenProperties, ElementOfSeq
<1>5. WorksOn(w) = {j.items[1].source}
  BY <1>4 DEF WorksOn
<1>6. /\ j.plan \in Seq(Chunks) /\ j.plan # <<>>
      /\ Head(j.plan) \in Chunks /\ Tail(j.plan) \in Seq(Chunks) /\ Len(j.plan) \in Nat
      /\ Len(Tail(j.plan)) = Len(j.plan) - 1
  BY <1>2, TailIs DEF TextWork
<1>7. Len(j.plan) # 1 => Tail(j.plan) # <<>>
  <2>1. ASSUME Tail(j.plan) = <<>> PROVE Len(j.plan) = 1
    <3>1. Len(Tail(j.plan)) = 0
      BY <2>1, EmptyIs
    <3> HIDE DEF j
    <3>2. QED
      BY <1>6, <3>1
  <2>2. QED
    BY <2>1
<1>8. Len(j.placed) \in Nat
  BY <1>3, LenProperties
<1>9. QED
  BY <1>2, <1>3, <1>4, <1>5, <1>6, <1>7, <1>8

LEMMA ReadChunkKeeps ==
  ASSUME Base, NEW w \in Workers, ReadChunk(w)
  PROVE  Base' /\ Grown(rows, rows')
<1> DEFINE j == work[w]
           first == Head(j.plan)
           unit(vector) == [source |-> j.items[1].source, index |-> Len(j.placed),
                            chunk |-> first, vector |-> vector]
           with(vector) == [j EXCEPT !.pc = "upsert", !.units = <<unit(vector)>>]
           cut == [j EXCEPT !.plan = HalvesOf[first] \o Tail(@)]
<1>1. At(w, "chunk") /\ UNCHANGED <<rows, backfill, calls, failures, last>>
  BY DEF ReadChunk
<1>2. j \in WorkOver(DOMAIN rows) /\ failures' \in 0..MaxFailures
  BY <1>1, WorkerIs
<1>3. /\ TextWork(j) /\ j.items[1] \in Item /\ first \in Chunks /\ Tail(j.plan) \in Seq(Chunks)
      /\ Len(j.placed) \in Nat /\ j.sparse = NoRanking /\ j.dense = NoRanking
  BY <1>1, TextIs DEF At
<1>4. ASSUME NEW vector \in BOOLEAN
      PROVE  with(vector) \in WorkOver(DOMAIN rows) /\ ShapeOf(with(vector))
  <2> DEFINE u == unit(vector)
             n == with(vector)
  <2>1. u \in Unit /\ u.source = j.items[1].source /\ u.index = Len(j.placed)
    BY <1>3 DEF Unit, Item
  <2> HIDE DEF u
  <2>2. <<u>> \in Seq(Unit) /\ Len(<<u>>) = 1 /\ <<u>>[1] = u
    BY <2>1
  <2>3. /\ n \in WorkOver(DOMAIN rows) /\ n.pc = "upsert" /\ n.units = <<u>>
        /\ n.items = j.items /\ n.plan = j.plan /\ n.placed = j.placed
        /\ n.sparse = j.sparse /\ n.dense = j.dense
    BY <1>2, <2>2 DEF WorkOver, u
  <2> HIDE DEF n
  <2>4. TextWork(n)
    BY <1>3, <2>1, <2>2, <2>3 DEF TextWork
  <2>5. ShapeOf(n)
    BY <1>3, <2>3, <2>4 DEF ShapeOf
  <2>6. QED
    BY <2>3, <2>5 DEF n
<1>5. ASSUME first \in Oversized, Len(HalvesOf[first]) > 1
      PROVE  cut \in WorkOver(DOMAIN rows) /\ ShapeOf(cut)
  <2> DEFINE p == HalvesOf[first] \o Tail(j.plan)
             n == cut
  <2>1. HalvesOf[first] \in Seq(Chunks)
    BY <1>5, CutAssumption
  <2>2. p \in Seq(Chunks) /\ Len(p) = Len(HalvesOf[first]) + Len(Tail(j.plan))
    BY <1>3, <2>1, ConcatProperties
  <2>3. Len(HalvesOf[first]) \in Nat /\ Len(Tail(j.plan)) \in Nat
    BY <1>3, <2>1, LenProperties
  <2> HIDE DEF p
  <2>4. p # <<>>
    <3> DEFINE a == Len(HalvesOf[first])
               b == Len(Tail(j.plan))
    <3>1. a \in Nat /\ b \in Nat /\ a > 1 /\ Len(p) = a + b
      BY <1>5, <2>2, <2>3
    <3> HIDE DEF a, b
    <3>2. Len(p) # 0
      BY <3>1
    <3>3. QED
      BY <3>2, EmptyIs
  <2>5. /\ n \in WorkOver(DOMAIN rows) /\ n.pc = j.pc /\ n.plan = p
        /\ n.items = j.items /\ n.placed = j.placed /\ n.units = j.units
        /\ n.sparse = j.sparse /\ n.dense = j.dense
    BY <1>2, <2>2 DEF WorkOver, p
  <2> HIDE DEF n
  <2>6. j.pc = "chunk"
    BY <1>1 DEF At
  <2>7. TextWork(n)
    BY <1>3, <2>2, <2>4, <2>5, <2>6 DEF TextWork
  <2>8. ShapeOf(n)
    BY <1>3, <2>5, <2>6, <2>7 DEF ShapeOf
  <2>9. QED
    BY <2>5, <2>8 DEF n
<1>6. \/ \E vector \in BOOLEAN : To(w, with(vector))
      \/ first \in Oversized /\ Len(HalvesOf[first]) > 1 /\ To(w, cut)
  <2>1. \A vector \in BOOLEAN :
          [[source |-> j.items[1].source, index |-> Len(j.placed), chunk |-> first,
            vector |-> FALSE] EXCEPT !.vector = vector] = unit(vector)
    OBVIOUS
  <2>2. QED
    BY <2>1 DEF ReadChunk
<1> HIDE DEF with, cut
<1>7. CASE \E vector \in BOOLEAN : To(w, with(vector))
  <2>1. PICK vector \in BOOLEAN : To(w, with(vector))
    BY <1>7
  <2>2. QED
    BY <1>1, <1>2, <1>4, <2>1, OwnSteps
<1>8. CASE first \in Oversized /\ Len(HalvesOf[first]) > 1 /\ To(w, cut)
  BY <1>1, <1>2, <1>5, <1>8, OwnSteps
<1>9. QED
  BY <1>6, <1>7, <1>8

\* A piece that is stored.
PieceOf(u) == [source |-> u.source, index |-> u.index, chunk |-> u.chunk]

LEMMA WithPieceIs ==
  ASSUME Base, NEW w \in Workers, NEW u \in Unit
  PROVE  /\ WithPiece(w, u) = Append(work[w].placed, PieceOf(u)) /\ PieceOf(u) \in Piece
         /\ work[w].placed \in Seq(Piece) /\ WithPiece(w, u) \in Seq(Piece)
         /\ DOMAIN work[w].placed = 1..Len(work[w].placed) /\ Len(work[w].placed) \in Nat
         /\ Len(WithPiece(w, u)) = Len(work[w].placed) + 1
         /\ DOMAIN WithPiece(w, u) = DOMAIN work[w].placed \cup {Len(work[w].placed) + 1}
         /\ \A n \in DOMAIN work[w].placed : WithPiece(w, u)[n] = work[w].placed[n]
         /\ WithPiece(w, u)[Len(work[w].placed) + 1] = PieceOf(u)
<1> DEFINE s == work[w].placed
           q == WithPiece(w, u)
           x == PieceOf(u)
<1>1. s \in Seq(Piece)
  BY WorkerIs DEF Work
<1>2. x \in Piece
  BY DEF PieceOf, Piece, Unit
<1>3. q = Append(s, x)
  BY DEF WithPiece, PieceOf
<1> HIDE DEF s, q, x
<1>4. /\ q \in Seq(Piece) /\ Len(q) = Len(s) + 1
      /\ \A i \in 1..Len(s) : q[i] = s[i]
      /\ q[Len(s) + 1] = x
  BY <1>1, <1>2, <1>3, AppendProperties
<1>5. DOMAIN s = 1..Len(s) /\ Len(s) \in Nat /\ DOMAIN q = 1..(Len(s) + 1)
  BY <1>1, <1>4, LenProperties
<1>6. DOMAIN q = DOMAIN s \cup {Len(s) + 1}
  <2>1. \A i \in 1..(Len(s) + 1) : i \in 1..Len(s) \/ i = Len(s) + 1
    BY <1>5
  <2>2. Len(s) + 1 \in 1..(Len(s) + 1) /\ \A i \in 1..Len(s) : i \in 1..(Len(s) + 1)
    BY <1>5
  <2>3. QED
    BY <1>5, <2>1, <2>2
<1>7. QED
  BY <1>1, <1>2, <1>3, <1>4, <1>5, <1>6 DEF s, q, x

LEMMA PlaceChunkKeeps ==
  ASSUME Base, NEW w \in Workers, PlaceChunk(w)
  PROVE  Base' /\ Grown(rows, rows')
<1> DEFINE j == work[w]
           unit == j.units[1]
           placed == WithPiece(w, unit)
           next == [j EXCEPT !.pc = "chunk", !.plan = Tail(@), !.placed = placed]
<1>1. /\ j.pc = "upsert" /\ rows' = Upserted(unit, j.version, j.model)
      /\ UNCHANGED <<backfill, calls, failures>>
      /\ IF Len(j.plan) = 1
         THEN To(w, Idle) /\ Ended(w, placed)
         ELSE To(w, next) /\ last' = last
  BY DEF PlaceChunk, At
<1>2. /\ j \in Work /\ rows \in Seq(Row) /\ calls \in 0..MaxCalls /\ failures \in 0..MaxFailures
      /\ last \in [Sources -> [alone : BOOLEAN, placed : Seq(Piece)]]
  BY WorkerIs
<1>3. /\ TextWork(j) /\ Tail(j.plan) \in Seq(Chunks) /\ (Len(j.plan) # 1 => Tail(j.plan) # <<>>)
      /\ j.sparse = NoRanking /\ j.dense = NoRanking
  BY <1>1, TextIs
<1>4. /\ unit \in Unit /\ unit.source = j.items[1].source /\ unit.index = Len(j.placed)
      /\ j.version \in Versions /\ j.model \in BOOLEAN
  <2>1. j.units \in Seq(Unit) /\ Len(j.units) = 1
    BY <1>1, <1>2, <1>3 DEF Work, TextWork
  <2>2. 1 \in 1..Len(j.units)
    BY <2>1
  <2>3. unit \in Unit
    BY <2>1, <2>2, ElementOfSeq
  <2>4. QED
    BY <1>1, <1>2, <1>3, <2>3 DEF Work, TextWork
<1>5. Grown(rows, rows')
  BY <1>1, <1>2, <1>4, UpsertedIs
<1>6. placed \in Seq(Piece)
  BY <1>4, WithPieceIs
<1>7. CASE Len(j.plan) = 1
  <2>1. last' \in [Sources -> [alone : BOOLEAN, placed : Seq(Piece)]]
    BY <1>1, <1>6, <1>7, EndedIs
  <2>2. Base'
    BY <1>1, <1>2, <1>5, <1>7, <2>1, IdleIs, WorkerSteps DEF Grown
  <2>3. QED
    BY <1>5, <2>2
<1>8. CASE Len(j.plan) # 1
  <2> DEFINE n == next
  <2>1. j \in WorkOver(DOMAIN rows')
    BY <1>2, <1>5, RowsAdded DEF Grown
  <2>2. /\ n \in WorkOver(DOMAIN rows') /\ n.pc = "chunk" /\ n.plan = Tail(j.plan)
        /\ n.placed = placed /\ n.items = j.items
        /\ n.sparse = j.sparse /\ n.dense = j.dense
    <3> HIDE DEF placed
    <3>1. QED
      BY <1>3, <1>6, <2>1 DEF WorkOver
  <2> HIDE DEF n
  <2>3. \A k \in DOMAIN placed : placed[k].source = j.items[1].source /\ placed[k].index = k - 1
    <3> DEFINE s == j.placed
               m == Len(s) + 1
    <3>1. /\ DOMAIN placed = DOMAIN s \cup {m} /\ Len(s) \in Nat
          /\ \A k \in DOMAIN s : placed[k] = s[k]
          /\ placed[m] = PieceOf(unit)
      BY <1>4, WithPieceIs
    <3>2. \A k \in DOMAIN s : s[k].source = j.items[1].source /\ s[k].index = k - 1
      BY <1>3 DEF TextWork
    <3>3. PieceOf(unit).source = j.items[1].source /\ PieceOf(unit).index = m - 1
      BY <1>4, <3>1 DEF PieceOf
    <3> HIDE DEF placed, m, s
    <3>4. QED
      BY <3>1, <3>2, <3>3
  <2>4. TextWork(n)
    BY <1>3, <1>8, <2>2, <2>3 DEF TextWork
  <2>5. ShapeOf(n)
    BY <1>3, <2>2, <2>4 DEF ShapeOf
  <2>6. Base'
    BY <1>1, <1>2, <1>5, <1>8, <2>2, <2>5, WorkerSteps DEF Grown, n
  <2>7. QED
    BY <1>5, <2>6
<1>9. QED
  BY <1>7, <1>8

\* The batch in hand.
LEMMA BatchIs ==
  ASSUME Base, NEW w \in Workers, work[w].pc \in {"gather", "embed", "store"}
  PROVE  /\ BatchWork(work[w]) /\ WorksOn(w) \subseteq Sources
         /\ work[w].units \in Seq(Unit) /\ work[w].placed \in Seq(Piece)
         /\ work[w].version \in Versions /\ work[w].model \in BOOLEAN
         /\ work[w].sparse = NoRanking /\ work[w].dense = NoRanking
<1> DEFINE j == work[w]
<1>1. j \in Work /\ ShapeOf(j)
  BY WorkerIs
<1>2. BatchWork(j) /\ j.sparse = NoRanking /\ j.dense = NoRanking
  BY <1>1 DEF ShapeOf
<1>3. \A i \in DOMAIN j.items : j.items[i] \in Item
  <2>1. j.items \in Seq(Item)
    BY <1>1 DEF Work
  <2>2. QED
    BY <2>1, LenProperties, ElementOfSeq
<1>4. WorksOn(w) \subseteq Sources
  BY <1>3 DEF WorksOn, Item
<1>5. QED
  BY <1>1, <1>2, <1>4 DEF Work

\* The chunks of a text as units.
UnitsOf(w, item) ==
  [i \in DOMAIN ChunksOf[item.text] |->
     [source |-> item.source, index |-> i - 1, chunk |-> ChunksOf[item.text][i],
      vector |-> work[w].model /\ Cached(ChunksOf[item.text][i])]]

LEMMA UnitsOfIs ==
  ASSUME NEW w \in Workers, NEW item \in Item, work[w].model \in BOOLEAN
  PROVE  /\ UnitsOf(w, item) \in Seq(Unit) /\ Len(UnitsOf(w, item)) \in Nat \ {0}
         /\ DOMAIN UnitsOf(w, item) = 1..Len(UnitsOf(w, item))
         /\ \A i \in DOMAIN UnitsOf(w, item) :
              /\ UnitsOf(w, item)[i].source = item.source
              /\ UnitsOf(w, item)[i].index = i - 1
<1> DEFINE chunks == ChunksOf[item.text]
           q == UnitsOf(w, item)
<1>1. chunks \in Seq(Chunks) /\ chunks # <<>> /\ item.source \in Sources
  BY CutAssumption DEF Item
<1>2. Len(chunks) \in Nat /\ DOMAIN chunks = 1..Len(chunks) /\ \A i \in DOMAIN chunks : chunks[i] \in Chunks
  BY <1>1, LenProperties, ElementOfSeq
<1>3. Len(chunks) # 0
  BY <1>1, <1>2, EmptySeq
<1> HIDE DEF chunks
<1>4. \A i \in 1..Len(chunks) : i - 1 \in Nat
  BY <1>2
<1>5. \A c \in Chunks : (work[w].model /\ Cached(c)) \in BOOLEAN
  OBVIOUS
<1>6. q = [i \in 1..Len(chunks) |->
             [source |-> item.source, index |-> i - 1, chunk |-> chunks[i],
              vector |-> work[w].model /\ Cached(chunks[i])]]
  BY <1>2 DEF UnitsOf, chunks
<1>7. \A i \in 1..Len(chunks) : q[i] \in Unit /\ q[i].source = item.source /\ q[i].index = i - 1
  BY <1>1, <1>2, <1>4, <1>5, <1>6 DEF Unit
<1>8. q \in [1..Len(chunks) -> Unit]
  BY <1>6, <1>7
<1> HIDE DEF q
<1>9. q \in Seq(Unit) /\ Len(q) = Len(chunks)
  BY <1>2, <1>8, FunctionIsSequence
<1>10. DOMAIN q = 1..Len(q)
  BY <1>9, LenProperties
<1>11. QED
  BY <1>2, <1>3, <1>7, <1>9, <1>10 DEF q

\* Two sequences of pieces in different places, one after the other.
LEMMA JoinedIs ==
  ASSUME NEW T, NEW s \in Seq(T), NEW t \in Seq(T)
  PROVE  /\ s \o t \in Seq(T)
         /\ Len(s \o t) \in Nat /\ Len(s) \in Nat /\ Len(t) \in Nat
         /\ Len(s \o t) = Len(s) + Len(t)
         /\ DOMAIN s = 1..Len(s) /\ DOMAIN t = 1..Len(t) /\ DOMAIN (s \o t) = 1..Len(s \o t)
         /\ \A n \in DOMAIN (s \o t) :
              \/ n \in DOMAIN s /\ (s \o t)[n] = s[n]
              \/ n - Len(s) \in DOMAIN t /\ (s \o t)[n] = t[n - Len(s)]
<1> DEFINE q == s \o t
<1>1. /\ q \in Seq(T) /\ Len(q) = Len(s) + Len(t)
      /\ \A i \in 1..Len(s) + Len(t) : q[i] = IF i <= Len(s) THEN s[i] ELSE t[i - Len(s)]
  BY ConcatProperties
<1> HIDE DEF q
<1>2. /\ Len(q) \in Nat /\ Len(s) \in Nat /\ Len(t) \in Nat
      /\ DOMAIN s = 1..Len(s) /\ DOMAIN t = 1..Len(t) /\ DOMAIN q = 1..Len(q)
  BY <1>1, LenProperties
<1>3. ASSUME NEW n \in DOMAIN q
      PROVE  \/ n \in DOMAIN s /\ q[n] = s[n]
             \/ n - Len(s) \in DOMAIN t /\ q[n] = t[n - Len(s)]
  <2>1. n \in 1..Len(s) + Len(t) /\ n \in Nat /\ n >= 1 /\ n <= Len(s) + Len(t)
    BY <1>1, <1>2
  <2>2. q[n] = IF n <= Len(s) THEN s[n] ELSE t[n - Len(s)]
    BY <1>1, <2>1
  <2>3. CASE n <= Len(s)
    BY <1>2, <2>1, <2>2, <2>3
  <2>4. CASE ~(n <= Len(s))
    <3>1. n - Len(s) \in 1..Len(t)
      BY <1>2, <2>1, <2>4
    <3>2. QED
      BY <1>2, <2>2, <2>4, <3>1
  <2>5. QED
    BY <2>3, <2>4
<1>4. QED
  BY <1>1, <1>2, <1>3 DEF q

LEMMA GatherKeeps ==
  ASSUME Base, NEW w \in Workers, Gather(w)
  PROVE  Base' /\ Grown(rows, rows')
<1> DEFINE j == work[w]
           item == Head(j.plan)
           units == UnitsOf(w, item)
           joined == j.units \o units
           pc == IF Len(j.plan) = 1 THEN "embed" ELSE "gather"
           next == [j EXCEPT !.units = joined, !.plan = Tail(@), !.pc = pc]
           sources == {j.items[i].source : i \in DOMAIN j.items}
<1>1. /\ j.pc = "gather" /\ rows' = Deactivated(item.source, j.version) /\ To(w, next)
      /\ UNCHANGED <<backfill, calls, failures, last>>
  BY DEF Gather, At, UnitsOf
<1>2. /\ j \in Work /\ rows \in Seq(Row) /\ calls \in 0..MaxCalls /\ failures \in 0..MaxFailures
      /\ last \in [Sources -> [alone : BOOLEAN, placed : Seq(Piece)]]
  BY WorkerIs
<1>3. /\ BatchWork(j) /\ j.units \in Seq(Unit) /\ j.model \in BOOLEAN
      /\ j.sparse = NoRanking /\ j.dense = NoRanking
  BY <1>1, BatchIs
<1>4. /\ PlacesDiffer(j.units) /\ j.placed = <<>> /\ j.own = {}
      /\ \A n \in DOMAIN j.units : j.units[n].source \in sources
      /\ j.plan \in Seq(Item) /\ j.plan # <<>>
      /\ \A i \in DOMAIN j.plan : j.plan[i].source \in sources
      /\ \A i, k \in DOMAIN j.plan : j.plan[i].source = j.plan[k].source => i = k
      /\ \A n \in DOMAIN j.units, i \in DOMAIN j.plan : j.units[n].source # j.plan[i].source
  BY <1>1, <1>3 DEF BatchWork
<1>5. /\ item \in Item /\ Tail(j.plan) \in Seq(Item) /\ Len(Tail(j.plan)) = Len(j.plan) - 1
      /\ Len(j.plan) \in Nat \ {0} /\ DOMAIN j.plan = 1..Len(j.plan)
      /\ item = j.plan[1] /\ 1 \in DOMAIN j.plan
      /\ DOMAIN Tail(j.plan) = 1..Len(Tail(j.plan))
      /\ \A i \in DOMAIN Tail(j.plan) : i + 1 \in DOMAIN j.plan /\ Tail(j.plan)[i] = j.plan[i + 1]
  <2> DEFINE p == j.plan
  <2>1. p \in Seq(Item) /\ p # <<>>
    BY <1>4
  <2> HIDE DEF p, j
  <2>2. /\ Head(p) \in Item /\ Tail(p) \in Seq(Item) /\ Len(Tail(p)) = Len(p) - 1
        /\ \A i \in 1..Len(Tail(p)) : Tail(p)[i] = p[i + 1]
    BY <2>1, HeadTailProperties
  <2>3. Len(p) \in Nat \ {0} /\ DOMAIN p = 1..Len(p) /\ DOMAIN Tail(p) = 1..Len(Tail(p))
    BY <2>1, <2>2, EmptySeq, LenProperties
  <2>4. Head(p) = p[1] /\ 1 \in DOMAIN p
    BY <2>1, <2>3
  <2>5. \A i \in 1..(Len(p) - 1) : i + 1 \in 1..Len(p)
    BY <2>3
  <2>6. QED
    BY <2>1, <2>2, <2>3, <2>4, <2>5 DEF p
<1> HIDE DEF item
<1>6. /\ units \in Seq(Unit) /\ Len(units) \in Nat \ {0}
      /\ \A i \in DOMAIN units : units[i].source = item.source /\ units[i].index = i - 1
  BY <1>3, <1>5, UnitsOfIs
<1> HIDE DEF units
<1>7. /\ joined \in Seq(Unit)
      /\ Len(joined) \in Nat /\ Len(j.units) \in Nat /\ Len(joined) = Len(j.units) + Len(units)
      /\ DOMAIN j.units = 1..Len(j.units) /\ DOMAIN units = 1..Len(units)
      /\ DOMAIN joined = 1..Len(joined)
      /\ \A n \in DOMAIN joined :
           \/ n \in DOMAIN j.units /\ joined[n] = j.units[n]
           \/ n - Len(j.units) \in DOMAIN units /\ joined[n] = units[n - Len(j.units)]
  BY <1>3, <1>6, JoinedIs
<1> HIDE DEF joined
<1>8. joined # <<>>
  BY <1>6, <1>7, EmptyIs
<1>9. \A n \in DOMAIN joined :
        \/ n \in DOMAIN j.units /\ joined[n] = j.units[n]
        \/ joined[n].source = item.source /\ joined[n].index = n - Len(j.units) - 1
  BY <1>6, <1>7
<1>10. \A n \in DOMAIN j.units : j.units[n].source # item.source
  BY <1>4, <1>5
<1>11. PlacesDiffer(joined)
  <2>1. SUFFICES ASSUME NEW m \in DOMAIN joined, NEW n \in DOMAIN joined,
                        joined[m].source = joined[n].source, joined[m].index = joined[n].index
                 PROVE  m = n
    BY DEF PlacesDiffer, Place
  <2>2. CASE m \in DOMAIN j.units /\ joined[m] = j.units[m]
    <3>1. n \in DOMAIN j.units /\ joined[n] = j.units[n]
      BY <1>9, <1>10, <2>1, <2>2
    <3>2. QED
      BY <1>4, <2>1, <2>2, <3>1 DEF PlacesDiffer, Place
  <2>3. CASE joined[m].source = item.source /\ joined[m].index = m - Len(j.units) - 1
    <3>1. joined[n].source = item.source /\ joined[n].index = n - Len(j.units) - 1
      BY <1>9, <1>10, <2>1, <2>3
    <3> DEFINE l == Len(j.units)
    <3>2. m \in Nat /\ n \in Nat /\ l \in Nat
      BY <1>7
    <3>3. m - l - 1 = n - l - 1
      BY <2>1, <2>3, <3>1
    <3> HIDE DEF l
    <3>4. QED
      BY <3>2, <3>3
  <2>4. QED
    BY <1>9, <2>2, <2>3
<1>12. item.source \in sources
  BY <1>4, <1>5
<1>13. \A n \in DOMAIN joined : joined[n].source \in sources
  BY <1>4, <1>9, <1>12
<1>14. Grown(rows, rows')
  BY <1>1, <1>2, DeactivatedIs
<1> DEFINE n == next
<1>15. /\ n \in WorkOver(DOMAIN rows') /\ n.pc = pc /\ n.units = joined /\ n.plan = Tail(j.plan)
       /\ n.items = j.items /\ n.placed = <<>> /\ n.own = {}
       /\ n.sparse = NoRanking /\ n.dense = NoRanking
  <2>1. j \in WorkOver(DOMAIN rows')
    BY <1>2, <1>14, RowsAdded DEF Grown
  <2>2. QED
    BY <1>3, <1>4, <1>5, <1>7, <2>1 DEF WorkOver
<1> HIDE DEF n
<1>16. ASSUME Len(j.plan) # 1
       PROVE  /\ Tail(j.plan) # <<>>
              /\ \A i \in DOMAIN Tail(j.plan) : Tail(j.plan)[i].source \in sources
              /\ \A i, k \in DOMAIN Tail(j.plan) :
                   Tail(j.plan)[i].source = Tail(j.plan)[k].source => i = k
              /\ \A m \in DOMAIN joined, i \in DOMAIN Tail(j.plan) :
                   joined[m].source # Tail(j.plan)[i].source
  <2> DEFINE p == j.plan
             t == Tail(p)
  <2>1. t # <<>>
    <3>1. Len(p) \in Nat \ {0} /\ Len(p) # 1 /\ Len(t) = Len(p) - 1
      BY <1>5, <1>16
    <3> HIDE DEF t, p
    <3>2. Len(t) # 0
      BY <3>1
    <3>3. QED
      BY <3>2, EmptyIs
  <2>2. \A i \in DOMAIN t : i \in Nat /\ i >= 1 /\ i + 1 # 1 /\ i + 1 \in DOMAIN p /\ t[i] = p[i + 1]
    BY <1>5
  <2>3. \A i \in DOMAIN t : t[i].source \in sources /\ t[i].source # item.source
    BY <1>4, <1>5, <2>2
  <2>4. \A i, k \in DOMAIN t : t[i].source = t[k].source => i = k
    <3>1. SUFFICES ASSUME NEW i \in DOMAIN t, NEW k \in DOMAIN t, t[i].source = t[k].source PROVE i = k
      OBVIOUS
    <3>2. i + 1 = k + 1
      BY <1>4, <2>2, <3>1
    <3>3. QED
      BY <2>2, <3>2
  <2>5. \A m \in DOMAIN joined, i \in DOMAIN t : joined[m].source # t[i].source
    BY <1>4, <1>9, <2>2, <2>3
  <2>6. QED
    BY <2>1, <2>3, <2>4, <2>5
<1>17. BatchWork(n)
  <2>1. PlacesDiffer(<<>>) /\ DOMAIN <<>> = {}
    BY EmptyIs DEF PlacesDiffer
  <2>2. n.pc = "gather" => Len(j.plan) # 1
    BY <1>15
  <2>3. QED
    BY <1>5, <1>8, <1>11, <1>13, <1>15, <1>16, <2>1, <2>2 DEF BatchWork
<1>18. ShapeOf(n)
  BY <1>15, <1>17 DEF ShapeOf
<1>19. To(w, n)
  BY <1>1 DEF n
<1>20. Base'
  BY <1>1, <1>2, <1>14, <1>15, <1>18, <1>19, WorkerSteps DEF Grown
<1>21. QED
  BY <1>14, <1>20

LEMMA EmbedAllKeeps ==
  ASSUME Base, NEW w \in Workers, EmbedAll(w)
  PROVE  Base' /\ Grown(rows, rows')
<1> DEFINE j == work[w]
           given(made) == [i \in DOMAIN j.units |->
                             IF i \in made THEN [j.units[i] EXCEPT !.vector = TRUE] ELSE j.units[i]]
           next(made) == [j EXCEPT !.pc = "store", !.units = given(made)]
<1>1. j.pc = "embed" /\ UNCHANGED <<rows, backfill, calls, failures, last>>
  BY DEF EmbedAll, At
<1>2. PICK made : To(w, next(made))
  BY DEF EmbedAll
<1>3. j \in WorkOver(DOMAIN rows) /\ failures' \in 0..MaxFailures
  BY <1>1, WorkerIs
<1>4. /\ BatchWork(j) /\ j.units \in Seq(Unit)
      /\ j.sparse = NoRanking /\ j.dense = NoRanking
  BY <1>1, BatchIs
<1>5. /\ Len(j.units) \in Nat /\ DOMAIN j.units = 1..Len(j.units)
      /\ \A i \in DOMAIN j.units : j.units[i] \in Unit
  BY <1>4, LenProperties, ElementOfSeq
<1> DEFINE q == given(made)
           u == j.units
<1>6. \A i \in DOMAIN u : q[i] = IF i \in made THEN [u[i] EXCEPT !.vector = TRUE] ELSE u[i]
  OBVIOUS
<1>7. \A i \in DOMAIN u : q[i] \in Unit /\ q[i].source = u[i].source /\ q[i].index = u[i].index
  BY <1>5, <1>6 DEF Unit
<1>8. q \in [1..Len(u) -> Unit]
  <2>1. q = [i \in 1..Len(u) |-> q[i]]
    BY <1>5
  <2>2. QED
    BY <1>5, <1>7, <2>1
<1>9. q \in Seq(Unit) /\ Len(q) = Len(u)
  <2> HIDE DEF q
  <2>1. QED
    BY <1>5, <1>8, FunctionIsSequence
<1>10. DOMAIN q = DOMAIN u
  OBVIOUS
<1> DEFINE n == next(made)
<1>11. /\ n \in WorkOver(DOMAIN rows) /\ n.pc = "store" /\ n.units = q /\ n.items = j.items
       /\ n.placed = j.placed /\ n.own = j.own /\ n.plan = j.plan
       /\ n.sparse = j.sparse /\ n.dense = j.dense
  <2> HIDE DEF q
  <2>1. j \in WorkOver(DOMAIN rows) /\ q \in Seq(Unit) /\ n = [j EXCEPT !.pc = "store", !.units = q]
    BY <1>3, <1>9 DEF q
  <2> HIDE DEF n
  <2>2. QED
    BY <2>1 DEF WorkOver
<1> HIDE DEF n, q
<1>12. BatchWork(n)
  <2>1. /\ PlacesDiffer(u) /\ j.placed = <<>> /\ j.own = {} /\ u # <<>>
        /\ \A i \in DOMAIN u : u[i].source \in {j.items[k].source : k \in DOMAIN j.items}
    BY <1>1, <1>4 DEF BatchWork
  <2>2. PlacesDiffer(q)
    BY <1>7, <1>10, <2>1 DEF PlacesDiffer, Place
  <2>3. q # <<>>
    <3>1. Len(u) # 0
      BY <1>4, <2>1, EmptySeq
    <3>2. QED
      BY <1>9, <3>1, EmptyIs
  <2>4. PlacesDiffer(<<>>) /\ DOMAIN <<>> = {}
    BY EmptyIs DEF PlacesDiffer
  <2>5. \A i \in DOMAIN q : q[i].source \in {j.items[k].source : k \in DOMAIN j.items}
    BY <1>7, <1>10, <2>1
  <2>6. QED
    BY <1>11, <2>1, <2>2, <2>3, <2>4, <2>5 DEF BatchWork
<1>13. ShapeOf(n)
  BY <1>4, <1>11, <1>12 DEF ShapeOf
<1>14. To(w, n)
  BY <1>2 DEF n
<1>15. QED
  BY <1>1, <1>3, <1>11, <1>13, <1>14, OwnSteps

\* The row an upsert leaves is found again.
LEMMA RowOfIs ==
  ASSUME rows \in Seq(Row), NEW u \in Unit, NEW v \in Versions, NEW m \in BOOLEAN,
         rows' = Upserted(u, v, m)
  PROVE  RowOf(u, v) \in DOMAIN rows' /\ SameRow(rows'[RowOf(u, v)], u, v)
<1>1. PICK r : Leaves(rows', r, u, v)
  BY UpsertedIs
<1>2. r \in DOMAIN rows' /\ SameRow(rows'[r], u, v)
  BY <1>1 DEF Leaves
<1>3. QED
  BY <1>2 DEF RowOf

LEMMA StoreUnitKeeps ==
  ASSUME Base, NEW w \in Workers, StoreUnit(w)
  PROVE  Base' /\ Grown(rows, rows')
<1> DEFINE j == work[w]
           unit == Head(j.units)
           placed == WithPiece(w, unit)
           own == j.own \cup {RowOf(unit, j.version)}
           next == [j EXCEPT !.units = Tail(@), !.placed = placed, !.own = own]
           done == [next EXCEPT !.pc = "query", !.placed = <<>>, !.model = FALSE]
<1>1. /\ j.pc = "store" /\ rows' = Upserted(unit, j.version, j.model)
      /\ UNCHANGED <<backfill, calls, failures>>
      /\ IF Len(j.units) = 1
         THEN To(w, done) /\ Ended(w, placed)
         ELSE To(w, next) /\ last' = last
  BY DEF StoreUnit, At
<1>2. /\ j \in Work /\ rows \in Seq(Row) /\ calls \in 0..MaxCalls /\ failures \in 0..MaxFailures
      /\ last \in [Sources -> [alone : BOOLEAN, placed : Seq(Piece)]]
  BY WorkerIs
<1>3. /\ BatchWork(j) /\ j.units \in Seq(Unit) /\ j.placed \in Seq(Piece)
      /\ j.version \in Versions /\ j.model \in BOOLEAN
      /\ j.sparse = NoRanking /\ j.dense = NoRanking
  BY <1>1, BatchIs
<1> DEFINE u == j.units
           t == Tail(u)
           sources == {j.items[i].source : i \in DOMAIN j.items}
<1>4. /\ PlacesDiffer(u) /\ PlacesDiffer(j.placed) /\ u # <<>>
      /\ \A n \in DOMAIN u : u[n].source \in sources
      /\ \A m \in DOMAIN j.placed, n \in DOMAIN u : Place(j.placed[m]) # Place(u[n])
  BY <1>1, <1>3 DEF BatchWork
<1>5. /\ unit \in Unit /\ t \in Seq(Unit) /\ Len(t) = Len(u) - 1 /\ Len(u) \in Nat \ {0}
      /\ unit = u[1] /\ 1 \in DOMAIN u /\ DOMAIN t = 1..Len(t)
      /\ \A i \in DOMAIN t : i + 1 \in DOMAIN u /\ t[i] = u[i + 1] /\ i \in Nat /\ i + 1 # 1
  <2> HIDE DEF u, j
  <2>1. u \in Seq(Unit) /\ u # <<>>
    BY <1>3, <1>4 DEF u
  <2>2. /\ Head(u) \in Unit /\ Tail(u) \in Seq(Unit) /\ Len(Tail(u)) = Len(u) - 1
        /\ \A i \in 1..Len(Tail(u)) : Tail(u)[i] = u[i + 1]
    BY <2>1, HeadTailProperties
  <2>3. Len(u) \in Nat \ {0} /\ DOMAIN u = 1..Len(u) /\ DOMAIN Tail(u) = 1..Len(Tail(u))
    BY <2>1, <2>2, EmptySeq, LenProperties
  <2>4. Head(u) = u[1] /\ 1 \in DOMAIN u
    BY <2>1, <2>3
  <2>5. \A i \in 1..(Len(u) - 1) : i + 1 \in 1..Len(u) /\ i \in Nat /\ i + 1 # 1
    BY <2>3
  <2>6. QED
    BY <2>2, <2>3, <2>4, <2>5 DEF u
<1>6. Grown(rows, rows')
  BY <1>1, <1>2, <1>3, <1>5, UpsertedIs
<1>7. placed \in Seq(Piece)
  BY <1>5, WithPieceIs
<1>8. own \in SUBSET DOMAIN rows'
  <2>1. RowOf(unit, j.version) \in DOMAIN rows'
    BY <1>1, <1>2, <1>3, <1>5, RowOfIs
  <2>2. j.own \subseteq DOMAIN rows'
    BY <1>2, <1>6 DEF Work, Grown
  <2>3. QED
    BY <2>1, <2>2
<1> HIDE DEF placed, own
<1>9. j \in WorkOver(DOMAIN rows')
  BY <1>2, <1>6, RowsAdded DEF Grown
<1> DEFINE n == next
<1>10. /\ n \in WorkOver(DOMAIN rows') /\ n.pc = "store" /\ n.units = t /\ n.placed = placed
       /\ n.items = j.items /\ n.plan = j.plan
       /\ n.sparse = NoRanking /\ n.dense = NoRanking
  <2> HIDE DEF t
  <2>1. n = [j EXCEPT !.units = t, !.placed = placed, !.own = own]
    BY DEF t
  <2> HIDE DEF n
  <2>2. QED
    BY <1>1, <1>3, <1>5, <1>7, <1>8, <1>9, <2>1 DEF WorkOver
<1>11. done = [n EXCEPT !.pc = "query", !.placed = <<>>, !.model = FALSE]
  OBVIOUS
<1> HIDE DEF n, t, done
<1>12. CASE Len(j.units) = 1
  <2>1. done \in WorkOver(DOMAIN rows') /\ ShapeOf(done)
    <3>1. /\ done \in WorkOver(DOMAIN rows') /\ done.pc = "query"
          /\ done.sparse = NoRanking /\ done.dense = NoRanking
      BY <1>10, <1>11, EmptyIs DEF WorkOver
    <3>2. QED
      BY <3>1 DEF ShapeOf
  <2>2. last' \in [Sources -> [alone : BOOLEAN, placed : Seq(Piece)]]
    BY <1>1, <1>7, <1>12, EndedIs
  <2>3. Base'
    BY <1>1, <1>2, <1>6, <1>12, <2>1, <2>2, WorkerSteps DEF Grown
  <2>4. QED
    BY <1>6, <2>3
<1>13. CASE Len(j.units) # 1
  <2>1. t # <<>>
    <3>1. Len(t) # 0
      <4>1. Len(u) # 1 /\ Len(u) \in Nat \ {0} /\ Len(t) = Len(u) - 1
        BY <1>5, <1>13
      <4> HIDE DEF u
      <4>2. QED
        BY <4>1
    <3>2. QED
      BY <3>1, EmptyIs
  <2>2. PlacesDiffer(t)
    <3>1. SUFFICES ASSUME NEW a \in DOMAIN t, NEW b \in DOMAIN t, Place(t[a]) = Place(t[b]) PROVE a = b
      BY DEF PlacesDiffer
    <3>2. a + 1 = b + 1
      BY <1>4, <1>5, <3>1 DEF PlacesDiffer
    <3>3. QED
      BY <1>5, <3>2
  <2>3. \A i \in DOMAIN t : t[i].source \in sources
    BY <1>4, <1>5
  <2>4. \A i \in DOMAIN t : Place(t[i]) # Place(unit)
    BY <1>4, <1>5 DEF PlacesDiffer
  <2> DEFINE s == j.placed
             l == Len(s) + 1
  <2>5. /\ DOMAIN placed = DOMAIN s \cup {l} /\ \A k \in DOMAIN s : placed[k] = s[k]
        /\ placed[l] = PieceOf(unit) /\ Place(PieceOf(unit)) = Place(unit)
    <3>1. Place(PieceOf(unit)) = Place(unit)
      BY DEF PieceOf, Place
    <3>2. QED
      BY <1>5, <3>1, WithPieceIs DEF placed
  <2> HIDE DEF l
  <2>6. \A k \in DOMAIN s : Place(s[k]) # Place(unit)
    BY <1>4, <1>5
  <2>7. PlacesDiffer(placed)
    BY <1>4, <2>5, <2>6 DEF PlacesDiffer
  <2>8. \A k \in DOMAIN placed, i \in DOMAIN t : Place(placed[k]) # Place(t[i])
    BY <1>4, <1>5, <2>4, <2>5
  <2>9. BatchWork(n)
    BY <1>10, <2>1, <2>2, <2>3, <2>7, <2>8 DEF BatchWork
  <2>10. ShapeOf(n)
    BY <1>10, <2>9 DEF ShapeOf
  <2>11. To(w, n)
    BY <1>1, <1>13 DEF n
  <2>12. Base'
    BY <1>1, <1>2, <1>6, <1>10, <1>13, <2>10, <2>11, WorkerSteps DEF Grown
  <2>13. QED
    BY <1>6, <2>12
<1>14. QED
  BY <1>12, <1>13

\* A worker that searches has nothing else in hand.
LEMMA SearchIs ==
  ASSUME Base, NEW w \in Workers, NEW n \in WorkOver(DOMAIN rows), n.pc \in {"search", "hits"},
         n.sparse # NoRanking => IsInjective(n.sparse) /\ Len(n.sparse) <= Limit,
         n.dense # NoRanking => IsInjective(n.dense) /\ Len(n.dense) <= Limit,
         To(w, n), UNCHANGED <<rows, backfill, calls, failures, last>>
  PROVE  Base' /\ Grown(rows, rows')
<1>1. ShapeOf(n)
  BY DEF ShapeOf
<1>2. failures' \in 0..MaxFailures
  BY WorkerIs
<1>3. QED
  BY <1>1, <1>2, OwnSteps

LEMMA EmbedQueryKeeps ==
  ASSUME Base, NEW w \in Workers, EmbedQuery(w)
  PROVE  Base' /\ Grown(rows, rows')
<1>1. PICK query \in BOOLEAN : To(w, [work[w] EXCEPT !.pc = "search", !.query = query])
  BY DEF EmbedQuery
<1>2. /\ work[w].pc = "query" /\ UNCHANGED <<rows, backfill, calls, failures, last>>
  BY DEF EmbedQuery, At
<1> DEFINE n == [work[w] EXCEPT !.pc = "search", !.query = query]
<1>3. /\ n \in WorkOver(DOMAIN rows) /\ n.pc = "search"
      /\ n.sparse = work[w].sparse /\ n.dense = work[w].dense
  BY WorkerIs DEF WorkOver
<1>4. work[w].sparse = NoRanking /\ work[w].dense = NoRanking
  BY <1>2, WorkerIs DEF ShapeOf
<1>5. To(w, n)
  BY <1>1
<1> HIDE DEF n
<1>6. QED
  BY <1>2, <1>3, <1>4, <1>5, SearchIs

LEMMA VisibleIs ==
  ASSUME Base, NEW w \in Workers
  PROVE  /\ {i \in Visible(w) : ByWords[rows[i].chunk] > 0} \in SUBSET DOMAIN rows
         /\ {i \in Visible(w) : rows[i].vector} \in SUBSET DOMAIN rows
<1>1. QED
  BY DEF Visible, ActiveRows

LEMMA SearchWordsKeeps ==
  ASSUME Base, NEW w \in Workers, SearchWords(w)
  PROVE  Base' /\ Grown(rows, rows')
<1> DEFINE j == work[w]
           set == {i \in Visible(w) : ByWords[rows[i].chunk] > 0}
           r == Ranking(set, ByWords)
           n == [j EXCEPT !.sparse = r]
<1>1. /\ j.pc = "search" /\ UNCHANGED <<rows, backfill, calls, failures, last>> /\ To(w, n)
  BY DEF SearchWords, At
<1>2. rows \in Seq(Row) /\ j \in WorkOver(DOMAIN rows) /\ ShapeOf(j)
  BY WorkerIs
<1>3. set \in SUBSET DOMAIN rows /\ ByWords \in [Chunks -> Nat]
  BY VisibleIs, QueryAssumption
<1> HIDE DEF set
<1>4. r \in Seq(set) /\ IsInjective(r) /\ Len(r) <= Limit
  BY <1>2, <1>3, RankingIs
<1>5. r \in Seq(DOMAIN rows)
  BY <1>3, <1>4, SeqMonotonic
<1> HIDE DEF r
<1>6. /\ n \in WorkOver(DOMAIN rows) /\ n.pc = "search" /\ n.sparse = r /\ n.dense = j.dense
  BY <1>1, <1>2, <1>5 DEF WorkOver
<1> HIDE DEF n
<1>7. n.dense # NoRanking => IsInjective(n.dense) /\ Len(n.dense) <= Limit
  BY <1>2, <1>6 DEF ShapeOf
<1>8. QED
  BY <1>1, <1>4, <1>6, <1>7, SearchIs

LEMMA SearchVectorsKeeps ==
  ASSUME Base, NEW w \in Workers, SearchVectors(w)
  PROVE  Base' /\ Grown(rows, rows')
<1> DEFINE j == work[w]
           set == {i \in Visible(w) : rows[i].vector}
           r == Ranking(set, ByVector)
           n == [j EXCEPT !.dense = r]
<1>1. /\ j.pc = "search" /\ UNCHANGED <<rows, backfill, calls, failures, last>> /\ To(w, n)
  BY DEF SearchVectors, At
<1>2. rows \in Seq(Row) /\ j \in WorkOver(DOMAIN rows) /\ ShapeOf(j)
  BY WorkerIs
<1>3. set \in SUBSET DOMAIN rows /\ ByVector \in [Chunks -> Nat]
  BY VisibleIs, QueryAssumption
<1> HIDE DEF set
<1>4. r \in Seq(set) /\ IsInjective(r) /\ Len(r) <= Limit
  BY <1>2, <1>3, RankingIs
<1>5. r \in Seq(DOMAIN rows)
  BY <1>3, <1>4, SeqMonotonic
<1> HIDE DEF r
<1>6. /\ n \in WorkOver(DOMAIN rows) /\ n.pc = "search" /\ n.dense = r /\ n.sparse = j.sparse
  BY <1>1, <1>2, <1>5 DEF WorkOver
<1> HIDE DEF n
<1>7. n.sparse # NoRanking => IsInjective(n.sparse) /\ Len(n.sparse) <= Limit
  BY <1>2, <1>6 DEF ShapeOf
<1>8. QED
  BY <1>1, <1>4, <1>6, <1>7, SearchIs

\* A search that ranked has both rankings.
LEMMA RankedIs ==
  ASSUME Base, NEW w \in Workers, Searched(w)
  PROVE  Ranked(work[w].sparse, DenseOf(w))
<1> DEFINE j == work[w]
<1>1. j \in Work /\ ShapeOf(j)
  BY WorkerIs
<1>2. j.sparse # NoRanking /\ (j.query => j.dense # NoRanking)
  BY DEF Searched, DenseOf
<1>3. j.sparse \in Rankings /\ IsInjective(j.sparse) /\ Len(j.sparse) <= Limit
  BY <1>1, <1>2 DEF Work, ShapeOf
<1>4. CASE j.query
  BY <1>1, <1>2, <1>3, <1>4 DEF Work, ShapeOf, DenseOf, Ranked
<1>5. CASE ~j.query
  <2>1. <<>> \in Rankings /\ IsInjective(<<>>) /\ Len(<<>>) <= Limit
    BY EmptyIs, QueryAssumption DEF Rankings, IsInjective
  <2>2. QED
    BY <1>3, <1>5, <2>1 DEF DenseOf, Ranked
<1>6. QED
  BY <1>4, <1>5

\* What the reranker chose, as the code returns it.
LEMMA ChosenIs ==
  ASSUME Base, NEW w \in Workers, Searched(w),
         NEW chosen \in kSubset(Min({TopK, Len(Fused(w))}), ToSet(Fused(w)))
  PROVE  /\ SetToSeq(chosen) \in Rankings /\ IsInjective(SetToSeq(chosen))
         /\ ToSet(SetToSeq(chosen)) \subseteq ToSet(Fused(w))
         /\ Len(SetToSeq(chosen)) = Min({TopK, Len(Fused(w))})
<1>1. rows \in Seq(Row) /\ Ranked(work[w].sparse, DenseOf(w))
  BY WorkerIs, RankedIs
<1>2. Fused(w) \in Rankings
  BY <1>1, FusedIs
<1>3. ToSet(Fused(w)) \subseteq DOMAIN rows
  BY <1>2, LenProperties, ElementOfSeq DEF ToSet, Rankings
<1>4. chosen \subseteq ToSet(Fused(w)) /\ Cardinality(chosen) = Min({TopK, Len(Fused(w))})
  BY DEF kSubset
<1>5. IsFiniteSet(chosen)
  BY <1>1, <1>3, <1>4, RowsFinite
<1>6. /\ SetToSeq(chosen) \in Seq(chosen) /\ Len(SetToSeq(chosen)) = Cardinality(chosen)
      /\ IsInjective(SetToSeq(chosen)) /\ ToSet(SetToSeq(chosen)) \subseteq chosen
  BY <1>5, SetToSeqIs
<1>7. SetToSeq(chosen) \in Rankings
  BY <1>3, <1>4, <1>6, SeqMonotonic DEF Rankings
<1>8. QED
  BY <1>4, <1>6, <1>7

\* What a search returns.
LEMMA FuseIs ==
  ASSUME Base, NEW w \in Workers, Fuse(w)
  PROVE  \E hits \in Rankings, reranked \in BOOLEAN :
           /\ To(w, [work[w] EXCEPT !.pc = "hits", !.hits = hits, !.reranked = reranked])
           /\ \/ hits = First(TopK, Fused(w)) /\ reranked = work[w].reranked
              \/ /\ reranked /\ IsInjective(hits) /\ ToSet(hits) \subseteq ToSet(Fused(w))
                 /\ Len(hits) = Min({TopK, Len(Fused(w))})
<1> DEFINE j == work[w]
<1>1. Searched(w) /\ rows \in Seq(Row) /\ j \in Work
  BY WorkerIs DEF Fuse
<1>2. CASE To(w, [j EXCEPT !.pc = "hits", !.hits = First(TopK, Fused(w))])
  <2> DEFINE hits == First(TopK, Fused(w))
  <2>1. hits \in Rankings
    <3>1. Fused(w) \in Rankings /\ TopK \in Nat
      BY <1>1, RankedIs, FusedIs, QueryAssumption
    <3>2. QED
      BY <3>1, FirstIs DEF Rankings
  <2> HIDE DEF hits
  <2>2. [j EXCEPT !.pc = "hits", !.hits = hits] =
          [j EXCEPT !.pc = "hits", !.hits = hits, !.reranked = j.reranked]
    BY <1>1 DEF Work
  <2>3. j.reranked \in BOOLEAN
    BY <1>1 DEF Work
  <2>4. QED
    BY <1>2, <2>1, <2>2, <2>3 DEF hits
<1>3. CASE \E chosen \in kSubset(Min({TopK, Len(Fused(w))}), ToSet(Fused(w))) :
             To(w, [j EXCEPT !.pc = "hits", !.hits = SetToSeq(chosen), !.reranked = TRUE])
  <2>1. PICK chosen \in kSubset(Min({TopK, Len(Fused(w))}), ToSet(Fused(w))) :
          To(w, [j EXCEPT !.pc = "hits", !.hits = SetToSeq(chosen), !.reranked = TRUE])
    BY <1>3
  <2>2. /\ SetToSeq(chosen) \in Rankings /\ IsInjective(SetToSeq(chosen))
        /\ ToSet(SetToSeq(chosen)) \subseteq ToSet(Fused(w))
        /\ Len(SetToSeq(chosen)) = Min({TopK, Len(Fused(w))})
    BY <1>1, ChosenIs
  <2>3. QED
    BY <2>1, <2>2
<1>4. QED
  BY <1>2, <1>3 DEF Fuse

LEMMA FuseKeeps ==
  ASSUME Base, NEW w \in Workers, Fuse(w)
  PROVE  Base' /\ Grown(rows, rows')
<1> DEFINE j == work[w]
<1>1. PICK hits \in Rankings, reranked \in BOOLEAN :
        To(w, [j EXCEPT !.pc = "hits", !.hits = hits, !.reranked = reranked])
  BY FuseIs
<1> DEFINE n == [j EXCEPT !.pc = "hits", !.hits = hits, !.reranked = reranked]
<1>2. j \in WorkOver(DOMAIN rows) /\ ShapeOf(j)
  BY WorkerIs
<1>3. /\ n \in WorkOver(DOMAIN rows) /\ n.pc = "hits"
      /\ n.sparse = j.sparse /\ n.dense = j.dense
  BY <1>2 DEF WorkOver, Rankings
<1>4. To(w, n) /\ UNCHANGED <<rows, backfill, calls, failures, last>>
  BY <1>1 DEF Fuse
<1> HIDE DEF n
<1>5. /\ n.sparse # NoRanking => IsInjective(n.sparse) /\ Len(n.sparse) <= Limit
      /\ n.dense # NoRanking => IsInjective(n.dense) /\ Len(n.dense) <= Limit
  BY <1>2, <1>3 DEF ShapeOf
<1>6. QED
  BY <1>3, <1>4, <1>5, SearchIs

\* A step of the backfill.
LEMMA BackfillSteps ==
  ASSUME Base, work' = work, failures' = failures, last' = last,
         calls' \in 0..MaxCalls, Grown(rows, rows'),
         backfill' \in [todo : Rankings, vector : BOOLEAN],
         backfill'.vector => backfill'.todo # <<>>
  PROVE  Base'
<1>1. /\ work \in [Workers -> Work] /\ \A o \in Workers : ShapeOf(work[o])
      /\ failures \in 0..MaxFailures
      /\ last \in [Sources -> [alone : BOOLEAN, placed : Seq(Piece)]]
  BY DEF Base, TypeOK
<1>2. DOMAIN rows \subseteq DOMAIN rows' /\ rows' \in Seq(Row)
  BY DEF Grown
<1>3. work' \in [Workers -> Work']
  BY <1>1, <1>2, RowsAdded, WorkIs
<1>4. backfill' \in [todo : Rankings', vector : BOOLEAN]
  BY <1>2, RowsAdded
<1>5. TypeOK'
  BY <1>1, <1>2, <1>3, <1>4 DEF TypeOK
<1>6. (\A o \in Workers : ShapeOf(work[o]))'
  BY <1>1 DEF ShapeOf, TextWork, BatchWork
<1>7. QED
  BY <1>5, <1>6 DEF Base

LEMMA StartBackfillKeeps ==
  ASSUME Base, StartBackfill
  PROVE  Base' /\ Grown(rows, rows')
<1> DEFINE before == {p \in Missing \X Missing : p[1] < p[2]}
<1>1. rows \in Seq(Row) /\ calls \in 0..MaxCalls
  BY DEF Base, TypeOK
<1>2. Missing \in SUBSET DOMAIN rows
  BY DEF Missing, ActiveRows
<1>3. IsFiniteSet(Missing) /\ \A i \in Missing : i \in Nat
  BY <1>1, <1>2, RowsFinite
<1>4. Orders(Missing, before)
  BY <1>3 DEF Orders
<1>5. Sorted(Missing, before) \in Seq(Missing)
  BY <1>3, <1>4, SortedIs
<1>6. Sorted(Missing, before) \in Rankings
  BY <1>2, <1>5, SeqMonotonic DEF Rankings
<1>7. /\ backfill' = [todo |-> Sorted(Missing, before), vector |-> FALSE]
      /\ calls < MaxCalls /\ calls' = calls + 1
      /\ UNCHANGED <<rows, work, failures, last>>
  BY DEF StartBackfill
<1> HIDE DEF before
<1>8. backfill' \in [todo : Rankings, vector : BOOLEAN] /\ ~backfill'.vector
  BY <1>6, <1>7
<1>9. calls' \in 0..MaxCalls
  BY <1>1, <1>7, CorpusBounds
<1>10. Grown(rows, rows')
  BY <1>1, <1>7, SameRows
<1>11. QED
  BY <1>7, <1>8, <1>9, <1>10, BackfillSteps

LEMMA FindVectorKeeps ==
  ASSUME Base, FindVector
  PROVE  Base' /\ Grown(rows, rows')
<1>1. rows \in Seq(Row) /\ calls \in 0..MaxCalls /\ backfill \in [todo : Rankings, vector : BOOLEAN]
  BY DEF Base, TypeOK
<1>2. UNCHANGED <<rows, work, calls, failures, last>> /\ backfill.todo # <<>>
  BY DEF FindVector
<1>3. <<>> \in Rankings
  BY EmptyIs DEF Rankings
<1>4. /\ backfill' \in [todo : Rankings, vector : BOOLEAN]
      /\ backfill'.vector => backfill'.todo # <<>>
  <2>1. CASE backfill' = [backfill EXCEPT !.vector = TRUE]
    BY <1>1, <1>2, <2>1
  <2>2. CASE backfill' = [todo |-> <<>>, vector |-> FALSE]
    BY <1>3, <2>2
  <2>3. QED
    BY <2>1, <2>2 DEF FindVector
<1>5. Grown(rows, rows')
  BY <1>1, <1>2, SameRows
<1>6. QED
  BY <1>1, <1>2, <1>4, <1>5, BackfillSteps

LEMMA SetVectorKeeps ==
  ASSUME Base, SetVector
  PROVE  /\ Base' /\ Grown(rows, rows') /\ DOMAIN rows' = DOMAIN rows
         /\ \A i \in DOMAIN rows : rows'[i].active = rows[i].active
<1> DEFINE at == Head(backfill.todo)
<1>1. /\ rows \in Seq(Row) /\ calls \in 0..MaxCalls
      /\ backfill \in [todo : Rankings, vector : BOOLEAN] /\ backfill.todo # <<>>
      /\ backfill'  = [todo |-> Tail(backfill.todo), vector |-> FALSE]
      /\ rows' = [rows EXCEPT ![at].vector = TRUE]
      /\ UNCHANGED <<work, calls, failures, last>>
  BY DEF Base, TypeOK, SetVector
<1>2. at \in DOMAIN rows /\ Tail(backfill.todo) \in Rankings
  BY <1>1, HeadTailProperties DEF Rankings
<1> HIDE DEF at
<1>3. /\ DOMAIN rows' = DOMAIN rows /\ Len(rows) \in Nat /\ DOMAIN rows = 1..Len(rows)
      /\ \A i \in DOMAIN rows :
           rows[i] \in Row /\ rows'[i] = IF i = at THEN [rows[i] EXCEPT !.vector = TRUE] ELSE rows[i]
  BY <1>1, <1>2, RowsFinite
<1>4. \A i \in DOMAIN rows :
        /\ rows'[i] \in Row
        /\ rows'[i].source = rows[i].source /\ rows'[i].version = rows[i].version
        /\ rows'[i].index = rows[i].index /\ rows'[i].chunk = rows[i].chunk
        /\ rows[i].vector => rows'[i].vector
        /\ rows'[i].active = rows[i].active
  BY <1>3 DEF Row
<1>5. rows' \in [1..Len(rows) -> Row]
  <2>1. rows' = [i \in DOMAIN rows |-> rows'[i]]
    BY <1>1, <1>3
  <2>2. QED
    BY <1>3, <1>4, <2>1
<1>6. rows' \in Seq(Row)
  BY <1>3, <1>5, FunctionIsSequence
<1>7. Grown(rows, rows')
  BY <1>3, <1>4, <1>6 DEF Grown
<1>8. backfill' \in [todo : Rankings, vector : BOOLEAN] /\ ~backfill'.vector
  BY <1>1, <1>2
<1>9. Base'
  BY <1>1, <1>7, <1>8, BackfillSteps
<1>10. QED
  BY <1>3, <1>4, <1>7, <1>9

LEMMA InitBase == Init => Base
<1> SUFFICES ASSUME Init PROVE Base
  OBVIOUS
<1>1. /\ rows = <<>> /\ work = [w \in Workers |-> Idle]
      /\ backfill = [todo |-> <<>>, vector |-> FALSE]
      /\ calls = 0 /\ failures = 0
      /\ last = [s \in Sources |-> [alone |-> TRUE, placed |-> <<>>]]
  BY DEF Init
<1>2. <<>> \in Rankings /\ rows \in Seq(Row) /\ <<>> \in Seq(Piece)
  BY <1>1, EmptyIs DEF Rankings
<1>3. Idle \in Work /\ ShapeOf(Idle)
  BY IdleIs, WorkIs
<1>4. work \in [Workers -> Work] /\ \A w \in Workers : ShapeOf(work[w])
  BY <1>1, <1>3
<1>5. backfill \in [todo : Rankings, vector : BOOLEAN] /\ ~backfill.vector
  BY <1>1, <1>2
<1>6. calls \in 0..MaxCalls /\ failures \in 0..MaxFailures
  BY <1>1, CorpusBounds
<1>7. last \in [Sources -> [alone : BOOLEAN, placed : Seq(Piece)]]
  BY <1>1, <1>2
<1>8. QED
  BY <1>2, <1>4, <1>5, <1>6, <1>7 DEF Base, TypeOK

LEMMA StutterBase ==
  ASSUME Base, UNCHANGED vars
  PROVE  Base' /\ Grown(rows, rows')
<1>1. /\ rows' = rows /\ work' = work /\ backfill' = backfill /\ calls' = calls
      /\ failures' = failures /\ last' = last
  BY DEF vars
<1>2. rows \in Seq(Row)
  BY DEF Base, TypeOK
<1>3. Grown(rows, rows')
  BY <1>1, <1>2, SameRows
<1>4. /\ calls \in 0..MaxCalls /\ backfill \in [todo : Rankings, vector : BOOLEAN]
      /\ backfill.vector => backfill.todo # <<>>
  BY DEF Base, TypeOK
<1>5. QED
  BY <1>1, <1>3, <1>4, BackfillSteps

LEMMA NextBase ==
  ASSUME Base, [Next]_vars
  PROVE  Base' /\ Grown(rows, rows')
<1>1. ASSUME NEW w \in Workers, Step(w) PROVE Base' /\ Grown(rows, rows')
  BY <1>1, ReadChunkKeeps, PlaceChunkKeeps, GatherKeeps, EmbedAllKeeps, StoreUnitKeeps,
     EmbedQueryKeeps, SearchWordsKeeps, SearchVectorsKeeps, FuseKeeps, ToIdleKeeps DEF Step
<1>2. ASSUME NEW w \in Workers, BreakOff(w) \/ StartRetrieval(w) PROVE Base' /\ Grown(rows, rows')
  BY <1>2, ToIdleKeeps, StartRetrievalKeeps
<1>3. ASSUME NEW w \in Workers, NEW e \in Entries, StartText(w, e) PROVE Base' /\ Grown(rows, rows')
  BY <1>3, StartTextKeeps
<1>4. ASSUME NEW w \in Workers, NEW v \in Sessions, NEW b \in Batches, StartBatch(w, v, b)
      PROVE  Base' /\ Grown(rows, rows')
  BY <1>4, StartBatchKeeps
<1>5. ASSUME StartBackfill \/ FindVector \/ SetVector PROVE Base' /\ Grown(rows, rows')
  BY <1>5, StartBackfillKeeps, FindVectorKeeps, SetVectorKeeps
<1>6. QED
  BY <1>1, <1>2, <1>3, <1>4, <1>5, StutterBase DEF Next

LEMMA BaseHolds == Spec => []Base
<1>1. Base /\ [Next]_vars => Base'
  BY NextBase
<1>2. QED
  BY <1>1, InitBase, PTL DEF Spec

\* Every state is well-formed: rows, the work in hand and the rankings refer to rows there are
\* (retrieval.py, and document_chunks in models.py).
THEOREM TypeCorrect == Spec => []TypeOK
<1>1. Base => TypeOK
  BY DEF Base
<1>2. QED
  BY <1>1, BaseHolds, PTL

\* No call and no backfill ever takes a vector away, whatever the provider does
\* (retrieval_repository.py, upsert_document, set_embedding).
THEOREM VectorsKept == Spec => VectorsStay
<1> DEFINE step == \A i \in DOMAIN rows : rows[i].vector => rows'[i].vector
<1>1. Base /\ [Next]_vars => [step]_vars
  <2>1. SUFFICES ASSUME Base, [Next]_vars PROVE step
    OBVIOUS
  <2>2. Grown(rows, rows')
    BY <2>1, NextBase
  <2>3. QED
    BY <2>2 DEF Grown
<1>2. QED
  BY <1>1, BaseHolds, PTL DEF Spec, VectorsStay

(***************************************************************************)
(* Calls that work on the same source.                                     *)
(***************************************************************************)

LEMMA DifferStays ==
  ASSUME RowsDiffer, Grown(rows, rows'), DOMAIN rows' = DOMAIN rows
  PROVE  RowsDiffer'
<1>1. QED
  BY DEF RowsDiffer, Grown, Place

LEMMA DifferUpserted ==
  ASSUME RowsDiffer, Grown(rows, rows'), NEW u, NEW v, NEW r, Leaves(rows', r, u, v)
  PROVE  RowsDiffer'
<1>1. /\ DOMAIN rows' = DOMAIN rows \cup {r} /\ SameRow(rows'[r], u, v)
      /\ r \notin DOMAIN rows => \A i \in DOMAIN rows : ~SameRow(rows[i], u, v)
  BY DEF Leaves
<1>2. \A i \in DOMAIN rows :
        /\ Place(rows'[i]) = Place(rows[i]) /\ rows'[i].version = rows[i].version
        /\ rows'[i].chunk = rows[i].chunk
        /\ SameRow(rows'[i], u, v) <=> SameRow(rows[i], u, v)
  BY DEF Grown, Place, SameRow
<1>3. SUFFICES ASSUME NEW i \in DOMAIN rows', NEW k \in DOMAIN rows',
                      Place(rows'[i]) = Place(rows'[k]), rows'[i].version = rows'[k].version,
                      rows'[i].chunk = rows'[k].chunk
               PROVE  i = k
  BY DEF RowsDiffer, Place
<1>4. SameRow(rows'[i], u, v) <=> SameRow(rows'[k], u, v)
  BY <1>3 DEF SameRow, Place
<1>5. CASE i \in DOMAIN rows /\ k \in DOMAIN rows
  BY <1>2, <1>3, <1>5 DEF RowsDiffer
<1>6. CASE i \notin DOMAIN rows /\ k \in DOMAIN rows
  BY <1>1, <1>2, <1>4, <1>6
<1>7. CASE i \in DOMAIN rows /\ k \notin DOMAIN rows
  BY <1>1, <1>2, <1>4, <1>7
<1>8. CASE i \notin DOMAIN rows /\ k \notin DOMAIN rows
  BY <1>1, <1>8
<1>9. QED
  BY <1>5, <1>6, <1>7, <1>8

\* What a worker that is at work does with its sources.
Moves(w) ==
  /\ \A o \in Workers \ {w} : work'[o] = work[o]
  /\ work'[w].pc \in {"chunk", "upsert", "gather", "embed", "store"} => Indexing(w)
  /\ \/ work'[w].items = <<>> /\ work'[w].pc = "idle"
     \/ work'[w].items = work[w].items /\ work'[w].crossed = work[w].crossed

LEMMA MovesIdle ==
  ASSUME Base, NEW w \in Workers, To(w, Idle)
  PROVE  Moves(w)
<1>1. \A o \in Workers : work'[o] = IF o = w THEN Idle ELSE work[o]
  BY DEF Base, TypeOK, To
<1>2. Idle.pc = "idle" /\ Idle.items = <<>>
  BY DEF Idle
<1>3. QED
  BY <1>1, <1>2 DEF Moves

LEMMA MovesOn ==
  ASSUME Base, NEW w \in Workers, NEW n, To(w, n),
         n.items = work[w].items, n.crossed = work[w].crossed,
         n.pc \in {"chunk", "upsert", "gather", "embed", "store"} => Indexing(w)
  PROVE  Moves(w)
<1>1. \A o \in Workers : work'[o] = IF o = w THEN n ELSE work[o]
  BY DEF Base, TypeOK, To
<1>2. QED
  BY <1>1 DEF Moves

LEMMA ReadChunkMoves ==
  ASSUME Base, NEW w \in Workers, ReadChunk(w)
  PROVE  Moves(w) /\ work'[w].placed = work[w].placed /\ work'[w].version = work[w].version
         /\ work'[w].pc \in {"chunk", "upsert"} /\ UNCHANGED <<rows, last>>
<1> DEFINE j == work[w]
           unit(vector) == [source |-> j.items[1].source, index |-> Len(j.placed),
                            chunk |-> Head(j.plan), vector |-> vector]
           with(vector) == [j EXCEPT !.pc = "upsert", !.units = <<unit(vector)>>]
           cut == [j EXCEPT !.plan = HalvesOf[Head(j.plan)] \o Tail(@)]
<1>1. j \in Work /\ work \in [Workers -> Work]
  BY WorkerIs DEF Base, TypeOK
<1>2. j.pc = "chunk" /\ UNCHANGED <<rows, last>>
  BY DEF ReadChunk, At
<1>3. (\E vector \in BOOLEAN : To(w, with(vector))) \/ To(w, cut)
  <2>1. \A vector \in BOOLEAN :
          [[source |-> j.items[1].source, index |-> Len(j.placed), chunk |-> Head(j.plan),
            vector |-> FALSE] EXCEPT !.vector = vector] = unit(vector)
    OBVIOUS
  <2>2. QED
    BY <2>1 DEF ReadChunk
<1>4. ASSUME NEW n, To(w, n), (\E vector \in BOOLEAN : n = with(vector)) \/ n = cut
      PROVE  Moves(w) /\ work'[w].placed = j.placed /\ work'[w].version = j.version
             /\ work'[w].pc \in {"chunk", "upsert"}
  <2>1. /\ n.items = j.items /\ n.crossed = j.crossed /\ n.placed = j.placed
        /\ n.version = j.version /\ n.pc \in {"chunk", "upsert"}
    <3> HIDE DEF unit
    <3>1. QED
      BY <1>1, <1>2, <1>4 DEF Work
  <2>2. Indexing(w) /\ work'[w] = n
    BY <1>1, <1>2, <1>4 DEF Indexing, To
  <2>3. QED
    BY <1>4, <2>1, <2>2, MovesOn
<1> HIDE DEF with, cut
<1>5. QED
  BY <1>2, <1>3, <1>4

LEMMA PlaceChunkMoves ==
  ASSUME Base, NEW w \in Workers, PlaceChunk(w)
  PROVE  /\ Moves(w) /\ Indexing(w)
         /\ \/ work'[w].pc = "idle" /\ Ended(w, WithPiece(w, work[w].units[1]))
            \/ /\ work'[w].pc = "chunk" /\ work'[w].version = work[w].version
               /\ work'[w].placed = WithPiece(w, work[w].units[1]) /\ last' = last
<1> DEFINE j == work[w]
           placed == WithPiece(w, j.units[1])
           next == [j EXCEPT !.pc = "chunk", !.plan = Tail(@), !.placed = placed]
<1>1. j \in Work /\ work \in [Workers -> Work]
  BY WorkerIs DEF Base, TypeOK
<1>2. j.pc = "upsert" /\ Indexing(w)
  BY DEF PlaceChunk, At, Indexing
<1>3. (To(w, Idle) /\ Ended(w, placed)) \/ (To(w, next) /\ last' = last)
  BY DEF PlaceChunk
<1>4. CASE To(w, Idle) /\ Ended(w, placed)
  <2>1. work'[w] = Idle /\ Idle.pc = "idle"
    BY <1>1, <1>4 DEF To, Idle
  <2>2. QED
    BY <1>2, <1>4, <2>1, MovesIdle
<1>5. CASE To(w, next) /\ last' = last
  <2> DEFINE n == next
  <2> HIDE DEF placed
  <2>1. /\ n.items = j.items /\ n.crossed = j.crossed /\ n.placed = placed
        /\ n.version = j.version /\ n.pc = "chunk"
    BY <1>1 DEF Work
  <2>2. work'[w] = n /\ To(w, n)
    BY <1>1, <1>5 DEF To
  <2> HIDE DEF n
  <2>3. QED
    BY <1>2, <1>5, <2>1, <2>2, MovesOn DEF placed
<1>6. QED
  BY <1>3, <1>4, <1>5

LEMMA GatherMoves ==
  ASSUME Base, NEW w \in Workers, Gather(w)
  PROVE  /\ Moves(w) /\ Indexing(w) /\ last' = last
         /\ work'[w].pc \in {"gather", "embed"} /\ work'[w].version = work[w].version
         /\ work'[w].placed = work[w].placed /\ work'[w].plan = Tail(work[w].plan)
         /\ work'[w].pc = "gather" <=> Len(work[w].plan) # 1
<1> DEFINE j == work[w]
           item == Head(j.plan)
           joined == j.units \o UnitsOf(w, item)
           pc == IF Len(j.plan) = 1 THEN "embed" ELSE "gather"
           n == [j EXCEPT !.units = joined, !.plan = Tail(@), !.pc = pc]
<1>1. j \in Work /\ work \in [Workers -> Work]
  BY WorkerIs DEF Base, TypeOK
<1>2. j.pc = "gather" /\ Indexing(w) /\ last' = last /\ To(w, n)
  BY DEF Gather, At, Indexing, UnitsOf
<1>3. /\ n.items = j.items /\ n.crossed = j.crossed /\ n.placed = j.placed
      /\ n.version = j.version /\ n.pc = pc /\ n.plan = Tail(j.plan)
  <2> HIDE DEF joined, pc
  <2>1. QED
    BY <1>1 DEF Work
<1>4. work'[w] = n
  BY <1>1, <1>2 DEF To
<1> HIDE DEF n
<1>5. QED
  BY <1>2, <1>3, <1>4, MovesOn

LEMMA EmbedAllMoves ==
  ASSUME Base, NEW w \in Workers, EmbedAll(w)
  PROVE  /\ Moves(w) /\ UNCHANGED <<rows, last>>
         /\ work[w].pc = "embed" /\ work'[w].pc = "store" /\ work'[w].version = work[w].version
         /\ work'[w].placed = work[w].placed
<1> DEFINE j == work[w]
           given(made) == [i \in DOMAIN j.units |->
                             IF i \in made THEN [j.units[i] EXCEPT !.vector = TRUE] ELSE j.units[i]]
<1>1. j \in Work /\ work \in [Workers -> Work]
  BY WorkerIs DEF Base, TypeOK
<1>2. j.pc = "embed" /\ Indexing(w) /\ UNCHANGED <<rows, last>>
  BY DEF EmbedAll, At, Indexing
<1>3. PICK made : To(w, [j EXCEPT !.pc = "store", !.units = given(made)])
  BY DEF EmbedAll
<1> DEFINE q == given(made)
           n == [j EXCEPT !.pc = "store", !.units = q]
<1>4. To(w, n) /\ work'[w] = n
  BY <1>1, <1>3 DEF To
<1> HIDE DEF q
<1>5. /\ n.items = j.items /\ n.crossed = j.crossed /\ n.placed = j.placed
      /\ n.version = j.version /\ n.pc = "store"
  BY <1>1 DEF Work
<1> HIDE DEF n
<1>6. QED
  BY <1>2, <1>4, <1>5, MovesOn

LEMMA StoreUnitMoves ==
  ASSUME Base, NEW w \in Workers, StoreUnit(w)
  PROVE  /\ Moves(w) /\ Indexing(w)
         /\ work'[w].own = work[w].own \cup {RowOf(Head(work[w].units), work[w].version)}
         /\ work'[w].sparse = work[w].sparse
         /\ \/ work'[w].pc = "query" /\ Ended(w, WithPiece(w, Head(work[w].units)))
            \/ /\ work'[w].pc = "store" /\ work'[w].version = work[w].version
               /\ work'[w].placed = WithPiece(w, Head(work[w].units)) /\ last' = last
<1> DEFINE j == work[w]
           placed == WithPiece(w, Head(j.units))
           own == j.own \cup {RowOf(Head(j.units), j.version)}
           next == [j EXCEPT !.units = Tail(@), !.placed = placed, !.own = own]
           done == [next EXCEPT !.pc = "query", !.placed = <<>>, !.model = FALSE]
<1>1. j \in Work /\ work \in [Workers -> Work]
  BY WorkerIs DEF Base, TypeOK
<1>2. j.pc = "store" /\ Indexing(w)
  BY DEF StoreUnit, At, Indexing
<1>3. (To(w, done) /\ Ended(w, placed)) \/ (To(w, next) /\ last' = last)
  BY DEF StoreUnit
<1> HIDE DEF placed, own
<1>4. /\ next.items = j.items /\ next.crossed = j.crossed /\ next.placed = placed
      /\ next.version = j.version /\ next.pc = "store" /\ next.own = own
      /\ next.sparse = j.sparse
      /\ done.items = j.items /\ done.crossed = j.crossed /\ done.pc = "query"
      /\ done.own = own /\ done.sparse = j.sparse
  BY <1>1, <1>2 DEF Work
<1> HIDE DEF next, done
<1>5. CASE To(w, done) /\ Ended(w, placed)
  <2>1. work'[w] = done
    BY <1>1, <1>5 DEF To
  <2>2. QED
    BY <1>2, <1>4, <1>5, <2>1, MovesOn DEF placed, own
<1>6. CASE To(w, next) /\ last' = last
  <2>1. work'[w] = next
    BY <1>1, <1>6 DEF To
  <2>2. QED
    BY <1>2, <1>4, <1>6, <2>1, MovesOn DEF placed, own
<1>7. QED
  BY <1>3, <1>5, <1>6

\* The steps of a search, and the ways in which a call ends early.
Searches(w) ==
  \/ EmbedQuery(w) \/ SearchWords(w) \/ SearchVectors(w) \/ Fuse(w) \/ Return(w) \/ BreakOff(w)

LEMMA SearchMoves ==
  ASSUME Base, NEW w \in Workers, Searches(w)
  PROVE  Moves(w) /\ UNCHANGED <<rows, last>> /\ work'[w].pc \in {"idle", "search", "hits"}
<1> DEFINE j == work[w]
<1>1. j \in Work /\ work \in [Workers -> Work]
  BY WorkerIs DEF Base, TypeOK
<1>2. UNCHANGED <<rows, last>>
  BY DEF Searches, EmbedQuery, SearchWords, SearchVectors, Fuse, Return, BreakOff
<1>3. CASE Return(w) \/ BreakOff(w)
  <2>1. To(w, Idle) /\ work'[w] = Idle /\ Idle.pc = "idle"
    BY <1>1, <1>3 DEF Return, BreakOff, To, Idle
  <2>2. QED
    BY <1>2, <2>1, MovesIdle
<1>4. CASE EmbedQuery(w) \/ SearchWords(w) \/ SearchVectors(w) \/ Fuse(w)
  <2>1. \E n : /\ To(w, n) /\ n.items = j.items /\ n.crossed = j.crossed
               /\ n.pc \in {"search", "hits"}
    <3>1. CASE EmbedQuery(w)
      <4>1. PICK q \in BOOLEAN : To(w, [j EXCEPT !.pc = "search", !.query = q])
        BY <3>1 DEF EmbedQuery
      <4> DEFINE n == [j EXCEPT !.pc = "search", !.query = q]
      <4>2. To(w, n) /\ n.items = j.items /\ n.crossed = j.crossed /\ n.pc \in {"search", "hits"}
        BY <1>1, <4>1 DEF Work
      <4> HIDE DEF n
      <4>3. QED
        BY <4>2
    <3>2. CASE SearchWords(w)
      <4> DEFINE r == Ranking({i \in Visible(w) : ByWords[rows[i].chunk] > 0}, ByWords)
      <4>1. To(w, [j EXCEPT !.sparse = r]) /\ j.pc = "search"
        BY <3>2 DEF SearchWords, At
      <4> HIDE DEF r
      <4> DEFINE n == [j EXCEPT !.sparse = r]
      <4>2. To(w, n) /\ n.items = j.items /\ n.crossed = j.crossed /\ n.pc \in {"search", "hits"}
        BY <1>1, <4>1 DEF Work
      <4> HIDE DEF n
      <4>3. QED
        BY <4>2
    <3>3. CASE SearchVectors(w)
      <4> DEFINE r == Ranking({i \in Visible(w) : rows[i].vector}, ByVector)
      <4>1. To(w, [j EXCEPT !.dense = r]) /\ j.pc = "search"
        BY <3>3 DEF SearchVectors, At
      <4> HIDE DEF r
      <4> DEFINE n == [j EXCEPT !.dense = r]
      <4>2. To(w, n) /\ n.items = j.items /\ n.crossed = j.crossed /\ n.pc \in {"search", "hits"}
        BY <1>1, <4>1 DEF Work
      <4> HIDE DEF n
      <4>3. QED
        BY <4>2
    <3>4. CASE Fuse(w)
      <4>1. PICK hits \in Rankings, reranked \in BOOLEAN :
              To(w, [j EXCEPT !.pc = "hits", !.hits = hits, !.reranked = reranked])
        BY <3>4, FuseIs
      <4> DEFINE n == [j EXCEPT !.pc = "hits", !.hits = hits, !.reranked = reranked]
      <4>2. To(w, n) /\ n.items = j.items /\ n.crossed = j.crossed /\ n.pc \in {"search", "hits"}
        BY <1>1, <4>1 DEF Work
      <4> HIDE DEF n
      <4>3. QED
        BY <4>2
    <3>5. QED
      BY <1>4, <3>1, <3>2, <3>3, <3>4
  <2>2. PICK n : /\ To(w, n) /\ n.items = j.items /\ n.crossed = j.crossed
                 /\ n.pc \in {"search", "hits"}
    BY <2>1
  <2>3. work'[w] = n
    BY <1>1, <2>2 DEF To
  <2>4. QED
    BY <1>2, <2>2, <2>3, MovesOn
<1>5. QED
  BY <1>3, <1>4 DEF Searches

IndexingPcs == {"chunk", "upsert", "gather", "embed", "store"}

\* Two records that differ in what they crossed at most.
SameWork(j, n) ==
  /\ n.pc = j.pc /\ n.version = j.version /\ n.items = j.items /\ n.plan = j.plan
  /\ n.placed = j.placed /\ n.own = j.own /\ n.open = j.open /\ n.query = j.query
  /\ n.sparse = j.sparse /\ n.dense = j.dense /\ n.hits = j.hits /\ n.reranked = j.reranked

\* What the start of a call does to the workers.
Begins(w, sources) ==
  /\ work[w].pc = "idle" /\ WorksOn(w) = {} /\ WorksOn(w)' = sources
  /\ work'[w].crossed = {s \in sources : \E o \in Workers \ {w} : s \in WorksOn(o)}
  /\ \A o \in Workers \ {w} :
       /\ SameWork(work[o], work'[o]) /\ WorksOn(o)' = WorksOn(o)
       /\ work'[o].crossed = work[o].crossed \cup (sources \cap WorksOn(o))
  /\ \A s \in Sources : IF s \in sources THEN ~last'[s].alone ELSE last'[s] = last[s]

LEMMA StartBegins ==
  ASSUME Base, NEW w \in Workers, NEW sources \in SUBSET Sources, NEW D, NEW next \in WorkOver(D),
         Start(w, sources, next), sources = {next.items[i].source : i \in DOMAIN next.items}
  PROVE  Begins(w, sources) /\ SameWork(next, work'[w])
<1> DEFINE busy == {s \in sources : \E o \in Workers \ {w} : s \in WorksOn(o)}
           more(o) == sources \cap WorksOn(o)
<1>1. /\ work \in [Workers -> Work] /\ work[w].pc = "idle" /\ ShapeOf(work[w])
      /\ \A o \in Workers : work[o] \in Work
      /\ work'[w] = [next EXCEPT !.crossed = busy]
      /\ \A o \in Workers \ {w} : work'[o] = [work[o] EXCEPT !.crossed = @ \cup more(o)]
      /\ \A s \in Sources :
           last'[s] = IF s \in sources THEN [alone |-> FALSE, placed |-> <<>>] ELSE last[s]
  BY DEF Base, TypeOK, Start, Crossing, At
<1>2. WorksOn(w) = {}
  <2>1. work[w].items = <<>>
    BY <1>1 DEF ShapeOf
  <2>2. DOMAIN work[w].items = {}
    BY <2>1, EmptyIs
  <2>3. QED
    BY <2>2 DEF WorksOn
<1> HIDE DEF busy, more
<1>3. SameWork(next, work'[w]) /\ work'[w].crossed = busy
  BY <1>1 DEF WorkOver, SameWork
<1>4. ASSUME NEW o \in Workers \ {w}
      PROVE  SameWork(work[o], work'[o]) /\ work'[o].crossed = work[o].crossed \cup more(o)
  <2> DEFINE c == work[o].crossed \cup more(o)
  <2>1. work'[o] = [work[o] EXCEPT !.crossed = c] /\ work[o] \in Work
    BY <1>1
  <2> HIDE DEF c
  <2>2. SameWork(work[o], work'[o]) /\ work'[o].crossed = c
    BY <2>1 DEF Work, SameWork
  <2>3. QED
    BY <2>2 DEF c
<1>5. WorksOn(w)' = sources
  BY <1>3 DEF WorksOn, SameWork
<1>6. \A o \in Workers \ {w} : (WorksOn(o))' = WorksOn(o)
  BY <1>4 DEF WorksOn, SameWork
<1>7. \A s \in Sources : IF s \in sources THEN ~last'[s].alone ELSE last'[s] = last[s]
  BY <1>1
<1>8. QED
  BY <1>1, <1>2, <1>3, <1>4, <1>5, <1>6, <1>7 DEF Begins, busy, more

LEMMA StartTextBegins ==
  ASSUME Base, NEW w \in Workers, NEW e \in Entries, StartText(w, e)
  PROVE  /\ e.source \in Sources /\ Begins(w, {e.source}) /\ rows' = Deactivated(e.source, e.version)
         /\ work'[w].pc = "chunk" /\ work'[w].version = e.version
         /\ work'[w].placed = <<>> /\ work'[w].own = {} /\ work'[w].sparse = NoRanking
<1> DEFINE items == <<[source |-> e.source, text |-> e.text]>>
           next(m) == [Idle EXCEPT !.pc = "chunk", !.model = m, !.version = e.version,
                         !.items = items, !.plan = ChunksOf[e.text]]
<1>1. PICK model \in BOOLEAN : Start(w, {e.source}, next(model))
  BY DEF StartText
<1>2. e.source \in Sources /\ e.text \in Texts /\ e.version \in Versions
  BY CorpusBounds
<1>3. ChunksOf[e.text] \in Seq(Chunks)
  BY <1>2, CutAssumption
<1>4. /\ items \in Seq(Item) /\ DOMAIN items = {1} /\ items[1].source = e.source
  BY <1>2 DEF Item
<1> DEFINE n == next(model)
<1>5. /\ n \in WorkOver({}) /\ n.items = items /\ n.pc = "chunk" /\ n.placed = <<>>
      /\ n.version = e.version /\ n.own = {} /\ n.sparse = NoRanking
  <2>1. /\ Idle \in WorkOver({}) /\ Idle.placed = <<>> /\ Idle.own = {}
        /\ Idle.sparse = NoRanking
    BY IdleIs DEF Idle
  <2> HIDE DEF items
  <2>2. QED
    BY <1>2, <1>3, <1>4, <2>1 DEF WorkOver
<1> HIDE DEF items
<1>6. {e.source} = {n.items[i].source : i \in DOMAIN n.items}
  BY <1>4, <1>5
<1> HIDE DEF n
<1>7. Begins(w, {e.source}) /\ SameWork(n, work'[w])
  BY <1>1, <1>2, <1>5, <1>6, StartBegins DEF n
<1>8. QED
  BY <1>2, <1>5, <1>7 DEF SameWork, StartText

LEMMA StartBatchBegins ==
  ASSUME Base, NEW w \in Workers, NEW v \in Sessions, NEW b \in Batches, StartBatch(w, v, b)
  PROVE  LET sources == {b[i].source : i \in DOMAIN b} IN
         /\ sources \subseteq Sources /\ Begins(w, sources) /\ rows' = rows
         /\ work'[w].pc = "gather" /\ work'[w].plan = b
         /\ work'[w].own = {} /\ work'[w].sparse = NoRanking
<1> DEFINE sources == {b[i].source : i \in DOMAIN b}
           next(m) == [Idle EXCEPT !.pc = "gather", !.model = m, !.version = v, !.items = b,
                         !.plan = b]
<1>1. PICK model \in BOOLEAN : Start(w, sources, next(model))
  BY DEF StartBatch
<1>2. b \in Seq(Item) /\ v \in Versions
  BY BatchAssumption, CorpusBounds
<1>3. sources \in SUBSET Sources
  <2>1. \A i \in DOMAIN b : b[i] \in Item
    BY <1>2, LenProperties, ElementOfSeq
  <2>2. QED
    BY <2>1 DEF Item
<1> DEFINE n == next(model)
<1>4. /\ n \in WorkOver({}) /\ n.items = b /\ n.pc = "gather" /\ n.plan = b
      /\ n.own = {} /\ n.sparse = NoRanking
  <2>1. Idle \in WorkOver({}) /\ Idle.own = {} /\ Idle.sparse = NoRanking
    BY IdleIs DEF Idle
  <2>2. QED
    BY <1>2, <2>1 DEF WorkOver
<1>5. sources = {n.items[i].source : i \in DOMAIN n.items}
  BY <1>4
<1> HIDE DEF n, sources
<1>6. Begins(w, sources) /\ SameWork(n, work'[w])
  BY <1>1, <1>3, <1>4, <1>5, StartBegins DEF n
<1>7. QED
  BY <1>3, <1>4, <1>6 DEF SameWork, StartBatch, sources

LEMMA StartRetrievalBegins ==
  ASSUME Base, NEW w \in Workers, StartRetrieval(w)
  PROVE  /\ Begins(w, {}) /\ rows' = rows /\ work'[w].pc = "query"
         /\ work'[w].own = {} /\ work'[w].sparse = NoRanking
<1> DEFINE n == [Idle EXCEPT !.pc = "query", !.open = TRUE]
<1>1. Start(w, {}, n) /\ rows' = rows
  BY DEF StartRetrieval
<1>2. /\ n \in WorkOver({}) /\ n.pc = "query" /\ n.items = <<>> /\ n.own = {}
      /\ n.sparse = NoRanking
  <2>1. /\ Idle \in WorkOver({}) /\ Idle.items = <<>> /\ Idle.own = {}
        /\ Idle.sparse = NoRanking
    BY IdleIs DEF Idle
  <2>2. QED
    BY <2>1 DEF WorkOver
<1>3. {} = {n.items[i].source : i \in DOMAIN n.items}
  BY <1>2, EmptyIs
<1> HIDE DEF n
<1>4. {} \in SUBSET Sources
  OBVIOUS
<1>5. Begins(w, {}) /\ SameWork(n, work'[w])
  BY <1>1, <1>2, <1>3, <1>4, StartBegins
<1>6. QED
  BY <1>1, <1>2, <1>5 DEF SameWork

LEMMA BeginsApart ==
  ASSUME Base, CrossingsSeen, AloneIsQuiet,
         NEW w \in Workers, NEW sources \in SUBSET Sources, Begins(w, sources)
  PROVE  CrossingsSeen' /\ AloneIsQuiet'
<1>1. ASSUME NEW a \in Workers, NEW b \in Workers, a # b
      PROVE  (WorksOn(a))' \cap (WorksOn(b))' \subseteq work'[a].crossed
  <2>1. CASE a = w
    BY <1>1, <2>1 DEF Begins
  <2>2. CASE b = w
    BY <1>1, <2>2 DEF Begins
  <2>3. CASE a # w /\ b # w
    BY <1>1, <2>3 DEF Begins, CrossingsSeen
  <2>4. QED
    BY <2>1, <2>2, <2>3
<1>2. CrossingsSeen'
  BY <1>1 DEF CrossingsSeen
<1>3. ASSUME NEW s \in Sources, last'[s].alone, NEW o \in Workers, work'[o].pc \in IndexingPcs
      PROVE  s \notin (WorksOn(o))'
  <2>1. s \notin sources /\ last[s].alone
    BY <1>3 DEF Begins
  <2>2. CASE o = w
    BY <2>1, <2>2 DEF Begins
  <2>3. CASE o # w
    <3>1. work[o].pc \in IndexingPcs /\ (WorksOn(o))' = WorksOn(o)
      BY <1>3, <2>3 DEF Begins, SameWork
    <3>2. QED
      BY <2>1, <3>1 DEF AloneIsQuiet, Indexing, IndexingPcs
  <2>4. QED
    BY <2>2, <2>3
<1>4. AloneIsQuiet'
  BY <1>3 DEF AloneIsQuiet, Indexing, IndexingPcs
<1>5. QED
  BY <1>2, <1>4

LEMMA MovesApart ==
  ASSUME Base, CrossingsSeen, AloneIsQuiet, NEW w \in Workers, Moves(w),
         \/ last' = last
         \/ work'[w].pc \notin IndexingPcs /\ \E placed : Ended(w, placed)
  PROVE  CrossingsSeen' /\ AloneIsQuiet'
<1>1. /\ \A o \in Workers \ {w} : work'[o] = work[o]
      /\ work'[w].items = <<>> \/ (work'[w].items = work[w].items /\ work'[w].crossed = work[w].crossed)
      /\ work'[w].pc \in IndexingPcs => Indexing(w)
  BY DEF Moves, IndexingPcs
<1>2. \A o \in Workers \ {w} : (WorksOn(o))' = WorksOn(o)
  BY <1>1 DEF WorksOn
<1>3. (WorksOn(w))' = {} \/ ((WorksOn(w))' = WorksOn(w) /\ work'[w].crossed = work[w].crossed)
  BY <1>1, EmptyIs DEF WorksOn
<1>4. ASSUME NEW a \in Workers, NEW b \in Workers, a # b
      PROVE  (WorksOn(a))' \cap (WorksOn(b))' \subseteq work'[a].crossed
  BY <1>1, <1>2, <1>3, <1>4 DEF CrossingsSeen
<1>5. CrossingsSeen'
  BY <1>4 DEF CrossingsSeen
<1>6. ASSUME NEW s \in Sources, last'[s].alone, NEW o \in Workers, work'[o].pc \in IndexingPcs
      PROVE  s \notin (WorksOn(o))'
  <2>1. Indexing(o) /\ (WorksOn(o))' \subseteq WorksOn(o)
    BY <1>1, <1>2, <1>3, <1>6 DEF Indexing, IndexingPcs
  <2>2. CASE last[s].alone
    BY <2>1, <2>2 DEF AloneIsQuiet
  <2>3. CASE ~last[s].alone
    <3>1. /\ work'[w].pc \notin IndexingPcs
          /\ \E placed : Ended(w, placed)
      BY <1>6, <2>3
    <3>2. s \in WorksOn(w) /\ s \notin work[w].crossed
      BY <1>6, <2>3, <3>1 DEF Ended
    <3>3. o # w
      BY <1>6, <3>1
    <3>4. s \notin WorksOn(o)
      BY <3>2, <3>3 DEF CrossingsSeen
    <3>5. QED
      BY <2>1, <3>4
  <2>4. QED
    BY <2>2, <2>3
<1>7. AloneIsQuiet'
  BY <1>6 DEF AloneIsQuiet, Indexing, IndexingPcs
<1>8. QED
  BY <1>5, <1>7

(***************************************************************************)
(* The rows of a source.                                                   *)
(***************************************************************************)

\* A source has as many rows as there are pieces.
Whole(R, s, pieces) ==
  /\ RowPieces(R, s) = PiecesOf(pieces, s)
  /\ Cardinality(ActiveOf(R, s)) = Cardinality(Of(pieces, s))

LEMMA WholeIs ==
  SourceIsWhole <=> \A s \in Sources : last[s].alone => Whole(rows, s, last[s].placed)
<1>1. \A s : RowsOf(s) = ActiveOf(rows, s)
  BY DEF RowsOf, ActiveRows, ActiveOf
<1>2. QED
  BY <1>1 DEF SourceIsWhole, Whole, RowPieces, PiecesOf

LEMMA WholeIsNext ==
  SourceIsWhole' <=> \A s \in Sources : last'[s].alone => Whole(rows', s, last'[s].placed)
<1>1. \A s : (RowsOf(s))' = ActiveOf(rows', s)
  BY DEF RowsOf, ActiveRows, ActiveOf
<1>2. QED
  BY <1>1 DEF SourceIsWhole, Whole, RowPieces, PiecesOf

\* What a source has stays while its rows do.
LEMMA KeptIs ==
  ASSUME NEW before, NEW after, Grown(before, after),
         NEW s, ActiveOf(after, s) = ActiveOf(before, s)
  PROVE  /\ \A v, pieces : HasOnly(before, s, v, pieces) => HasOnly(after, s, v, pieces)
         /\ \A pieces : Whole(before, s, pieces) => Whole(after, s, pieces)
<1>1. \A i \in ActiveOf(before, s) :
        /\ after[i].version = before[i].version /\ after[i].index = before[i].index
        /\ after[i].chunk = before[i].chunk
  BY DEF Grown, ActiveOf
<1>2. RowPieces(after, s) = RowPieces(before, s)
  BY <1>1 DEF RowPieces
<1>3. QED
  BY <1>1, <1>2 DEF HasOnly, Whole

\* What a step does to the rows of the sources.
LEMMA SameTouches ==
  ASSUME rows \in Seq(Row), Grown(rows, rows'), DOMAIN rows' = DOMAIN rows,
         \A i \in DOMAIN rows : rows'[i].active = rows[i].active, NEW s
  PROVE  ActiveOf(rows', s) = ActiveOf(rows, s)
<1>1. QED
  BY DEF ActiveOf, Grown

LEMMA DeactivatedTouches ==
  ASSUME rows \in Seq(Row), NEW a, NEW v, rows' = Deactivated(a, v)
  PROVE  /\ ActiveOf(rows', a) = {}
         /\ \A s : s # a => ActiveOf(rows', s) = ActiveOf(rows, s)
<1>1. /\ Grown(rows, rows') /\ DOMAIN rows' = DOMAIN rows
      /\ \A i \in DOMAIN rows :
           /\ rows[i].source # a => rows'[i] = rows[i]
           /\ rows[i].source = a => ~rows'[i].active
  BY DeactivatedIs
<1>2. \A i \in DOMAIN rows : rows'[i].source = rows[i].source
  BY <1>1 DEF Grown
<1>3. QED
  BY <1>1, <1>2 DEF ActiveOf

LEMMA UpsertedTouches ==
  ASSUME Grown(rows, rows'), NEW u, NEW v, NEW r, Leaves(rows', r, u, v)
  PROVE  /\ \A s : s # u.source => ActiveOf(rows', s) = ActiveOf(rows, s)
         /\ ActiveOf(rows, u.source) \subseteq ActiveOf(rows', u.source)
         /\ r \in ActiveOf(rows', u.source)
         /\ \A i \in ActiveOf(rows', u.source) :
              i \in ActiveOf(rows, u.source) \/ SameRow(rows'[i], u, v)
<1>1. /\ DOMAIN rows' = DOMAIN rows \cup {r}
      /\ SameRow(rows'[r], u, v) /\ rows'[r].active
      /\ \A i \in DOMAIN rows : /\ ~SameRow(rows[i], u, v) => rows'[i] = rows[i]
                                /\ rows[i].active => rows'[i].active
  BY DEF Leaves
<1>2. \A i \in DOMAIN rows :
        /\ rows'[i].source = rows[i].source
        /\ SameRow(rows'[i], u, v) <=> SameRow(rows[i], u, v)
  BY DEF Grown, SameRow
<1>3. rows'[r].source = u.source
  BY <1>1 DEF SameRow
<1>4. \A i \in DOMAIN rows' : i \in DOMAIN rows \/ i = r
  BY <1>1
<1>5. ASSUME NEW s, s # u.source PROVE ActiveOf(rows', s) = ActiveOf(rows, s)
  <2>1. \A i \in DOMAIN rows : rows[i].source = s => rows'[i] = rows[i]
    BY <1>1, <1>5 DEF SameRow
  <2>2. \A i \in ActiveOf(rows', s) : i \in ActiveOf(rows, s)
    BY <1>2, <1>3, <1>4, <1>5, <2>1 DEF ActiveOf
  <2>3. \A i \in ActiveOf(rows, s) : i \in ActiveOf(rows', s)
    BY <1>1, <2>1 DEF ActiveOf
  <2>4. QED
    BY <2>2, <2>3
<1>6. ActiveOf(rows, u.source) \subseteq ActiveOf(rows', u.source)
  BY <1>1, <1>2 DEF ActiveOf
<1>7. r \in ActiveOf(rows', u.source)
  BY <1>1, <1>3 DEF ActiveOf
<1>8. \A i \in ActiveOf(rows', u.source) :
        i \in ActiveOf(rows, u.source) \/ SameRow(rows'[i], u, v)
  BY <1>1, <1>2, <1>4 DEF ActiveOf
<1>9. QED
  BY <1>5, <1>6, <1>7, <1>8

\* One more piece, and its row.
LEMMA UpsertedHas ==
  ASSUME Base, NEW w \in Workers, NEW u \in Unit, NEW v, NEW r,
         Grown(rows, rows'), Leaves(rows', r, u, v),
         NEW s, HasOnly(rows, s, v, work[w].placed)
  PROVE  HasOnly(rows', s, v, WithPiece(w, u))
<1> DEFINE p == work[w].placed
           q == WithPiece(w, u)
           l == Len(p) + 1
<1>1. /\ DOMAIN q = DOMAIN p \cup {l} /\ \A n \in DOMAIN p : q[n] = p[n]
      /\ q[l] = PieceOf(u)
  BY WithPieceIs
<1>2. /\ q[l].source = u.source /\ q[l].index = u.index /\ q[l].chunk = u.chunk
  BY <1>1 DEF PieceOf
<1>3. /\ \A t : t # u.source => ActiveOf(rows', t) = ActiveOf(rows, t)
      /\ ActiveOf(rows, u.source) \subseteq ActiveOf(rows', u.source)
      /\ r \in ActiveOf(rows', u.source)
      /\ \A i \in ActiveOf(rows', u.source) :
           i \in ActiveOf(rows, u.source) \/ SameRow(rows'[i], u, v)
  BY UpsertedTouches
<1> HIDE DEF q, p, l
<1>4. CASE s # u.source
  <2>1. Of(q, s) = Of(p, s)
    <3>1. \A n \in DOMAIN q : n \in DOMAIN p \/ n = l
      BY <1>1
    <3>2. \A n \in Of(q, s) : n \in Of(p, s)
      BY <1>1, <1>2, <1>4, <3>1 DEF Of
    <3>3. \A n \in Of(p, s) : n \in Of(q, s)
      BY <1>1 DEF Of
    <3>4. QED
      BY <3>2, <3>3
  <2>2. \A n \in Of(p, s) : q[n] = p[n]
    BY <1>1 DEF Of
  <2>3. PiecesOf(q, s) = PiecesOf(p, s)
    BY <2>1, <2>2 DEF PiecesOf
  <2>4. HasOnly(rows', s, v, p)
    BY <1>3, <1>4, KeptIs DEF p
  <2>5. QED
    BY <2>3, <2>4 DEF HasOnly, q
<1>5. CASE s = u.source
  <2> DEFINE x == <<u.index, u.chunk>>
  <2>1. PiecesOf(q, s) = PiecesOf(p, s) \cup {x}
    <3>1. Of(q, s) = Of(p, s) \cup {l}
      <4>1. \A n \in DOMAIN q : n \in DOMAIN p \/ n = l
        BY <1>1
      <4>2. \A n \in Of(q, s) : n \in Of(p, s) \/ n = l
        BY <1>1, <4>1 DEF Of
      <4>3. \A n \in Of(p, s) : n \in Of(q, s)
        BY <1>1 DEF Of
      <4>4. l \in Of(q, s)
        BY <1>1, <1>2, <1>5 DEF Of
      <4>5. QED
        BY <4>2, <4>3, <4>4
    <3>2. \A n \in Of(p, s) : q[n] = p[n]
      BY <1>1 DEF Of
    <3>3. <<q[l].index, q[l].chunk>> = x
      BY <1>2
    <3> HIDE DEF x
    <3>4. QED
      BY <3>1, <3>2, <3>3 DEF PiecesOf
  <2>2. \A i : SameRow(rows'[i], u, v) => <<rows'[i].index, rows'[i].chunk>> = x /\ rows'[i].version = v
    BY DEF SameRow
  <2>3. SameRow(rows'[r], u, v)
    BY DEF Leaves
  <2>4. \A i \in ActiveOf(rows, s) :
          /\ rows'[i].version = rows[i].version
          /\ <<rows'[i].index, rows'[i].chunk>> = <<rows[i].index, rows[i].chunk>>
    BY DEF Grown, ActiveOf
  <2> HIDE DEF x
  <2>5. RowPieces(rows', s) = RowPieces(rows, s) \cup {x}
    <3>1. \A i \in ActiveOf(rows', s) : <<rows'[i].index, rows'[i].chunk>> \in RowPieces(rows, s) \cup {x}
      BY <1>3, <1>5, <2>2, <2>4 DEF RowPieces
    <3>2. x \in RowPieces(rows', s)
      BY <1>3, <1>5, <2>2, <2>3 DEF RowPieces
    <3>3. \A i \in ActiveOf(rows, s) : <<rows[i].index, rows[i].chunk>> \in RowPieces(rows', s)
      BY <1>3, <1>5, <2>4 DEF RowPieces
    <3>4. QED
      BY <3>1, <3>2, <3>3 DEF RowPieces
  <2>6. \A i \in ActiveOf(rows', s) : rows'[i].version = v
    BY <1>3, <1>5, <2>2, <2>4 DEF HasOnly
  <2>7. RowPieces(rows, s) = PiecesOf(p, s)
    BY DEF HasOnly, p
  <2>8. QED
    BY <2>1, <2>5, <2>6, <2>7 DEF HasOnly, q
<1>6. QED
  BY <1>4, <1>5

\* Counted by a name that no two elements share.
LEMMA CountedByName ==
  ASSUME NEW S, IsFiniteSet(S), NEW f, f = [x \in S |-> f[x]],
         \A x, y \in S : f[x] = f[y] => x = y
  PROVE  Cardinality({f[x] : x \in S}) = Cardinality(S)
<1> DEFINE T == {f[x] : x \in S}
<1>1. f \in [S -> T]
  <2>1. \A x \in S : f[x] \in T
    OBVIOUS
  <2> HIDE DEF T
  <2>2. QED
    BY <2>1
<1>2. \A t \in T : \E x \in S : f[x] = t
  OBVIOUS
<1> HIDE DEF T
<1>3. f \in Surjection(S, T) /\ f \in Injection(S, T)
  BY <1>1, <1>2 DEF Surjection, Injection, IsInjective
<1>4. Cardinality(T) = Cardinality(S)
  BY <1>3, FS_Surjection
<1>5. QED
  BY <1>4 DEF T

\* No two rows are of the same version of the same piece.
DifferIn(R) ==
  \A i, k \in DOMAIN R :
    Place(R[i]) = Place(R[k]) /\ R[i].version = R[k].version /\ R[i].chunk = R[k].chunk => i = k

\* Pieces at different places have a row each, when a source has only them.
LEMMA WholeFromHas ==
  ASSUME NEW R \in Seq(Row), DifferIn(R), NEW s, NEW v, NEW q \in Seq(Piece), PlacesDiffer(q),
         HasOnly(R, s, v, q)
  PROVE  Whole(R, s, q)
<1> DEFINE A == ActiveOf(R, s)
           B == Of(q, s)
           f == [i \in A |-> <<R[i].index, R[i].chunk>>]
           g == [n \in B |-> <<q[n].index, q[n].chunk>>]
<1>1. /\ DOMAIN R = 1..Len(R) /\ Len(R) \in Nat
      /\ DOMAIN q = 1..Len(q) /\ Len(q) \in Nat
  BY LenProperties
<1>2. IsFiniteSet(A) /\ IsFiniteSet(B)
  <2>1. A \subseteq 1..Len(R) /\ B \subseteq 1..Len(q)
    BY <1>1 DEF ActiveOf, Of
  <2>2. IsFiniteSet(1..Len(R)) /\ IsFiniteSet(1..Len(q))
    BY <1>1, CardinalityUpto
  <2>3. QED
    BY <2>1, <2>2, FS_Subset
<1>3. Cardinality(RowPieces(R, s)) = Cardinality(A)
  <2>1. \A i, k \in A : f[i] = f[k] => i = k
    BY DEF ActiveOf, HasOnly, DifferIn, Place
  <2>2. f = [i \in A |-> f[i]] /\ {f[i] : i \in A} = RowPieces(R, s)
    BY DEF RowPieces
  <2> HIDE DEF f, A
  <2>3. QED
    BY <1>2, <2>1, <2>2, CountedByName
<1>4. Cardinality(PiecesOf(q, s)) = Cardinality(B)
  <2>1. \A m, n \in B : g[m] = g[n] => m = n
    BY DEF Of, PlacesDiffer, Place
  <2>2. g = [n \in B |-> g[n]] /\ {g[n] : n \in B} = PiecesOf(q, s)
    BY DEF PiecesOf
  <2> HIDE DEF g, B
  <2>3. QED
    BY <1>2, <2>1, <2>2, CountedByName
<1>5. QED
  BY <1>3, <1>4 DEF Whole, HasOnly

\* One more piece, at a place of its own.
LEMMA PiecesDiffer ==
  ASSUME Base, NEW w \in Workers, NEW u \in Unit, PlacesDiffer(work[w].placed),
         \A n \in DOMAIN work[w].placed : Place(work[w].placed[n]) # Place(u)
  PROVE  PlacesDiffer(WithPiece(w, u))
<1> DEFINE s == work[w].placed
           q == WithPiece(w, u)
           l == Len(s) + 1
<1>1. /\ DOMAIN q = DOMAIN s \cup {l} /\ \A k \in DOMAIN s : q[k] = s[k]
      /\ q[l] = PieceOf(u) /\ Place(PieceOf(u)) = Place(u)
  <2>1. Place(PieceOf(u)) = Place(u)
    BY DEF PieceOf, Place
  <2>2. QED
    BY <2>1, WithPieceIs
<1> HIDE DEF l
<1>2. QED
  BY <1>1 DEF PlacesDiffer

\* The chunk of a text that is placed next comes after the others.
LEMMA TextPlace ==
  ASSUME Base, NEW w \in Workers, work[w].pc = "upsert"
  PROVE  LET u == work[w].units[1] IN
         /\ u \in Unit /\ u.source \in WorksOn(w) /\ WorksOn(w) = {u.source}
         /\ WithPiece(w, u) \in Seq(Piece) /\ PlacesDiffer(WithPiece(w, u))
<1> DEFINE j == work[w]
           u == j.units[1]
<1>1. TextWork(j) /\ WorksOn(w) = {j.items[1].source} /\ j \in Work
  BY TextIs, WorkerIs
<1>2. u \in Unit /\ u.source = j.items[1].source /\ u.index = Len(j.placed)
  <2>1. j.units \in Seq(Unit) /\ Len(j.units) = 1 /\ 1 \in 1..1
    BY <1>1 DEF Work, TextWork
  <2>2. u \in Unit
    BY <2>1, ElementOfSeq
  <2>3. QED
    BY <1>1, <2>2 DEF TextWork
<1>3. /\ DOMAIN j.placed = 1..Len(j.placed) /\ Len(j.placed) \in Nat
      /\ WithPiece(w, u) \in Seq(Piece)
  BY <1>2, WithPieceIs
<1>4. \A n \in DOMAIN j.placed :
        j.placed[n].index = n - 1 /\ n \in Nat /\ n <= Len(j.placed)
  BY <1>1, <1>3 DEF TextWork
<1>5. PlacesDiffer(j.placed)
  BY <1>4 DEF PlacesDiffer, Place
<1>6. \A n \in DOMAIN j.placed : Place(j.placed[n]) # Place(u)
  <2>1. \A n \in DOMAIN j.placed : j.placed[n].index # u.index
    <3> DEFINE m == Len(j.placed)
    <3>1. u.index = m /\ m \in Nat
      BY <1>2, <1>3
    <3> HIDE DEF m
    <3>2. \A n \in DOMAIN j.placed : j.placed[n].index = n - 1 /\ n \in Nat /\ n <= m
      BY <1>4 DEF m
    <3>3. QED
      BY <3>1, <3>2
  <2>2. QED
    BY <2>1 DEF Place
<1>7. QED
  BY <1>1, <1>2, <1>3, <1>5, <1>6, PiecesDiffer

\* The chunk of a batch that is stored next is at a place of its own.
LEMMA BatchPlace ==
  ASSUME Base, NEW w \in Workers, work[w].pc = "store"
  PROVE  LET u == Head(work[w].units) IN
         /\ u \in Unit /\ u.source \in WorksOn(w)
         /\ WithPiece(w, u) \in Seq(Piece) /\ PlacesDiffer(WithPiece(w, u))
<1> DEFINE j == work[w]
           u == Head(j.units)
<1>1. BatchWork(j) /\ j.units \in Seq(Unit)
  BY BatchIs
<1>2. /\ j.units # <<>> /\ PlacesDiffer(j.placed)
      /\ \A n \in DOMAIN j.units : j.units[n].source \in WorksOn(w)
      /\ \A m \in DOMAIN j.placed, n \in DOMAIN j.units : Place(j.placed[m]) # Place(j.units[n])
  BY <1>1 DEF BatchWork, WorksOn
<1>3. u \in Unit /\ 1 \in DOMAIN j.units /\ u = j.units[1]
  BY <1>1, <1>2, HeadTailProperties, EmptySeq, LenProperties
<1>4. PlacesDiffer(WithPiece(w, u))
  BY <1>2, <1>3, PiecesDiffer
<1>5. QED
  BY <1>2, <1>3, <1>4, WithPieceIs

(***************************************************************************)
(* A source indexed by one call alone has the rows of that call.           *)
(***************************************************************************)

Apart == Base /\ RowsDiffer /\ CrossingsSeen /\ AloneIsQuiet /\ RowsAreMine /\ SourceIsWhole

\* The other workers do what they did, but may learn of a crossing.
OthersSame(w) ==
  \A o \in Workers \ {w} :
    /\ work'[o].pc = work[o].pc /\ work'[o].items = work[o].items
    /\ work'[o].plan = work[o].plan /\ work'[o].version = work[o].version
    /\ work'[o].placed = work[o].placed /\ work[o].crossed \subseteq work'[o].crossed

LEMMA OthersAre ==
  ASSUME NEW w \in Workers, Moves(w) \/ \E sources : Begins(w, sources)
  PROVE  OthersSame(w)
<1>1. CASE Moves(w)
  BY <1>1 DEF Moves, OthersSame
<1>2. CASE \E sources : Begins(w, sources)
  BY <1>2 DEF Begins, SameWork, OthersSame
<1>3. QED
  BY <1>1, <1>2

\* The rows of the others stay theirs while a worker touches only its own sources.
LEMMA OthersKeepRows ==
  ASSUME CrossingsSeen, CrossingsSeen', RowsAreMine, Grown(rows, rows'),
         NEW w \in Workers, OthersSame(w),
         NEW T, \A s : s \notin T => ActiveOf(rows', s) = ActiveOf(rows, s),
         T \subseteq WorksOn(w) \/ T \subseteq (WorksOn(w))',
         work'[w].pc \in IndexingPcs =>
           \A s \in Mine(w)' : HasOnly(rows', s, work'[w].version, work'[w].placed)
  PROVE  RowsAreMine'
<1>1. SUFFICES ASSUME NEW o \in Workers, o # w, work'[o].pc \in IndexingPcs, NEW s \in Mine(o)'
               PROVE  HasOnly(rows', s, work'[o].version, work'[o].placed)
  BY DEF RowsAreMine, Indexing, IndexingPcs
<1>2. /\ work'[o].pc = work[o].pc /\ work'[o].items = work[o].items
      /\ work'[o].plan = work[o].plan /\ work'[o].version = work[o].version
      /\ work'[o].placed = work[o].placed /\ work[o].crossed \subseteq work'[o].crossed
  BY <1>1 DEF OthersSame
<1>3. (WorksOn(o))' = WorksOn(o) /\ (Left(o))' = Left(o)
  BY <1>2 DEF WorksOn, Left, At
<1>4. /\ s \in Mine(o) /\ s \in WorksOn(o) /\ s \notin work'[o].crossed
      /\ s \in (WorksOn(o))' /\ s \notin work[o].crossed
  BY <1>1, <1>2, <1>3 DEF Mine
<1>5. s \notin T
  <2>1. CASE T \subseteq WorksOn(w)
    BY <1>1, <1>4, <2>1 DEF CrossingsSeen
  <2>2. CASE T \subseteq (WorksOn(w))'
    BY <1>1, <1>4, <2>2 DEF CrossingsSeen
  <2>3. QED
    BY <2>1, <2>2
<1>6. HasOnly(rows, s, work[o].version, work[o].placed)
  BY <1>1, <1>2, <1>4 DEF RowsAreMine, Indexing, IndexingPcs
<1>7. HasOnly(rows', s, work[o].version, work[o].placed)
  BY <1>5, <1>6, KeptIs
<1>8. QED
  BY <1>2, <1>7

\* A source is still whole when nobody touched it, or became so.
LEMMA SourcesStayWhole ==
  ASSUME SourceIsWhole, Grown(rows, rows'),
         NEW T, \A s : s \notin T => ActiveOf(rows', s) = ActiveOf(rows, s),
         \A s \in Sources : last'[s].alone =>
           (last'[s] = last[s] /\ s \notin T) \/ Whole(rows', s, last'[s].placed)
  PROVE  SourceIsWhole'
<1>1. ASSUME NEW s \in Sources, last'[s].alone PROVE Whole(rows', s, last'[s].placed)
  <2>1. CASE last'[s] = last[s] /\ s \notin T
    <3>1. Whole(rows, s, last[s].placed)
      BY <1>1, <2>1, WholeIs
    <3>2. QED
      BY <2>1, <3>1, KeptIs
  <2>2. QED
    BY <1>1, <2>1
<1>2. QED
  BY <1>1, WholeIsNext

\* One more chunk is stored, and perhaps the call ends.
LEMMA StoredWhole ==
  ASSUME Apart, CrossingsSeen', RowsDiffer', NEW w \in Workers, Indexing(w), Moves(w),
         Left(w) = {}, NEW u \in Unit, u.source \in WorksOn(w), NEW r,
         Grown(rows, rows'), Leaves(rows', r, u, work[w].version),
         WithPiece(w, u) \in Seq(Piece), PlacesDiffer(WithPiece(w, u)),
         \/ work'[w].pc \notin IndexingPcs /\ Ended(w, WithPiece(w, u))
         \/ /\ work'[w].version = work[w].version /\ work'[w].placed = WithPiece(w, u)
            /\ last' = last
  PROVE  RowsAreMine' /\ SourceIsWhole'
<1> DEFINE q == WithPiece(w, u)
           v == work[w].version
<1>1. /\ \A s : s \notin {u.source} => ActiveOf(rows', s) = ActiveOf(rows, s)
  BY UpsertedTouches
<1>2. \A s \in Mine(w) : HasOnly(rows', s, v, q)
  <2>1. \A s \in Mine(w) : HasOnly(rows, s, v, work[w].placed)
    BY DEF Apart, RowsAreMine
  <2>2. QED
    BY <2>1, UpsertedHas DEF Apart
<1>3. Mine(w) = WorksOn(w) \ work[w].crossed
  BY DEF Mine
<1> HIDE DEF q, v
<1>4. OthersSame(w)
  BY OthersAre
<1>5. work'[w].pc \in IndexingPcs => \A s \in Mine(w)' : HasOnly(rows', s, work'[w].version, work'[w].placed)
  <2>1. SUFFICES ASSUME work'[w].pc \in IndexingPcs, NEW s \in Mine(w)'
                 PROVE  HasOnly(rows', s, work'[w].version, work'[w].placed)
    OBVIOUS
  <2>2. work'[w].items = work[w].items /\ work'[w].crossed = work[w].crossed
    BY <2>1 DEF Moves, IndexingPcs
  <2>3. s \in Mine(w)
    BY <1>3, <2>1, <2>2 DEF Mine, WorksOn
  <2>4. work'[w].version = v /\ work'[w].placed = q
    BY <2>1 DEF v, q
  <2>5. QED
    BY <1>2, <2>3, <2>4
<1>6. RowsAreMine'
  <2>1. {u.source} \subseteq WorksOn(w)
    OBVIOUS
  <2>2. QED
    BY <1>1, <1>4, <1>5, <2>1, OthersKeepRows DEF Apart
<1>7. \A s \in Sources : last[s].alone => s \notin WorksOn(w)
  BY DEF Apart, AloneIsQuiet
<1>8. ASSUME NEW s \in Sources, last'[s].alone
      PROVE  (last'[s] = last[s] /\ s \notin {u.source}) \/ Whole(rows', s, last'[s].placed)
  <2>1. CASE last'[s] = last[s]
    BY <1>7, <1>8, <2>1
  <2>2. CASE last'[s] # last[s]
    <3>1. Ended(w, q)
      BY <2>2 DEF q
    <3>2. s \in Mine(w) /\ last'[s].placed = q
      BY <1>3, <2>2, <3>1 DEF Ended
    <3>3. HasOnly(rows', s, v, q)
      BY <1>2, <3>2
    <3>4. DifferIn(rows') /\ rows' \in Seq(Row)
      BY DEF RowsDiffer, DifferIn, Grown, Place
    <3>5. q \in Seq(Piece) /\ PlacesDiffer(q)
      BY DEF q
    <3>6. QED
      BY <3>2, <3>3, <3>4, <3>5, WholeFromHas
  <2>3. QED
    BY <2>1, <2>2
<1>9. SourceIsWhole'
  BY <1>1, <1>8, SourcesStayWhole DEF Apart
<1>10. QED
  BY <1>6, <1>9

\* Nothing is stored for a source without rows.
LEMMA HasNothing ==
  ASSUME NEW R, NEW s, NEW v, ActiveOf(R, s) = {}
  PROVE  HasOnly(R, s, v, <<>>)
<1>1. Of(<<>>, s) = {}
  BY EmptyIs DEF Of
<1>2. QED
  BY <1>1 DEF HasOnly, RowPieces, PiecesOf

\* A step of a worker that leaves the rows alone.
LEMMA QuietApart ==
  ASSUME Apart, Base', NEW w \in Workers, Moves(w), UNCHANGED <<rows, last>>,
         work'[w].pc \in IndexingPcs =>
           /\ Left(w) = {}
           /\ work'[w].version = work[w].version /\ work'[w].placed = work[w].placed
  PROVE  Apart'
<1>1. CrossingsSeen' /\ AloneIsQuiet'
  BY MovesApart DEF Apart
<1>2. Grown(rows, rows')
  BY SameRows DEF Apart, Base, TypeOK
<1>3. RowsDiffer'
  BY DEF Apart, RowsDiffer, Place
<1>4. \A s : s \notin {} => ActiveOf(rows', s) = ActiveOf(rows, s)
  BY DEF ActiveOf
<1>5. work'[w].pc \in IndexingPcs => \A s \in Mine(w)' : HasOnly(rows', s, work'[w].version, work'[w].placed)
  <2>1. SUFFICES ASSUME work'[w].pc \in IndexingPcs, NEW s \in Mine(w)'
                 PROVE  HasOnly(rows', s, work'[w].version, work'[w].placed)
    OBVIOUS
  <2>2. work'[w].items = work[w].items /\ work'[w].crossed = work[w].crossed /\ Indexing(w)
    BY <2>1 DEF Moves, IndexingPcs
  <2>3. s \in Mine(w)
    BY <2>1, <2>2 DEF Mine, WorksOn
  <2>4. HasOnly(rows, s, work[w].version, work[w].placed)
    BY <2>2, <2>3 DEF Apart, RowsAreMine
  <2>5. QED
    BY <2>1, <2>4
<1>6. RowsAreMine'
  <2>1. OthersSame(w) /\ {} \subseteq WorksOn(w)
    BY OthersAre
  <2>2. QED
    BY <1>1, <1>2, <1>4, <1>5, <2>1, OthersKeepRows DEF Apart
<1>7. SourceIsWhole'
  BY <1>2, <1>4, SourcesStayWhole DEF Apart
<1>8. QED
  BY <1>1, <1>3, <1>6, <1>7 DEF Apart

LEMMA ReadChunkApart ==
  ASSUME Apart, NEW w \in Workers, ReadChunk(w)
  PROVE  Apart'
<1>1. /\ Moves(w) /\ UNCHANGED <<rows, last>>
      /\ work'[w].version = work[w].version /\ work'[w].placed = work[w].placed
  BY ReadChunkMoves DEF Apart
<1>2. Base' /\ Left(w) = {}
  BY ReadChunkKeeps DEF Apart, ReadChunk, At, Left
<1>3. QED
  BY <1>1, <1>2, QuietApart

LEMMA EmbedAllApart ==
  ASSUME Apart, NEW w \in Workers, EmbedAll(w)
  PROVE  Apart'
<1>1. /\ Moves(w) /\ UNCHANGED <<rows, last>>
      /\ work'[w].version = work[w].version /\ work'[w].placed = work[w].placed
  BY EmbedAllMoves DEF Apart
<1>2. Base' /\ Left(w) = {}
  BY EmbedAllKeeps DEF Apart, EmbedAll, At, Left
<1>3. QED
  BY <1>1, <1>2, QuietApart

LEMMA SearchesApart ==
  ASSUME Apart, NEW w \in Workers, Searches(w)
  PROVE  Apart'
<1>1. /\ Moves(w) /\ UNCHANGED <<rows, last>> /\ work'[w].pc \notin IndexingPcs
  BY SearchMoves DEF Apart, IndexingPcs
<1>2. Base'
  BY EmbedQueryKeeps, SearchWordsKeeps, SearchVectorsKeeps, FuseKeeps, ToIdleKeeps
  DEF Apart, Searches
<1>3. QED
  BY <1>1, <1>2, QuietApart

LEMMA PlaceChunkApart ==
  ASSUME Apart, NEW w \in Workers, PlaceChunk(w)
  PROVE  Apart'
<1> DEFINE u == work[w].units[1]
           v == work[w].version
           m == work[w].model
<1>1. work[w].pc = "upsert" /\ rows' = Upserted(u, v, m)
  BY DEF PlaceChunk, At
<1>2. Base /\ rows \in Seq(Row) /\ v \in Versions /\ m \in BOOLEAN
  BY WorkerIs DEF Apart, Work
<1>3. /\ u \in Unit /\ u.source \in WorksOn(w)
      /\ WithPiece(w, u) \in Seq(Piece) /\ PlacesDiffer(WithPiece(w, u))
  BY <1>1, <1>2, TextPlace
<1>4. Base' /\ Grown(rows, rows')
  BY <1>2, PlaceChunkKeeps
<1>5. PICK r : Leaves(rows', r, u, v)
  BY <1>1, <1>2, <1>3, UpsertedIs
<1>6. RowsDiffer'
  BY <1>4, <1>5, DifferUpserted DEF Apart
<1>7. /\ Moves(w) /\ Indexing(w) /\ Left(w) = {}
      /\ \/ work'[w].pc \notin IndexingPcs /\ Ended(w, WithPiece(w, u))
         \/ /\ work'[w].version = v /\ work'[w].placed = WithPiece(w, u) /\ last' = last
  BY <1>1, <1>2, PlaceChunkMoves DEF Left, At, IndexingPcs
<1> HIDE DEF u
<1>8. CrossingsSeen' /\ AloneIsQuiet'
  BY <1>7, MovesApart DEF Apart
<1>9. RowsAreMine' /\ SourceIsWhole'
  BY <1>3, <1>4, <1>5, <1>6, <1>7, <1>8, StoredWhole
<1>10. QED
  BY <1>4, <1>6, <1>8, <1>9 DEF Apart

LEMMA StoreUnitApart ==
  ASSUME Apart, NEW w \in Workers, StoreUnit(w)
  PROVE  Apart'
<1> DEFINE u == Head(work[w].units)
           v == work[w].version
           m == work[w].model
<1>1. work[w].pc = "store" /\ rows' = Upserted(u, v, m)
  BY DEF StoreUnit, At
<1>2. Base /\ rows \in Seq(Row) /\ v \in Versions /\ m \in BOOLEAN
  BY WorkerIs DEF Apart, Work
<1>3. /\ u \in Unit /\ u.source \in WorksOn(w)
      /\ WithPiece(w, u) \in Seq(Piece) /\ PlacesDiffer(WithPiece(w, u))
  BY <1>1, <1>2, BatchPlace
<1>4. Base' /\ Grown(rows, rows')
  BY <1>2, StoreUnitKeeps
<1>5. PICK r : Leaves(rows', r, u, v)
  BY <1>1, <1>2, <1>3, UpsertedIs
<1>6. RowsDiffer'
  BY <1>4, <1>5, DifferUpserted DEF Apart
<1>7. /\ Moves(w) /\ Indexing(w) /\ Left(w) = {}
      /\ \/ work'[w].pc \notin IndexingPcs /\ Ended(w, WithPiece(w, u))
         \/ /\ work'[w].version = v /\ work'[w].placed = WithPiece(w, u) /\ last' = last
  BY <1>1, <1>2, StoreUnitMoves DEF Left, At, IndexingPcs
<1> HIDE DEF u
<1>8. CrossingsSeen' /\ AloneIsQuiet'
  BY <1>7, MovesApart DEF Apart
<1>9. RowsAreMine' /\ SourceIsWhole'
  BY <1>3, <1>4, <1>5, <1>6, <1>7, <1>8, StoredWhole
<1>10. QED
  BY <1>4, <1>6, <1>8, <1>9 DEF Apart

\* The sources still to be gathered, and the next of them.
LEMMA LeftIs ==
  ASSUME Base, NEW w \in Workers, work[w].pc = "gather"
  PROVE  LET a == Head(work[w].plan).source IN
         /\ Left(w) = {a} \cup {x.source : x \in ToSet(Tail(work[w].plan))}
         /\ Len(work[w].plan) = 1 => Left(w) = {a}
         /\ a \in WorksOn(w) /\ work[w].placed = <<>>
<1> DEFINE p == work[w].plan
<1>1. /\ p \in Seq(Item) /\ p # <<>> /\ work[w].placed = <<>>
      /\ \A i \in DOMAIN p : p[i].source \in WorksOn(w)
  BY BatchIs DEF BatchWork, WorksOn
<1>2. Left(w) = {p[i].source : i \in DOMAIN p}
  BY DEF Left, At
<1> HIDE DEF p
<1>3. /\ Len(Tail(p)) = Len(p) - 1 /\ ToSet(p) = {Head(p)} \cup ToSet(Tail(p))
      /\ Len(p) \in Nat \ {0} /\ Tail(p) \in Seq(Item)
  BY <1>1, TailIs
<1>4. ToSet(p) = {p[i] : i \in DOMAIN p}
  BY DEF ToSet
<1>5. Left(w) = {x.source : x \in ToSet(p)}
  BY <1>2, <1>4
<1>6. Left(w) = {Head(p).source} \cup {x.source : x \in ToSet(Tail(p))}
  BY <1>3, <1>5
<1>7. Head(p).source \in WorksOn(w)
  BY <1>1, <1>2, <1>6
<1>8. Len(p) = 1 => ToSet(Tail(p)) = {}
  <2>1. SUFFICES ASSUME Len(p) = 1 PROVE ToSet(Tail(p)) = {}
    OBVIOUS
  <2>2. Len(Tail(p)) = 0 /\ Tail(p) \in Seq(Item)
    BY <1>3, <2>1
  <2>3. Tail(p) = <<>>
    BY <2>2, EmptySeq
  <2>4. QED
    BY <2>3, EmptyIs
<1>9. QED
  BY <1>1, <1>6, <1>7, <1>8 DEF p

LEMMA GatherApart ==
  ASSUME Apart, NEW w \in Workers, Gather(w)
  PROVE  Apart'
<1> DEFINE p == work[w].plan
           a == Head(p).source
<1>1. work[w].pc = "gather" /\ rows' = Deactivated(a, work[w].version)
  BY DEF Gather, At
<1>2. Base /\ rows \in Seq(Row)
  BY WorkerIs DEF Apart
<1>3. Base' /\ Grown(rows, rows')
  BY <1>2, GatherKeeps
<1>4. /\ Moves(w) /\ Indexing(w) /\ last' = last
      /\ work'[w].version = work[w].version /\ work'[w].placed = work[w].placed
      /\ work'[w].pc \in {"gather", "embed"} /\ work'[w].plan = Tail(p)
      /\ work'[w].pc = "gather" <=> Len(p) # 1
  BY <1>2, GatherMoves
<1>5. /\ Left(w) = {a} \cup {x.source : x \in ToSet(Tail(p))}
      /\ Len(p) = 1 => Left(w) = {a}
      /\ a \in WorksOn(w) /\ work[w].placed = <<>>
  BY <1>1, <1>2, LeftIs
<1>6. (Left(w))' = IF Len(p) = 1 THEN {} ELSE {x.source : x \in ToSet(Tail(p))}
  BY <1>4 DEF Left, At, ToSet
<1>7. ActiveOf(rows', a) = {} /\ \A s : s \notin {a} => ActiveOf(rows', s) = ActiveOf(rows, s)
  BY <1>1, <1>2, DeactivatedTouches
<1> HIDE DEF a, p
<1>8. CrossingsSeen' /\ AloneIsQuiet'
  BY <1>4, MovesApart DEF Apart
<1>9. RowsDiffer'
  BY <1>1, <1>2, <1>3, DeactivatedIs, DifferStays DEF Apart
<1>10. \A s \in Mine(w)' : HasOnly(rows', s, work'[w].version, work'[w].placed)
  <2>1. SUFFICES ASSUME NEW s \in Mine(w)' PROVE HasOnly(rows', s, work[w].version, work[w].placed)
    BY <1>4
  <2>2. CASE s = a
    BY <1>5, <1>7, <2>2, HasNothing
  <2>3. CASE s # a
    <3>1. work'[w].items = work[w].items /\ work'[w].crossed = work[w].crossed
      BY <1>4 DEF Moves
    <3>2. s \in WorksOn(w) \ work[w].crossed /\ s \notin (Left(w))'
      BY <2>1, <3>1 DEF Mine, WorksOn
    <3>3. s \in Mine(w)
      BY <1>5, <1>6, <2>3, <3>2 DEF Mine
    <3>4. HasOnly(rows, s, work[w].version, work[w].placed)
      BY <1>4, <3>3 DEF Apart, RowsAreMine
    <3>5. QED
      BY <1>3, <1>7, <2>3, <3>4, KeptIs
  <2>4. QED
    BY <2>2, <2>3
<1>11. RowsAreMine'
  <2>1. OthersSame(w) /\ {a} \subseteq WorksOn(w)
    BY <1>4, <1>5, OthersAre
  <2>2. QED
    BY <1>3, <1>7, <1>8, <1>10, <2>1, OthersKeepRows DEF Apart
<1>12. SourceIsWhole'
  <2>1. \A s \in Sources : last'[s].alone => last'[s] = last[s] /\ s \notin {a}
    BY <1>4, <1>5 DEF Apart, AloneIsQuiet
  <2>2. QED
    BY <1>3, <1>7, <2>1, SourcesStayWhole DEF Apart
<1>13. QED
  BY <1>3, <1>8, <1>9, <1>11, <1>12 DEF Apart

LEMMA StartTextApart ==
  ASSUME Apart, NEW w \in Workers, NEW e \in Entries, StartText(w, e)
  PROVE  Apart'
<1> DEFINE a == e.source
<1>1. Base /\ rows \in Seq(Row)
  BY WorkerIs DEF Apart
<1>2. /\ a \in Sources /\ Begins(w, {a}) /\ rows' = Deactivated(a, e.version)
      /\ work'[w].pc = "chunk" /\ work'[w].placed = <<>>
  BY <1>1, StartTextBegins
<1>3. Base' /\ Grown(rows, rows')
  BY <1>1, StartTextKeeps
<1>4. ActiveOf(rows', a) = {} /\ \A s : s \notin {a} => ActiveOf(rows', s) = ActiveOf(rows, s)
  BY <1>1, <1>2, DeactivatedTouches
<1> HIDE DEF a
<1>5. {a} \in SUBSET Sources
  BY <1>2
<1>6. CrossingsSeen' /\ AloneIsQuiet'
  BY <1>2, <1>5, BeginsApart DEF Apart
<1>7. RowsDiffer'
  BY <1>1, <1>2, <1>3, DeactivatedIs, DifferStays DEF Apart
<1>8. (WorksOn(w))' = {a}
  BY <1>2 DEF Begins
<1>9. \A s \in Mine(w)' : HasOnly(rows', s, work'[w].version, work'[w].placed)
  BY <1>2, <1>4, <1>8, HasNothing DEF Mine
<1>10. RowsAreMine'
  <2>1. OthersSame(w) /\ {a} \subseteq (WorksOn(w))'
    BY <1>2, <1>8, OthersAre
  <2>2. QED
    BY <1>3, <1>4, <1>6, <1>9, <2>1, OthersKeepRows DEF Apart
<1>11. SourceIsWhole'
  <2>1. \A s \in Sources : last'[s].alone => last'[s] = last[s] /\ s \notin {a}
    BY <1>2 DEF Begins
  <2>2. QED
    BY <1>3, <1>4, <2>1, SourcesStayWhole DEF Apart
<1>12. QED
  BY <1>3, <1>6, <1>7, <1>10, <1>11 DEF Apart

\* A call that starts without touching a row has none of its own yet.
LEMMA BeginsQuietly ==
  ASSUME Apart, Base', NEW w \in Workers, NEW sources \in SUBSET Sources, Begins(w, sources),
         rows' = rows, work'[w].pc \in IndexingPcs => (Left(w))' = sources
  PROVE  Apart'
<1>1. CrossingsSeen' /\ AloneIsQuiet'
  BY BeginsApart DEF Apart
<1>2. Grown(rows, rows')
  BY SameRows DEF Apart, Base, TypeOK
<1>3. RowsDiffer'
  BY DEF Apart, RowsDiffer, Place
<1>4. \A s : s \notin {} => ActiveOf(rows', s) = ActiveOf(rows, s)
  BY DEF ActiveOf
<1>5. work'[w].pc \in IndexingPcs => \A s \in Mine(w)' : HasOnly(rows', s, work'[w].version, work'[w].placed)
  BY DEF Begins, Mine
<1>6. RowsAreMine'
  <2>1. OthersSame(w) /\ {} \subseteq WorksOn(w)
    BY OthersAre
  <2>2. QED
    BY <1>1, <1>2, <1>4, <1>5, <2>1, OthersKeepRows DEF Apart
<1>7. SourceIsWhole'
  <2>1. \A s \in Sources : last'[s].alone => last'[s] = last[s]
    BY DEF Begins
  <2> DEFINE T == {}
  <2>2. \A s : s \notin T
    OBVIOUS
  <2> HIDE DEF T
  <2>3. \A s : s \notin T => ActiveOf(rows', s) = ActiveOf(rows, s)
    BY <1>4 DEF T
  <2>4. \A s \in Sources : last'[s].alone => last'[s] = last[s] /\ s \notin T
    BY <2>1, <2>2
  <2>5. SourceIsWhole
    BY DEF Apart
  <2>6. QED
    BY <1>2, <2>3, <2>4, <2>5, SourcesStayWhole
<1>8. QED
  BY <1>1, <1>3, <1>6, <1>7 DEF Apart

LEMMA StartBatchApart ==
  ASSUME Apart, NEW w \in Workers, NEW v \in Sessions, NEW b \in Batches, StartBatch(w, v, b)
  PROVE  Apart'
<1> DEFINE sources == {b[i].source : i \in DOMAIN b}
<1>1. Base /\ Base'
  BY StartBatchKeeps DEF Apart
<1>2. /\ sources \in SUBSET Sources /\ Begins(w, sources) /\ rows' = rows
      /\ work'[w].pc = "gather" /\ work'[w].plan = b
  BY <1>1, StartBatchBegins
<1>3. (Left(w))' = sources
  BY <1>2 DEF Left, At
<1> HIDE DEF sources
<1>4. QED
  BY <1>1, <1>2, <1>3, BeginsQuietly

LEMMA StartRetrievalApart ==
  ASSUME Apart, NEW w \in Workers, StartRetrieval(w)
  PROVE  Apart'
<1>1. Base /\ Base'
  BY StartRetrievalKeeps DEF Apart
<1>2. Begins(w, {}) /\ rows' = rows /\ work'[w].pc \notin IndexingPcs /\ {} \in SUBSET Sources
  BY <1>1, StartRetrievalBegins DEF IndexingPcs
<1>3. QED
  BY <1>1, <1>2, BeginsQuietly

\* The backfill changes no row but its vector.
LEMMA BackfillApart ==
  ASSUME Apart, StartBackfill \/ FindVector \/ SetVector \/ UNCHANGED vars
  PROVE  Apart'
<1>1. Base' /\ Grown(rows, rows') /\ work' = work /\ last' = last
  BY StartBackfillKeeps, FindVectorKeeps, SetVectorKeeps, StutterBase
  DEF Apart, StartBackfill, FindVector, SetVector, vars
<1>2. DOMAIN rows' = DOMAIN rows /\ \A i \in DOMAIN rows : rows'[i].active = rows[i].active
  BY SetVectorKeeps DEF Apart, StartBackfill, FindVector, vars
<1>3. \A s : s \notin {} => ActiveOf(rows', s) = ActiveOf(rows, s)
  BY <1>1, <1>2, SameTouches DEF Apart, Base, TypeOK
<1>4. CrossingsSeen' /\ AloneIsQuiet'
  BY <1>1 DEF Apart, CrossingsSeen, AloneIsQuiet, WorksOn, Indexing
<1>5. RowsDiffer'
  BY <1>1, <1>2, DifferStays DEF Apart
<1>6. RowsAreMine'
  <2>1. SUFFICES ASSUME NEW o \in Workers, Indexing(o), NEW s \in Mine(o)
                 PROVE  HasOnly(rows', s, work[o].version, work[o].placed)
    BY <1>1 DEF RowsAreMine, Indexing, Mine, WorksOn, Left, At
  <2>2. HasOnly(rows, s, work[o].version, work[o].placed)
    BY <2>1 DEF Apart, RowsAreMine
  <2>3. QED
    BY <1>1, <1>3, <2>2, KeptIs
<1>7. SourceIsWhole'
  <2> DEFINE T == {}
  <2>1. \A s : s \notin T
    OBVIOUS
  <2> HIDE DEF T
  <2>2. \A s : s \notin T => ActiveOf(rows', s) = ActiveOf(rows, s)
    BY <1>3 DEF T
  <2>3. SourceIsWhole /\ \A s \in Sources : last'[s].alone => last'[s] = last[s] /\ s \notin T
    BY <1>1, <2>1 DEF Apart
  <2>4. QED
    BY <1>1, <2>2, <2>3, SourcesStayWhole
<1>8. QED
  BY <1>1, <1>4, <1>5, <1>6, <1>7 DEF Apart

LEMMA InitApart == Init => Apart
<1>1. SUFFICES ASSUME Init PROVE Apart
  OBVIOUS
<1>2. Base
  BY <1>1, InitBase
<1>3. /\ rows = <<>> /\ \A w \in Workers : work[w] = Idle
      /\ \A s \in Sources : last[s].placed = <<>>
  <2> DEFINE nothing == [alone |-> TRUE, placed |-> <<>>]
  <2>1. rows = <<>> /\ work = [w \in Workers |-> Idle] /\ last = [s \in Sources |-> nothing]
    BY <1>1 DEF Init
  <2>2. nothing.placed = <<>>
    OBVIOUS
  <2> HIDE DEF nothing
  <2>3. QED
    BY <2>1, <2>2
<1>4. \A w \in Workers : WorksOn(w) = {} /\ ~Indexing(w)
  <2>1. Idle.items = <<>> /\ Idle.pc = "idle"
    BY DEF Idle
  <2>2. \A w \in Workers : work[w].items = <<>> /\ work[w].pc = "idle"
    BY <1>3, <2>1
  <2>3. QED
    BY <2>2, EmptyIs DEF WorksOn, Indexing
<1>5. RowsDiffer /\ CrossingsSeen /\ AloneIsQuiet /\ RowsAreMine
  <2>1. DOMAIN rows = {}
    BY <1>3, EmptyIs
  <2>2. QED
    BY <1>4, <2>1 DEF RowsDiffer, CrossingsSeen, AloneIsQuiet, RowsAreMine
<1>6. SourceIsWhole
  <2>1. \A s : ActiveOf(<<>>, s) = {} /\ Of(<<>>, s) = {}
    BY EmptyIs DEF ActiveOf, Of
  <2>2. \A s : Whole(<<>>, s, <<>>)
    BY <2>1 DEF Whole, RowPieces, PiecesOf
  <2>3. QED
    BY <1>3, <2>2, WholeIs
<1>7. QED
  BY <1>2, <1>5, <1>6 DEF Apart

LEMMA NextApart ==
  ASSUME Apart, [Next]_vars
  PROVE  Apart'
<1>1. ASSUME NEW w \in Workers, Step(w) \/ BreakOff(w) PROVE Apart'
  BY <1>1, ReadChunkApart, PlaceChunkApart, GatherApart, EmbedAllApart, StoreUnitApart,
     SearchesApart
  DEF Step, Searches
<1>2. ASSUME NEW w \in Workers, NEW e \in Entries, StartText(w, e) PROVE Apart'
  BY <1>2, StartTextApart
<1>3. ASSUME NEW w \in Workers, NEW v \in Sessions, NEW b \in Batches, StartBatch(w, v, b)
      PROVE  Apart'
  BY <1>3, StartBatchApart
<1>4. ASSUME NEW w \in Workers, StartRetrieval(w) PROVE Apart'
  BY <1>4, StartRetrievalApart
<1>5. CASE StartBackfill \/ FindVector \/ SetVector \/ UNCHANGED vars
  BY <1>5, BackfillApart
<1>6. QED
  BY <1>1, <1>2, <1>3, <1>4, <1>5 DEF Next

LEMMA ApartHolds == Spec => []Apart
<1>1. Apart /\ [Next]_vars => Apart'
  BY NextApart
<1>2. QED
  BY <1>1, InitApart, PTL DEF Spec

\* A source that one call indexed to its end, with nobody else there, has the rows of just
\* that call, whatever other calls, failures and calls that broke off came before
\* (retrieval.py, index_text and index_text_batch).
THEOREM SourcesWhole == Spec => []SourceIsWhole
<1>1. Apart => SourceIsWhole
  BY DEF Apart
<1>2. QED
  BY <1>1, ApartHolds, PTL

(***************************************************************************)
(* The rows of a search, and its hits.                                     *)
(***************************************************************************)

\* The rows that a search stored are there, unless another call worked on their source.
OwnIsThere(w) ==
  \A i \in work[w].own :
    /\ rows[i].source \in WorksOn(w)
    /\ rows[i].active \/ rows[i].source \in work[w].crossed

\* A ranking by words that is not full has every row of the search that matches them.
WordsAreFound(w) ==
  work[w].sparse # NoRanking /\ Len(work[w].sparse) < Limit /\ ~work[w].open =>
    \A i \in work[w].own :
      \/ i \in ToSet(work[w].sparse) \/ ByWords[rows[i].chunk] = 0
      \/ rows[i].source \in work[w].crossed

\* The hits are the first of the fused rows, or as many of them.
HitsFit(w) ==
  At(w, "hits") =>
    /\ Searched(w)
    /\ IsInjective(work[w].hits) /\ ToSet(work[w].hits) \subseteq ToSet(Fused(w))
    /\ Len(work[w].hits) = Min({TopK, Len(Fused(w))})
    /\ ~work[w].reranked => work[w].hits = First(TopK, Fused(w))

OwnFits == \A w \in Workers : OwnIsThere(w) /\ WordsAreFound(w) /\ HitsFit(w)

\* The fused rows depend on the two rankings only.
AheadOf(sparse, dense, i, j) ==
  LET x == Fusion(i, sparse, dense)
      y == Fusion(j, sparse, dense)
  IN  x.num * y.den > y.num * x.den \/ (x.num * y.den = y.num * x.den /\ i < j)

FusedFrom(sparse, dense) ==
  LET found == ToSet(sparse) \cup ToSet(dense) IN
  First(Limit, Sorted(found, {p \in found \X found : AheadOf(sparse, dense, p[1], p[2])}))

LEMMA FusedSame ==
  ASSUME NEW w \in Workers, work'[w].sparse = work[w].sparse, work'[w].dense = work[w].dense,
         work'[w].query = work[w].query
  PROVE  (Fused(w))' = Fused(w) /\ (Searched(w))' = Searched(w)
<1>1. (DenseOf(w))' = DenseOf(w)
  BY DEF DenseOf
<1>2. Fused(w) = FusedFrom(work[w].sparse, DenseOf(w))
  BY DEF Fused, FusedFrom, Found, Ahead, AheadOf
<1>3. (Fused(w))' = FusedFrom(work'[w].sparse, (DenseOf(w))')
  BY DEF Fused, FusedFrom, Found, Ahead, AheadOf
<1>4. QED
  BY <1>1, <1>2, <1>3 DEF Searched

\* The rows of a worker keep what it needs of them while only other sources lose rows.
OwnStays(w) ==
  /\ work'[w].own = work[w].own /\ work'[w].sparse = work[w].sparse
  /\ work'[w].open = work[w].open /\ work'[w].items = work[w].items
  /\ work[w].crossed \subseteq work'[w].crossed

LEMMA OwnKept ==
  ASSUME Base, Grown(rows, rows'), NEW w \in Workers, OwnIsThere(w), WordsAreFound(w), OwnStays(w),
         \A i \in work[w].own :
           rows[i].active => rows'[i].active \/ rows[i].source \in work'[w].crossed
  PROVE  OwnIsThere(w)' /\ WordsAreFound(w)'
<1>1. work[w].own \subseteq DOMAIN rows
  BY WorkerIs DEF Work
<1>2. \A i \in work[w].own : rows'[i].source = rows[i].source /\ rows'[i].chunk = rows[i].chunk
  BY <1>1 DEF Grown
<1>3. (WorksOn(w))' = WorksOn(w)
  BY DEF OwnStays, WorksOn
<1>4. OwnIsThere(w)'
  BY <1>2, <1>3 DEF OwnIsThere, OwnStays
<1>5. WordsAreFound(w)'
  BY <1>2 DEF WordsAreFound, OwnStays
<1>6. QED
  BY <1>4, <1>5

\* A worker that has no rows of its own and no ranking.
LEMMA OwnNothing ==
  ASSUME NEW w \in Workers, work'[w].own = {}, work'[w].pc # "hits"
  PROVE  OwnIsThere(w)' /\ WordsAreFound(w)' /\ HitsFit(w)'
<1>1. QED
  BY DEF OwnIsThere, WordsAreFound, HitsFit, At

\* What the others have is theirs while a worker takes rows of its own sources only.
LEMMA OthersFit ==
  ASSUME Base, CrossingsSeen, CrossingsSeen', OwnFits, Grown(rows, rows'), NEW w \in Workers,
         \/ Moves(w)
         \/ \E sources : Begins(w, sources),
         NEW T, T \subseteq WorksOn(w) \/ T \subseteq (WorksOn(w))',
         \A i \in DOMAIN rows : rows[i].active /\ rows[i].source \notin T => rows'[i].active,
         OwnIsThere(w)', WordsAreFound(w)', HitsFit(w)'
  PROVE  OwnFits'
<1>1. SUFFICES ASSUME NEW o \in Workers, o # w
               PROVE  OwnIsThere(o)' /\ WordsAreFound(o)' /\ HitsFit(o)'
  BY DEF OwnFits
<1>2. /\ SameWork(work[o], work'[o]) /\ work[o].crossed \subseteq work'[o].crossed
      /\ (WorksOn(o))' = WorksOn(o)
  <2>1. CASE Moves(w)
    BY <1>1, <2>1 DEF Moves, SameWork, WorksOn
  <2>2. CASE \E sources : Begins(w, sources)
    BY <1>1, <2>2 DEF Begins
  <2>3. QED
    BY <2>1, <2>2
<1>3. OwnIsThere(o) /\ WordsAreFound(o) /\ HitsFit(o)
  BY DEF OwnFits
<1>4. ASSUME NEW i \in work[o].own, rows[i].active
      PROVE  rows'[i].active \/ rows[i].source \in work'[o].crossed
  <2>1. i \in DOMAIN rows /\ rows[i].source \in WorksOn(o)
    BY <1>3, WorkerIs DEF OwnIsThere, Work
  <2>2. CASE rows[i].source \notin T
    BY <1>4, <2>1, <2>2
  <2>3. CASE rows[i].source \in T /\ T \subseteq WorksOn(w)
    BY <1>1, <1>2, <2>1, <2>3 DEF CrossingsSeen
  <2>4. CASE rows[i].source \in T /\ T \subseteq (WorksOn(w))'
    BY <1>1, <1>2, <2>1, <2>4 DEF CrossingsSeen
  <2>5. QED
    BY <2>2, <2>3, <2>4
<1>5. OwnStays(o)
  BY <1>2 DEF OwnStays, SameWork
<1>6. OwnIsThere(o)' /\ WordsAreFound(o)'
  BY <1>3, <1>4, <1>5, OwnKept
<1>7. HitsFit(o)'
  <2>1. (Fused(o))' = Fused(o) /\ (Searched(o))' = Searched(o)
    BY <1>2, FusedSame DEF SameWork
  <2>2. /\ work'[o].pc = work[o].pc /\ work'[o].hits = work[o].hits
        /\ work'[o].reranked = work[o].reranked
    BY <1>2 DEF SameWork
  <2>3. SUFFICES ASSUME work[o].pc = "hits"
                 PROVE  /\ (Searched(o))'
                        /\ IsInjective(work'[o].hits) /\ ToSet(work'[o].hits) \subseteq ToSet((Fused(o))')
                        /\ Len(work'[o].hits) = Min({TopK, Len((Fused(o))')})
                        /\ ~work'[o].reranked => work'[o].hits = First(TopK, (Fused(o))')
    BY <2>2 DEF HitsFit, At
  <2>4. /\ Searched(o)
        /\ IsInjective(work[o].hits) /\ ToSet(work[o].hits) \subseteq ToSet(Fused(o))
        /\ Len(work[o].hits) = Min({TopK, Len(Fused(o))})
        /\ ~work[o].reranked => work[o].hits = First(TopK, Fused(o))
    BY <1>3, <2>3 DEF HitsFit, At
  <2>5. QED
    BY <2>1, <2>2, <2>4
<1>8. QED
  BY <1>6, <1>7

LEMMA ToStays ==
  ASSUME Base, NEW w \in Workers, NEW n, To(w, n), n.pc # "hits",
         n.own = work[w].own, n.sparse = work[w].sparse, n.open = work[w].open,
         n.items = work[w].items, n.crossed = work[w].crossed
  PROVE  OwnStays(w) /\ work'[w].pc # "hits"
<1>1. work'[w] = n
  BY DEF Base, TypeOK, To
<1>2. QED
  BY <1>1 DEF OwnStays

LEMMA ToNothing ==
  ASSUME Base, NEW w \in Workers, To(w, Idle)
  PROVE  work'[w].own = {} /\ work'[w].pc # "hits"
<1>1. work'[w] = Idle
  BY DEF Base, TypeOK, To
<1>2. QED
  BY <1>1 DEF Idle

\* What most steps do with the rows of a search: nothing, or the call ends.
LEMMA StepsStay ==
  ASSUME Base, NEW w \in Workers,
         \/ ReadChunk(w) \/ PlaceChunk(w) \/ Gather(w) \/ EmbedAll(w)
         \/ EmbedQuery(w) \/ SearchVectors(w) \/ Return(w) \/ BreakOff(w)
  PROVE  (OwnStays(w) \/ work'[w].own = {}) /\ work'[w].pc # "hits"
<1> DEFINE j == work[w]
<1>1. j \in Work
  BY WorkerIs
<1>2. CASE ReadChunk(w)
  <2> DEFINE unit(vector) == [source |-> j.items[1].source, index |-> Len(j.placed),
                              chunk |-> Head(j.plan), vector |-> vector]
             with(vector) == [j EXCEPT !.pc = "upsert", !.units = <<unit(vector)>>]
             cut == [j EXCEPT !.plan = HalvesOf[Head(j.plan)] \o Tail(@)]
  <2>1. j.pc = "chunk"
    BY <1>2 DEF ReadChunk, At
  <2>2. (\E vector \in BOOLEAN : To(w, with(vector))) \/ To(w, cut)
    <3>1. \A vector \in BOOLEAN :
            [[source |-> j.items[1].source, index |-> Len(j.placed), chunk |-> Head(j.plan),
              vector |-> FALSE] EXCEPT !.vector = vector] = unit(vector)
      OBVIOUS
    <3>2. QED
      BY <1>2, <3>1 DEF ReadChunk
  <2>3. ASSUME NEW n, To(w, n), (\E vector \in BOOLEAN : n = with(vector)) \/ n = cut
        PROVE  OwnStays(w) /\ work'[w].pc # "hits"
    <3>1. /\ n.items = j.items /\ n.crossed = j.crossed /\ n.own = j.own
          /\ n.sparse = j.sparse /\ n.open = j.open /\ n.pc # "hits"
      <4> HIDE DEF unit
      <4>1. QED
        BY <1>1, <2>1, <2>3 DEF Work
    <3>2. QED
      BY <2>3, <3>1, ToStays
  <2> HIDE DEF with, cut
  <2>4. QED
    BY <2>2, <2>3
<1>3. CASE PlaceChunk(w)
  <2> DEFINE placed == WithPiece(w, j.units[1])
             n == [j EXCEPT !.pc = "chunk", !.plan = Tail(@), !.placed = placed]
  <2>1. To(w, Idle) \/ To(w, n)
    BY <1>3 DEF PlaceChunk
  <2> HIDE DEF placed
  <2>2. /\ n.items = j.items /\ n.crossed = j.crossed /\ n.own = j.own
        /\ n.sparse = j.sparse /\ n.open = j.open /\ n.pc # "hits"
    BY <1>1 DEF Work
  <2> HIDE DEF n
  <2>3. QED
    BY <2>1, <2>2, ToStays, ToNothing
<1>4. CASE Gather(w)
  <2> DEFINE item == Head(j.plan)
             chunks == ChunksOf[item.text]
             units == [i \in DOMAIN chunks |->
                         [source |-> item.source, index |-> i - 1, chunk |-> chunks[i],
                          vector |-> j.model /\ Cached(chunks[i])]]
             pc == IF Len(j.plan) = 1 THEN "embed" ELSE "gather"
             n == [j EXCEPT !.units = @ \o units, !.plan = Tail(@), !.pc = pc]
  <2>1. To(w, n)
    BY <1>4 DEF Gather
  <2>2. pc # "hits"
    OBVIOUS
  <2> HIDE DEF units, pc
  <2>3. /\ n.items = j.items /\ n.crossed = j.crossed /\ n.own = j.own
        /\ n.sparse = j.sparse /\ n.open = j.open /\ n.pc # "hits"
    BY <1>1, <2>2 DEF Work
  <2> HIDE DEF n
  <2>4. QED
    BY <2>1, <2>3, ToStays
<1>5. CASE EmbedAll(w)
  <2> DEFINE after(made) == [i \in DOMAIN j.units |->
                               IF i \in made THEN [j.units[i] EXCEPT !.vector = TRUE] ELSE j.units[i]]
             n(made) == [j EXCEPT !.pc = "store", !.units = after(made)]
  <2>1. PICK made : To(w, n(made))
    BY <1>5 DEF EmbedAll
  <2> HIDE DEF after
  <2>2. /\ n(made).items = j.items /\ n(made).crossed = j.crossed /\ n(made).own = j.own
        /\ n(made).sparse = j.sparse /\ n(made).open = j.open /\ n(made).pc # "hits"
    BY <1>1 DEF Work
  <2> HIDE DEF n
  <2>3. QED
    BY <2>1, <2>2, ToStays
<1>6. CASE EmbedQuery(w)
  <2> DEFINE n(query) == [j EXCEPT !.pc = "search", !.query = query]
  <2>1. PICK query \in BOOLEAN : To(w, n(query))
    BY <1>6 DEF EmbedQuery
  <2>2. /\ n(query).items = j.items /\ n(query).crossed = j.crossed /\ n(query).own = j.own
        /\ n(query).sparse = j.sparse /\ n(query).open = j.open /\ n(query).pc # "hits"
    BY <1>1 DEF Work
  <2> HIDE DEF n
  <2>3. QED
    BY <2>1, <2>2, ToStays
<1>7. CASE SearchVectors(w)
  <2> DEFINE dense == Ranking({i \in Visible(w) : rows[i].vector}, ByVector)
             n == [j EXCEPT !.dense = dense]
  <2>1. To(w, n) /\ j.pc = "search"
    BY <1>7 DEF SearchVectors, At
  <2> HIDE DEF dense
  <2>2. /\ n.items = j.items /\ n.crossed = j.crossed /\ n.own = j.own
        /\ n.sparse = j.sparse /\ n.open = j.open /\ n.pc # "hits"
    BY <1>1, <2>1 DEF Work
  <2> HIDE DEF n
  <2>3. QED
    BY <2>1, <2>2, ToStays
<1>8. CASE Return(w) \/ BreakOff(w)
  BY <1>8, ToNothing DEF Return, BreakOff
<1>9. QED
  BY <1>2, <1>3, <1>4, <1>5, <1>6, <1>7, <1>8

\* Only a call that begins to index a source takes rows from it.
LEMMA RowsStayActive ==
  ASSUME Base, NEW w \in Workers,
         \/ ReadChunk(w) \/ PlaceChunk(w) \/ EmbedAll(w) \/ StoreUnit(w) \/ Searches(w)
  PROVE  \A i \in DOMAIN rows : rows[i].active => rows'[i].active
<1>1. CASE ReadChunk(w) \/ EmbedAll(w) \/ Searches(w)
  <2>1. rows' = rows
    BY <1>1, ReadChunkMoves, EmbedAllMoves, SearchMoves
  <2>2. QED
    BY <2>1
<1>2. CASE PlaceChunk(w) \/ StoreUnit(w)
  <2>1. \E u \in Unit, v \in Versions, m \in BOOLEAN : rows' = Upserted(u, v, m)
    <3>1. work[w].version \in Versions /\ work[w].model \in BOOLEAN
      BY WorkerIs DEF Work
    <3>2. CASE PlaceChunk(w)
      <4>1. work[w].units[1] \in Unit
        BY <3>2, TextPlace DEF PlaceChunk, At
      <4>2. QED
        BY <3>1, <3>2, <4>1 DEF PlaceChunk
    <3>3. CASE StoreUnit(w)
      <4>1. Head(work[w].units) \in Unit
        BY <3>3, BatchPlace DEF StoreUnit, At
      <4>2. QED
        BY <3>1, <3>3, <4>1 DEF StoreUnit
    <3>4. QED
      BY <1>2, <3>2, <3>3
  <2>2. PICK u \in Unit, v \in Versions, m \in BOOLEAN : rows' = Upserted(u, v, m)
    BY <2>1
  <2>3. rows \in Seq(Row)
    BY WorkerIs
  <2>4. PICK r : Leaves(rows', r, u, v)
    BY <2>2, <2>3, UpsertedIs
  <2>5. QED
    BY <2>4 DEF Leaves
<1>3. QED
  BY <1>1, <1>2

\* A step of a worker after which what it has of its own is in order.
LEMMA MoveFits ==
  ASSUME Apart, Apart', OwnFits, Grown(rows, rows'), NEW w \in Workers, Moves(w),
         \A i \in DOMAIN rows : rows[i].active => rows'[i].active,
         OwnIsThere(w)', WordsAreFound(w)', HitsFit(w)'
  PROVE  OwnFits'
<1> DEFINE T == {}
<1>1. T \subseteq WorksOn(w)
  OBVIOUS
<1> HIDE DEF T
<1>2. \A i \in DOMAIN rows : rows[i].active /\ rows[i].source \notin T => rows'[i].active
  OBVIOUS
<1>3. Base /\ CrossingsSeen /\ CrossingsSeen'
  BY DEF Apart
<1>4. QED
  BY <1>1, <1>2, <1>3, OthersFit

LEMMA StepsFit ==
  ASSUME Apart, OwnFits, NEW w \in Workers,
         \/ ReadChunk(w) \/ PlaceChunk(w) \/ EmbedAll(w)
         \/ EmbedQuery(w) \/ SearchVectors(w) \/ Return(w) \/ BreakOff(w)
  PROVE  OwnFits'
<1>1. Base /\ OwnIsThere(w) /\ WordsAreFound(w)
  BY DEF Apart, OwnFits
<1>2. Apart'
  BY ReadChunkApart, PlaceChunkApart, EmbedAllApart, SearchesApart DEF Searches
<1>3. Grown(rows, rows')
  BY <1>1, ReadChunkKeeps, PlaceChunkKeeps, EmbedAllKeeps, EmbedQueryKeeps, SearchVectorsKeeps,
     ToIdleKeeps
<1>4. Moves(w)
  BY <1>1, ReadChunkMoves, PlaceChunkMoves, EmbedAllMoves, SearchMoves DEF Searches
<1>5. \A i \in DOMAIN rows : rows[i].active => rows'[i].active
  BY <1>1, RowsStayActive DEF Searches
<1>6. (OwnStays(w) \/ work'[w].own = {}) /\ work'[w].pc # "hits"
  BY <1>1, StepsStay
<1>7. OwnIsThere(w)' /\ WordsAreFound(w)' /\ HitsFit(w)'
  <2>1. CASE work'[w].own = {}
    BY <1>6, <2>1, OwnNothing
  <2>2. CASE OwnStays(w)
    <3>1. work[w].own \subseteq DOMAIN rows
      BY <1>1, WorkerIs DEF Work
    <3>2. OwnIsThere(w)' /\ WordsAreFound(w)'
      BY <1>1, <1>3, <1>5, <2>2, <3>1, OwnKept
    <3>3. QED
      BY <1>6, <3>2 DEF HitsFit, At
  <2>3. QED
    BY <1>6, <2>1, <2>2
<1>8. QED
  BY <1>2, <1>3, <1>4, <1>5, <1>7, MoveFits

LEMMA GatherFits ==
  ASSUME Apart, OwnFits, NEW w \in Workers, Gather(w)
  PROVE  OwnFits'
<1> DEFINE a == Head(work[w].plan).source
<1>1. Base /\ work[w].pc = "gather" /\ rows' = Deactivated(a, work[w].version) /\ rows \in Seq(Row)
  BY WorkerIs DEF Apart, Gather, At
<1>2. Base' /\ Grown(rows, rows') /\ Moves(w) /\ CrossingsSeen /\ CrossingsSeen'
  BY <1>1, GatherKeeps, GatherMoves, GatherApart DEF Apart
<1>3. {a} \subseteq WorksOn(w)
  BY <1>1, LeftIs
<1>4. \A i \in DOMAIN rows : rows[i].active /\ rows[i].source \notin {a} => rows'[i].active
  BY <1>1, DeactivatedIs
<1>5. work'[w].own = {} /\ work'[w].pc # "hits"
  <2>1. work[w].own = {}
    BY <1>1, BatchIs DEF BatchWork
  <2>2. QED
    BY <1>1, <2>1, StepsStay DEF OwnStays
<1> HIDE DEF a
<1>6. QED
  BY <1>1, <1>2, <1>3, <1>4, <1>5, OwnNothing, OthersFit

LEMMA StartsFit ==
  ASSUME Apart, OwnFits, NEW w \in Workers,
         \/ \E e \in Entries : StartText(w, e)
         \/ \E v \in Sessions, b \in Batches : StartBatch(w, v, b)
         \/ StartRetrieval(w)
  PROVE  OwnFits'
<1>1. Base /\ rows \in Seq(Row) /\ CrossingsSeen
  BY WorkerIs DEF Apart
<1>2. CASE \E e \in Entries : StartText(w, e)
  <2>1. PICK e \in Entries : StartText(w, e)
    BY <1>2
  <2> DEFINE a == e.source
  <2>2. /\ Begins(w, {a}) /\ rows' = Deactivated(a, e.version)
        /\ work'[w].pc = "chunk" /\ work'[w].own = {}
    BY <1>1, <2>1, StartTextBegins
  <2>3. Grown(rows, rows') /\ CrossingsSeen'
    BY <1>1, <2>1, StartTextKeeps, StartTextApart DEF Apart
  <2>4. \A i \in DOMAIN rows : rows[i].active /\ rows[i].source \notin {a} => rows'[i].active
    BY <1>1, <2>2, DeactivatedIs
  <2> HIDE DEF a
  <2>5. {a} \subseteq (WorksOn(w))'
    BY <2>2 DEF Begins
  <2>6. OwnIsThere(w)' /\ WordsAreFound(w)' /\ HitsFit(w)'
    BY <2>2, OwnNothing
  <2>7. QED
    BY <1>1, <2>2, <2>3, <2>4, <2>5, <2>6, OthersFit
<1>3. CASE \/ \E v \in Sessions, b \in Batches : StartBatch(w, v, b)
           \/ StartRetrieval(w)
  <2>1. \E sources : Begins(w, sources)
    BY <1>1, <1>3, StartBatchBegins, StartRetrievalBegins
  <2>2. rows' = rows /\ work'[w].pc # "hits" /\ work'[w].own = {}
    BY <1>1, <1>3, StartBatchBegins, StartRetrievalBegins
  <2>3. CrossingsSeen' /\ Grown(rows, rows')
    BY <1>1, <1>3, <2>2, StartBatchApart, StartRetrievalApart, SameRows DEF Apart
  <2> DEFINE T == {}
  <2>4. T \subseteq WorksOn(w)
    OBVIOUS
  <2> HIDE DEF T
  <2>5. \A i \in DOMAIN rows : rows[i].active /\ rows[i].source \notin T => rows'[i].active
    BY <2>2
  <2>6. OwnIsThere(w)' /\ WordsAreFound(w)' /\ HitsFit(w)'
    BY <2>2, OwnNothing
  <2>7. QED
    BY <1>1, <2>1, <2>3, <2>4, <2>5, <2>6, OthersFit
<1>4. QED
  BY <1>2, <1>3

\* The row of the chunk that is stored becomes one of the search.
LEMMA StoreUnitFits ==
  ASSUME Apart, OwnFits, NEW w \in Workers, StoreUnit(w)
  PROVE  OwnFits'
<1> DEFINE u == Head(work[w].units)
           v == work[w].version
           m == work[w].model
           new == RowOf(u, v)
<1>1. work[w].pc = "store" /\ rows' = Upserted(u, v, m)
  BY DEF StoreUnit, At
<1>2. /\ Base /\ rows \in Seq(Row) /\ v \in Versions /\ m \in BOOLEAN
      /\ OwnIsThere(w) /\ work[w].own \subseteq DOMAIN rows
  BY WorkerIs DEF Apart, OwnFits, Work
<1>3. u \in Unit /\ u.source \in WorksOn(w)
  BY <1>1, <1>2, BatchPlace
<1>4. Grown(rows, rows') /\ Apart'
  BY <1>2, StoreUnitKeeps, StoreUnitApart
<1>5. PICK r : Leaves(rows', r, u, v)
  BY <1>1, <1>2, <1>3, UpsertedIs
<1>6. /\ Moves(w) /\ work'[w].own = work[w].own \cup {new}
      /\ work'[w].sparse = work[w].sparse /\ work'[w].pc \in {"query", "store"}
  BY <1>2, StoreUnitMoves
<1>7. work[w].sparse = NoRanking
  BY <1>1, <1>2, BatchIs
<1>8. new \in DOMAIN rows' /\ SameRow(rows'[new], u, v)
  BY <1>1, <1>2, <1>3, RowOfIs
<1> HIDE DEF new, u
<1>9. rows'[new].active /\ rows'[new].source = u.source
  <2>1. r \in DOMAIN rows' /\ SameRow(rows'[r], u, v) /\ rows'[r].active
    BY <1>5 DEF Leaves
  <2>2. r = new
    BY <1>4, <1>8, <2>1 DEF Apart, RowsDiffer, SameRow, Place
  <2>3. QED
    BY <2>1, <2>2 DEF SameRow
<1>10. \A i \in DOMAIN rows : rows[i].active => rows'[i].active
  BY <1>2, RowsStayActive
<1>11. work'[w].items = work[w].items /\ work'[w].crossed = work[w].crossed
  BY <1>6 DEF Moves
<1>12. (WorksOn(w))' = WorksOn(w)
  BY <1>11 DEF WorksOn
<1>13. OwnIsThere(w)'
  <2>1. ASSUME NEW i \in work[w].own
        PROVE  /\ rows'[i].source \in (WorksOn(w))'
               /\ rows'[i].active \/ rows'[i].source \in work'[w].crossed
    <3>1. rows'[i].source = rows[i].source /\ (rows[i].active => rows'[i].active)
      BY <1>2, <1>4, <1>10 DEF Grown
    <3>2. QED
      BY <1>2, <1>11, <1>12, <3>1 DEF OwnIsThere
  <2>2. rows'[new].source \in (WorksOn(w))' /\ rows'[new].active
    BY <1>3, <1>9, <1>12
  <2>3. QED
    BY <1>6, <2>1, <2>2 DEF OwnIsThere
<1>14. WordsAreFound(w)' /\ HitsFit(w)'
  BY <1>6, <1>7 DEF WordsAreFound, HitsFit, At, NoRanking
<1>15. QED
  BY <1>4, <1>6, <1>10, <1>13, <1>14, MoveFits

\* A ranking by words that is not full has the rows that match them.
LEMMA SearchWordsFits ==
  ASSUME Apart, OwnFits, NEW w \in Workers, SearchWords(w)
  PROVE  OwnFits'
<1> DEFINE j == work[w]
           set == {i \in Visible(w) : ByWords[rows[i].chunk] > 0}
           sparse == Ranking(set, ByWords)
           n == [j EXCEPT !.sparse = sparse]
<1>1. /\ Base /\ j \in Work /\ rows \in Seq(Row) /\ work \in [Workers -> Work]
      /\ OwnIsThere(w) /\ j.own \subseteq DOMAIN rows
  BY WorkerIs DEF Apart, OwnFits, Work, Base, TypeOK
<1>2. To(w, n) /\ j.pc = "search" /\ rows' = rows
  BY DEF SearchWords, At
<1>3. Apart' /\ Grown(rows, rows') /\ Moves(w)
  BY <1>1, SearchesApart, SearchWordsKeeps, SearchMoves DEF Searches
<1>4. set \in SUBSET DOMAIN rows
  BY <1>1, VisibleIs
<1> HIDE DEF set
<1>5. Len(sparse) < Limit => ToSet(sparse) = set
  BY <1>1, <1>4, QueryAssumption, RankingIs
<1> HIDE DEF sparse
<1>6. /\ n.pc = "search" /\ n.own = j.own /\ n.open = j.open /\ n.items = j.items
      /\ n.crossed = j.crossed /\ n.sparse = sparse
  BY <1>1, <1>2 DEF Work
<1>7. work'[w] = n
  BY <1>1, <1>2 DEF To
<1> HIDE DEF n
<1>8. OwnIsThere(w)' /\ HitsFit(w)'
  BY <1>1, <1>2, <1>6, <1>7 DEF OwnIsThere, HitsFit, At, WorksOn
<1>9. WordsAreFound(w)'
  <2>1. SUFFICES ASSUME Len(sparse) < Limit, ~j.open, NEW i \in j.own
                 PROVE  i \in ToSet(sparse) \/ ByWords[rows[i].chunk] = 0 \/ rows[i].source \in j.crossed
    BY <1>2, <1>6, <1>7 DEF WordsAreFound
  <2>2. CASE rows[i].source \in j.crossed
    BY <2>2
  <2>3. CASE rows[i].active
    <3>1. i \in DOMAIN rows /\ i \in Visible(w)
      BY <1>1, <2>1, <2>3 DEF Visible, ActiveRows
    <3>2. ByWords[rows[i].chunk] \in Nat
      BY <1>1, <3>1, RowsFinite, QueryAssumption DEF Row
    <3>3. ByWords[rows[i].chunk] = 0 \/ i \in set
      BY <3>1, <3>2 DEF set
    <3>4. QED
      BY <1>5, <2>1, <3>3
  <2>4. QED
    BY <1>1, <2>1, <2>2, <2>3 DEF OwnIsThere
<1>10. QED
  BY <1>2, <1>3, <1>8, <1>9, MoveFits

\* The hits are the first of the fused rows, or the reranker's choice of as many.
LEMMA FuseFits ==
  ASSUME Apart, OwnFits, NEW w \in Workers, Fuse(w)
  PROVE  OwnFits'
<1> DEFINE j == work[w]
<1>1. /\ Base /\ j \in Work /\ rows \in Seq(Row) /\ work \in [Workers -> Work]
      /\ OwnIsThere(w) /\ WordsAreFound(w)
  BY WorkerIs DEF Apart, OwnFits, Base, TypeOK
<1>2. PICK hits \in Rankings, reranked \in BOOLEAN :
        /\ To(w, [j EXCEPT !.pc = "hits", !.hits = hits, !.reranked = reranked])
        /\ \/ hits = First(TopK, Fused(w)) /\ reranked = j.reranked
           \/ /\ reranked /\ IsInjective(hits) /\ ToSet(hits) \subseteq ToSet(Fused(w))
              /\ Len(hits) = Min({TopK, Len(Fused(w))})
  BY <1>1, FuseIs
<1> DEFINE n == [j EXCEPT !.pc = "hits", !.hits = hits, !.reranked = reranked]
<1>3. Searched(w) /\ rows' = rows
  BY DEF Fuse
<1>4. Apart' /\ Grown(rows, rows') /\ Moves(w)
  BY <1>1, SearchesApart, FuseKeeps, SearchMoves DEF Searches
<1>5. /\ n.pc = "hits" /\ n.own = j.own /\ n.open = j.open /\ n.items = j.items
      /\ n.crossed = j.crossed /\ n.sparse = j.sparse /\ n.dense = j.dense /\ n.query = j.query
      /\ n.hits = hits /\ n.reranked = reranked
  BY <1>1 DEF Work
<1>6. work'[w] = n
  BY <1>1, <1>2 DEF To
<1> HIDE DEF n
<1>7. OwnIsThere(w)' /\ WordsAreFound(w)'
  BY <1>1, <1>3, <1>5, <1>6 DEF OwnIsThere, WordsAreFound, WorksOn
<1>8. /\ IsInjective(hits) /\ ToSet(hits) \subseteq ToSet(Fused(w))
      /\ Len(hits) = Min({TopK, Len(Fused(w))})
      /\ ~reranked => hits = First(TopK, Fused(w))
  <2>1. CASE hits = First(TopK, Fused(w))
    <3>1. Ranked(j.sparse, DenseOf(w))
      BY <1>1, <1>3, RankedIs
    <3>2. Leads(Fused(w), Found(w), AheadIn(w)) /\ TopK \in Nat
      BY <1>1, <3>1, FusedIs, QueryAssumption
    <3>3. /\ Leads(hits, Found(w), AheadIn(w)) /\ ToSet(hits) \subseteq ToSet(Fused(w))
          /\ Len(Fused(w)) \in Nat
          /\ Len(hits) = IF TopK <= Len(Fused(w)) THEN TopK ELSE Len(Fused(w))
      BY <2>1, <3>2, FirstLeads
    <3>4. Len(hits) = Min({TopK, Len(Fused(w))})
      BY <3>2, <3>3, MinOfTwo
    <3>5. QED
      BY <2>1, <3>3, <3>4 DEF Leads
  <2>2. QED
    BY <1>2, <2>1
<1>9. (Fused(w))' = Fused(w) /\ (Searched(w))' = Searched(w)
  BY <1>5, <1>6, FusedSame
<1>10. HitsFit(w)'
  BY <1>3, <1>5, <1>6, <1>8, <1>9 DEF HitsFit
<1>11. QED
  BY <1>3, <1>4, <1>7, <1>10, MoveFits

LEMMA BackfillFits ==
  ASSUME Apart, OwnFits, StartBackfill \/ FindVector \/ SetVector \/ UNCHANGED vars
  PROVE  OwnFits'
<1>1. Grown(rows, rows') /\ work' = work
  BY StartBackfillKeeps, FindVectorKeeps, SetVectorKeeps, StutterBase
  DEF Apart, StartBackfill, FindVector, SetVector, vars
<1>2. \A i \in DOMAIN rows : rows'[i].active = rows[i].active
  BY SetVectorKeeps DEF Apart, StartBackfill, FindVector, vars
<1>3. SUFFICES ASSUME NEW w \in Workers PROVE OwnIsThere(w)' /\ WordsAreFound(w)' /\ HitsFit(w)'
  BY DEF OwnFits
<1>4. work[w].own \subseteq DOMAIN rows /\ OwnIsThere(w) /\ WordsAreFound(w) /\ HitsFit(w)
  BY WorkerIs DEF Apart, OwnFits, Work
<1>5. OwnStays(w)
  BY <1>1 DEF OwnStays
<1>6. OwnIsThere(w)' /\ WordsAreFound(w)'
  BY <1>1, <1>2, <1>4, <1>5, OwnKept DEF Apart
<1>7. (Fused(w))' = Fused(w) /\ (Searched(w))' = Searched(w)
  BY <1>1, FusedSame
<1>8. HitsFit(w)'
  BY <1>1, <1>4, <1>7 DEF HitsFit, At
<1>9. QED
  BY <1>6, <1>8

LEMMA InitFits == Init => OwnFits
<1>1. SUFFICES ASSUME Init, NEW w \in Workers PROVE OwnIsThere(w) /\ WordsAreFound(w) /\ HitsFit(w)
  BY DEF OwnFits
<1>2. work[w] = Idle
  BY <1>1 DEF Init
<1>3. work[w].own = {} /\ work[w].pc = "idle"
  BY <1>2 DEF Idle
<1>4. QED
  BY <1>3 DEF OwnIsThere, WordsAreFound, HitsFit, At

LEMMA NextFits ==
  ASSUME Apart, OwnFits, [Next]_vars
  PROVE  OwnFits'
<1>1. ASSUME NEW w \in Workers, Step(w) \/ BreakOff(w) PROVE OwnFits'
  BY <1>1, StepsFit, GatherFits, StoreUnitFits, SearchWordsFits, FuseFits DEF Step
<1>2. ASSUME NEW w \in Workers,
             \/ \E e \in Entries : StartText(w, e)
             \/ \E v \in Sessions, b \in Batches : StartBatch(w, v, b)
             \/ StartRetrieval(w)
      PROVE  OwnFits'
  BY <1>2, StartsFit
<1>3. CASE StartBackfill \/ FindVector \/ SetVector \/ UNCHANGED vars
  BY <1>3, BackfillFits
<1>4. QED
  BY <1>1, <1>2, <1>3 DEF Next

LEMMA OwnHolds == Spec => [](Apart /\ OwnFits)
<1>1. Apart /\ OwnFits /\ [Next]_vars => (Apart /\ OwnFits)'
  BY NextApart, NextFits
<1>2. Init => Apart /\ OwnFits
  BY InitApart, InitFits
<1>3. QED
  BY <1>1, <1>2, PTL DEF Spec

LEMMA OwnAreRetrieved ==
  ASSUME Apart, OwnFits
  PROVE  OwnRowsRetrieved
<1>1. SUFFICES ASSUME NEW w \in Workers, At(w, "hits"), ~work[w].open, Len(work[w].hits) < TopK,
                      NEW i \in work[w].own
               PROVE  \/ i \in ToSet(work[w].hits)
                      \/ ByWords[rows[i].chunk] = 0
                      \/ rows[i].source \in work[w].crossed
  BY DEF OwnRowsRetrieved
<1> DEFINE hits == work[w].hits
           sparse == work[w].sparse
           fused == Fused(w)
<1>2. /\ Base /\ rows \in Seq(Row) /\ hits \in Rankings /\ WordsAreFound(w) /\ Searched(w)
      /\ IsInjective(hits) /\ ToSet(hits) \subseteq ToSet(fused)
      /\ Len(hits) = Min({TopK, Len(fused)})
  BY <1>1, WorkerIs DEF Apart, OwnFits, HitsFit, Work
<1>3. Ranked(sparse, DenseOf(w))
  BY <1>2, RankedIs
<1>4. /\ Leads(fused, Found(w), AheadIn(w)) /\ fused \in Rankings
      /\ Len(fused) < Limit => ToSet(fused) = Found(w)
  BY <1>2, <1>3, FusedIs
<1>5. IsFiniteSet(Found(w))
  BY <1>2, <1>3, AheadOrders
<1>6. TopK \in Nat /\ Limit \in Nat /\ TopK <= Limit /\ Len(fused) \in Nat
  BY <1>4, QueryAssumption, LenProperties DEF Rankings
<1>7. Len(hits) = Len(fused) /\ Len(fused) < Limit
  <2> DEFINE m == Len(fused)
  <2>1. Len(hits) = IF TopK <= m THEN TopK ELSE m
    <3>1. Len(hits) = Min({TopK, m}) /\ TopK \in Int /\ m \in Int
      BY <1>2, <1>6
    <3> HIDE DEF m
    <3>2. Min({TopK, m}) = IF TopK <= m THEN TopK ELSE m
      BY <3>1, MinOfTwo
    <3>3. QED
      BY <3>1, <3>2
  <2> HIDE DEF fused
  <2>2. Len(hits) < TopK
    BY <1>1
  <2> HIDE DEF hits
  <2>3. QED
    BY <1>6, <2>1, <2>2
<1>8. ToSet(fused) = Found(w) /\ IsInjective(fused)
  BY <1>4, <1>7 DEF Leads
<1>9. Cardinality(ToSet(hits)) = Len(hits) /\ Cardinality(Found(w)) = Len(fused)
  BY <1>2, <1>4, <1>8, ElementsCounted DEF Rankings
<1>10. ToSet(hits) = Found(w)
  BY <1>2, <1>5, <1>7, <1>8, <1>9, FS_Subset
<1>11. Len(sparse) < Limit
  <2>1. sparse \in Rankings /\ IsInjective(sparse) /\ ToSet(sparse) \subseteq Found(w)
    BY <1>3 DEF Ranked, Found
  <2>2. Cardinality(ToSet(sparse)) = Len(sparse) /\ Len(sparse) \in Nat
    BY <2>1, ElementsCounted, LenProperties DEF Rankings
  <2>3. Cardinality(ToSet(sparse)) <= Cardinality(Found(w))
    BY <1>5, <2>1, FS_Subset
  <2> HIDE DEF sparse, fused, hits
  <2>4. QED
    BY <1>6, <1>7, <1>9, <2>2, <2>3
<1>12. sparse # NoRanking
  BY <1>2 DEF Searched
<1>13. i \in ToSet(sparse) => i \in ToSet(hits)
  BY <1>10 DEF Found
<1>14. QED
  BY <1>1, <1>2, <1>11, <1>12, <1>13 DEF WordsAreFound

\* A search loses a candidate that matches its words only to hits that are full, or to another
\* call that indexed the same source at the same time (job_search.py, search, and
\* retrieval.py, retrieve with document_ids).
THEOREM OwnRowsKept == Spec => []OwnRowsRetrieved
<1>1. Apart /\ OwnFits => OwnRowsRetrieved
  BY OwnAreRetrieved
<1>2. QED
  BY <1>1, OwnHolds, PTL

LEMMA FusionIsFair ==
  ASSUME Apart, OwnFits
  PROVE  FairFusion
<1>1. ASSUME NEW w \in Workers, At(w, "hits"), ~work[w].reranked
      PROVE  /\ Cardinality(ToSet(work[w].hits)) = Len(work[w].hits)
             /\ Len(work[w].hits) = Min({TopK, Cardinality(Found(w))})
             /\ \A j \in ToSet(work[w].hits) : \A i \in Found(w) \ {j} :
                  \/ i \in ToSet(work[w].sparse) \cap ToSet(DenseOf(w))
                     /\ j \notin ToSet(work[w].sparse) \cap ToSet(DenseOf(w))
                  \/ NotBehind(i, j, work[w].sparse) /\ NotBehind(i, j, DenseOf(w))
                  => ComesBefore(work[w].hits, i, j)
  <2>1. Base /\ rows \in Seq(Row) /\ Searched(w) /\ work[w].hits = First(TopK, Fused(w))
    BY <1>1, WorkerIs DEF Apart, OwnFits, HitsFit
  <2>2. Ranked(work[w].sparse, DenseOf(w))
    BY <2>1, RankedIs
  <2>3. QED
    BY <2>1, <2>2, HitsAreFair
<1>2. QED
  BY <1>1 DEF FairFusion, NotBehind, ComesBefore

\* The fused order is fair: no row is lost or doubled, a row that both searches found comes
\* before one that only one of them found, and a row that is no worse in either ranking is
\* not placed behind (retrieval.py, reciprocal_rank_fusion).
THEOREM FusionFair == Spec => []FairFusion
<1>1. Apart /\ OwnFits => FairFusion
  BY FusionIsFair
<1>2. QED
  BY <1>1, OwnHolds, PTL
=============================================================================
