----------------------------- MODULE Selection -----------------------------
(***************************************************************************)
(* Selecting from a sequence, as a list comprehension does, and sorting a  *)
(* set.  They are what SelectSeq and SetToSortSeq return, with a set for   *)
(* the test and without recursion, so that their properties can be proved. *)
(***************************************************************************)
EXTENDS Naturals, Sequences, FiniteSets

\* The rank of a place among the places selected, counted from one.
RankIn(places, i) == Cardinality({j \in places : j <= i})

\* The elements at some places, in their order.
Picked(seq, places) ==
  [k \in 1..Cardinality(places) |-> seq[CHOOSE i \in places : RankIn(places, i) = k]]

\* The elements that belong to a set, in their order.
Selected(seq, S) == Picked(seq, {i \in DOMAIN seq : seq[i] \in S})

\* Each element once, where it comes first.
Distinct(seq) == Picked(seq, {i \in DOMAIN seq : \A j \in DOMAIN seq : seq[j] = seq[i] => i <= j})

\* How often an element occurs.
Times(seq, e) == Cardinality({i \in DOMAIN seq : seq[i] = e})

\* The elements of a set from first to last; a strict total order says which is before which.
Sorted(S, before) ==
  [k \in 1..Cardinality(S) |->
     CHOOSE x \in S : Cardinality({y \in S : <<y, x>> \in before}) = k - 1]
=============================================================================
