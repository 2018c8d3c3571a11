------------------------- MODULE MCRetrievalCorpus -------------------------
(***************************************************************************)
(* A memory or piece of evidence is indexed alone, in two versions of two  *)
(* texts, one of them a chunk that is too long and is cut in two; the      *)
(* candidates of a search are indexed in batches, one of them in both.     *)
(***************************************************************************)
EXTENDS RetrievalCorpus

CONSTANTS w1, w2, entry, job, other, earlier, later, brief, full, huge, a, b, c

MCChunksOf == [x \in Texts |-> CASE x = brief -> <<a>> [] x = full -> <<b, a>> [] OTHER -> <<c>>]
MCHalvesOf == [x \in Oversized |-> <<a, b>>]
MCByWords  == [x \in Chunks |-> CASE x = a -> 2 [] x = b -> 1 [] OTHER -> 0]
MCByVector == [x \in Chunks |-> CASE x = b -> 2 [] x = a -> 1 [] OTHER -> 3]
MCEntries  == {[source |-> entry, text |-> brief, version |-> earlier],
               [source |-> entry, text |-> huge, version |-> later]}
MCBatches  == {<<[source |-> job, text |-> full]>>,
               <<[source |-> job, text |-> brief], [source |-> other, text |-> brief]>>}

Symmetry == Permutations(Workers)

=============================================================================
