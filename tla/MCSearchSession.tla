-------------------------- MODULE MCSearchSession --------------------------
(***************************************************************************)
(* A request that names a job board twice, an entry that must not be       *)
(* asked, and a careers page; two registers of people; one page the web    *)
(* may lead to.                                                            *)
(***************************************************************************)
EXTENDS SearchSession

CONSTANTS board, shut, careers, openalex, wikidata, good, fair, bad, web, sample

MCCatalog   == <<board, board, shut, careers>>
MCRegisters == <<openalex, wikidata>>

MCOffers ==
  [s \in Sources |->
    CASE s = board    -> {good, fair}
      [] s = openalex -> {fair}
      [] s = wikidata -> {good, bad}
      [] s = careers  -> {fair, bad}
      [] OTHER        -> {}]

MCVerdict ==
  [c \in Candidates \cup {sample} |->
    CASE c \in {good, web} -> "verified"
      [] c = bad           -> "conflict"
      [] OTHER             -> "unverified"]

MCSamples == <<sample>>

=============================================================================
