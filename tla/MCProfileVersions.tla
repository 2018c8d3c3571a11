-------------------------- MODULE MCProfileVersions --------------------------
(***************************************************************************)
(* The profile started from one onboarded snapshot.  The values of a field *)
(* are interchangeable, field by field: what can happen after one snapshot *)
(* can happen, renamed, after every other.                                 *)
(***************************************************************************)
EXTENDS ProfileVersions

CONSTANT First \* the value of every field after onboarding

ASSUME FirstAssumption == First \in Values

MCInit == Init /\ Profile = [f \in Fields |-> First]

MCSpec == MCInit /\ [][Next]_vars /\ \A s \in Sessions : WF_vars(Index(s))
=============================================================================
