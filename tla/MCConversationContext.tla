----------------------- MODULE MCConversationContext -----------------------
(***************************************************************************)
(* A profile of one role and a list of skills; two kinds of remarks; one   *)
(* memory of the newer tables and one of the older.                        *)
(***************************************************************************)
EXTENDS ConversationContext

CONSTANTS t1, t2, role, skills, goal, a, b, taking, adding, plain, semantic, older

Hinting(k, op, w) == [about |-> k, op |-> op, words |-> {w}]

MCSays ==
  [x \in Texts |->
    CASE x = taking -> <<Hinting(role, "replace", b), Hinting(skills, "remove", a)>>
      [] x = adding -> <<Hinting(skills, "add", b), Hinting(goal, "replace", a)>>
      [] OTHER      -> <<>>]

MCOpening == <<plain, plain, plain, plain>>
MCNothing == <<>>

MCKindOf == [m \in Memories |-> goal]

MCOneSave == {[f \in Fields |-> {a}]}

Saved(r, s) == [f \in Fields |-> IF f = role THEN {r} ELSE s]

MCSaves == {Saved(a, {a}), Saved(a, {a, b}), Saved(b, {a, b})}

=============================================================================
