---------------------- MODULE MCConversationExtraction ----------------------
(***************************************************************************)
(* An instance of ConversationExtraction for TLC: a preference, a major    *)
(* and the same major in a message that also speaks of somebody else.      *)
(***************************************************************************)
EXTENDS ConversationExtraction

Statement(t, v, ok) == [type |-> t, value |-> v, valid |-> ok]

MCStatements == {Statement("memory.preference", "remote", TRUE),
                 Statement("profile.major", "physics", TRUE),
                 Statement("profile.major", "physics", FALSE)}
=============================================================================
