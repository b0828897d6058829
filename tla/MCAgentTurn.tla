----------------------------- MODULE MCAgentTurn -----------------------------
(* One agent, two turns. The replies call one tool, the same one twice, two *)
(* of them, or more of them than the protected head and the minimum of      *)
(* compress leave room for.                                                 *)
EXTENDS AgentTurn

MCReplies == {<<"a", "a">>, <<"a", "b", "c", "d", "e">>}

=============================================================================
