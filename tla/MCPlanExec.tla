----------------------------- MODULE MCPlanExec -----------------------------
(***************************************************************************)
(* Plans of up to three tasks for TLC: independent tasks, a chain, a fork, *)
(* a join with an edge across it, and one that topo_sort refuses.          *)
(***************************************************************************)
EXTENDS PlanExec

Task(i, deps) == [id |-> i, deps |-> deps]

Shapes == {
  <<>>,
  <<Task("a", <<>>), Task("b", <<>>)>>,
  <<Task("b", <<"a">>), Task("a", <<>>)>>,
  <<Task("a", <<>>), Task("b", <<"a", "a">>), Task("c", <<"b">>)>>,
  <<Task("a", <<>>), Task("b", <<"a">>), Task("c", <<"a">>)>>,
  <<Task("a", <<>>), Task("b", <<>>), Task("c", <<"a", "b">>)>>,
  <<Task("a", <<"b">>), Task("b", <<"a">>)>> }
=============================================================================
