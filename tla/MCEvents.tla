------------------------------ MODULE MCEvents ------------------------------
(* Two callers of the event registry, and one pattern to watch.            *)
EXTENDS Events

MCEventNames == {<<"backup", "done">>}
MCPatterns == {[stem |-> <<"backup">>, tail |-> ".*"]}
=============================================================================
