----------------------------- MODULE MCSyncFuzzers -----------------------------
EXTENDS SyncFuzzers

\* The instances of N find the test cases S, the others none.
Finders(N, S) == [n \in Nodes |-> IF n \in N THEN S ELSE {}]
Everyone(S)   == Finders(Nodes, S)

\* Exchange between secondaries through a main node, and with it; files that are
\* rewritten, with queues long enough that one is missing in the middle of a listing;
\* exits, deaths and restarts of two instances with a test case; elections among
\* three without one.
MCFleets ==
    {[nodes |-> {1, 2, 3}, cases |-> Finders({2, 3}, {"a"}), ends |-> 0, trims |-> 0],
     [nodes |-> {1, 2}, cases |-> Everyone({"a", "b"}), ends |-> 0, trims |-> 0],
     [nodes |-> {1, 2}, cases |-> Finders(Mains, {"a", "b", "c"}), ends |-> 0, trims |-> 1],
     [nodes |-> {1, 2}, cases |-> Everyone({"a"}), ends |-> 1, trims |-> 0],
     [nodes |-> {1, 2, 3}, cases |-> Everyone({}), ends |-> 2, trims |-> 0]}

\* Elections among three, with an end more.
MCElections == {[nodes |-> {1, 2, 3}, cases |-> Everyone({}), ends |-> 3, trims |-> 0]}

\* Two instances, two test cases, one restart.
MCRestart == {[nodes |-> {1, 2}, cases |-> Everyone({"a", "b"}), ends |-> 1, trims |-> 0]}

================================================================================
