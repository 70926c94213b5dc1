--------------------------- MODULE MCTestScheduler ---------------------------
(* TestScheduler on small suites. *)
EXTENDS TestScheduler

Test1 == [executable |-> TRUE, nodes_needed |-> 1, enabled |-> TRUE]
Test2 == [Test1 EXCEPT !.nodes_needed = 2]

Common == {Test1, Test2}

(* A file without the x bit, a test for the other corosync version, a test  *)
(* that asks for every node, one that asks for one node more than there are. *)
MCKinds ==
  {[Test1 EXCEPT !.executable = FALSE], [Test1 EXCEPT !.enabled = FALSE],
   [Test1 EXCEPT !.nodes_needed = NoNodes],
   [Test1 EXCEPT !.nodes_needed = NoNodes + 1]} \cup Common

(* Suites with one file at most that is not common. *)
MCInit == Init /\ Cardinality({t \in Test : suite[t] \notin Common}) <= 1
MCSpec == MCInit /\ [][Next]_vars /\ Fairness
==============================================================================
