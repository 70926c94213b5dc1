------------------------------ MODULE TestRunner ------------------------------
(***************************************************************************)
(* What run-tests.sh promises to the person who starts it, without saying  *)
(* how: the tests of a suite are taken in order, a test runs alone on the  *)
(* nodes it is given, it is given exactly as many nodes as it asks for, it *)
(* keeps them until it has ended, and its verdict is the one reported.     *)
(* TestScheduler implements this with process ids kept per node.           *)
(***************************************************************************)
EXTENDS Integers, FiniteSets

CONSTANTS NoNodes,   (* number of nodes given with -n                      *)
          NoTests,   (* number of files matching tests/*.sh                *)
          Kinds      (* what a file of the suite can be, see TestKind      *)

(* What the scheduler learns about one file of the tests directory: whether *)
(* it may be executed, and the two answers of "./test -i" it looks at.      *)
TestKind == [executable : BOOLEAN, nodes_needed : Nat \ {0}, enabled : BOOLEAN]

Node == 0 .. NoNodes - 1
Test == 1 .. NoTests

Verdict == {"none", "ok", "failed"}
Phase == {"waiting", "running", "ended", "reported", "skipped", "ignored"}

VARIABLES suite,     (* what each file of the suite is; never changes      *)
          phase,     (* how far each test is                               *)
          nodesOf,   (* the nodes each test holds                          *)
          verdict    (* how each test process ended                        *)

vars == <<suite, phase, nodesOf, verdict>>

Init ==
  /\ suite \in [Test -> Kinds]
  /\ phase = [t \in Test |-> "waiting"]
  /\ nodesOf = [t \in Test |-> {}]
  /\ verdict = [t \in Test |-> "none"]

(* A test is looked at only when all the tests before it have been. *)
Next_in_order(t) ==
  /\ phase[t] = "waiting"
  /\ \A u \in Test : u < t => phase[u] # "waiting"

Runnable(k) == k.executable /\ k.nodes_needed <= NoNodes /\ k.enabled

Ignore(t) ==
  /\ Next_in_order(t)
  /\ ~suite[t].executable
  /\ phase' = [phase EXCEPT ![t] = "ignored"]
  /\ UNCHANGED <<suite, nodesOf, verdict>>

Skip(t) ==
  /\ Next_in_order(t)
  /\ suite[t].executable /\ ~Runnable(suite[t])
  /\ phase' = [phase EXCEPT ![t] = "skipped"]
  /\ UNCHANGED <<suite, nodesOf, verdict>>

(* The nodes are ones nobody holds, and as many as the test asks for. *)
Start(t) ==
  /\ Next_in_order(t)
  /\ Runnable(suite[t])
  /\ \E S \in SUBSET (Node \ UNION {nodesOf[u] : u \in Test}) :
       /\ Cardinality(S) = suite[t].nodes_needed
       /\ nodesOf' = [nodesOf EXCEPT ![t] = S]
  /\ phase' = [phase EXCEPT ![t] = "running"]
  /\ UNCHANGED <<suite, verdict>>

End(t) ==
  /\ phase[t] = "running"
  /\ phase' = [phase EXCEPT ![t] = "ended"]
  /\ \E v \in {"ok", "failed"} : verdict' = [verdict EXCEPT ![t] = v]
  /\ UNCHANGED <<suite, nodesOf>>

(* The verdict is reported and the nodes are given back in one step. *)
Report(t) ==
  /\ phase[t] = "ended"
  /\ phase' = [phase EXCEPT ![t] = "reported"]
  /\ nodesOf' = [nodesOf EXCEPT ![t] = {}]
  /\ UNCHANGED <<suite, verdict>>

Next == \E t \in Test : Ignore(t) \/ Skip(t) \/ Start(t) \/ End(t) \/ Report(t)

Spec == Init /\ [][Next]_vars
===============================================================================
