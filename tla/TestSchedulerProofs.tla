------------------------- MODULE TestSchedulerProofs -------------------------
(***************************************************************************)
(* Proofs about TestScheduler for any number of nodes and tests, any suite *)
(* and any set of process ids.                                             *)
(***************************************************************************)
EXTENDS TestScheduler, FiniteSetTheorems, WellFoundedInduction, TLAPS

(* A test the script is about to place is one it may place. *)
Placed ==
  pc \in {"place", "scan", "finish"} /\ test_exec \in Test =>
    suite[test_exec].executable /\ Fits(suite[test_exec])

(* There is a test to place while one is placed and none left afterwards, and *)
(* what wait_for_any echoes is a process.                                    *)
ScriptInRange ==
  /\ pc = "place" => test_exec \in Test
  /\ pc \in {"drain", "done"} => test_exec \notin Test
  /\ pc = "finish" => dead_pid \in Pid

(* bash keeps a status only of a process that has ended. *)
StatusAfterEnd == \A p \in Pid : status[p] # "none" => proc[p] # "test"

(* The inductive invariant: the node table and the processes agree. *)
IInv ==
  /\ TypeOK
  /\ Placed
  /\ ScriptInRange
  /\ StatusAfterEnd
  /\ TableMatchesJobs

------------------------------------------------------------------------------
(* Facts about the operators. *)

(* An ascending loop over a non-empty set of nodes meets its least member    *)
(* first.                                                                    *)
LEMMA FirstIsLeast ==
  ASSUME NEW S, S \subseteq Node, S # {}
  PROVE  First(S) \in S /\ \A j \in S : First(S) <= j
<1>1. S \subseteq Nat
  BY SchedulerAssumption DEF Node
<1>2. PICK i \in S : \A j \in S : ~(<<j, i>> \in OpToRel(<, Nat))
  BY <1>1, NatLessThanWellFounded, WFMin
<1>3. ASSUME NEW j \in S PROVE i <= j
  <2>1. i \in Nat /\ j \in Nat /\ ~(j < i)
    BY <1>1, <1>2 DEF OpToRel
  <2>2. QED
    BY <2>1
<1>4. QED
  BY <1>3 DEF First

(* The members of F up to i, and the n lowest members of F. *)
UpTo(F, i) == {j \in F : j <= i}
Lowest(F, n) == {i \in F : Cardinality(UpTo(F, i)) <= n}

(* Numbering the members of a finite set of naturals by how many of them are *)
(* not above is one to one, and onto the numbers up to its size.             *)
LEMMA Numbering ==
  ASSUME NEW F, F \subseteq Nat, IsFiniteSet(F)
  PROVE  LET number == [i \in F |-> Cardinality(UpTo(F, i))]
         IN  /\ number \in Injection(F, 1 .. Cardinality(F))
             /\ number \in Surjection(F, 1 .. Cardinality(F))
<1> DEFINE number == [i \in F |-> Cardinality(UpTo(F, i))]
<1>1. ASSUME NEW i \in F
      PROVE  IsFiniteSet(UpTo(F, i)) /\ number[i] \in 1 .. Cardinality(F)
  <2> i \in Nat
    OBVIOUS
  <2>1. UpTo(F, i) \in SUBSET F /\ i \in UpTo(F, i)
    BY DEF UpTo
  <2>2. IsFiniteSet(UpTo(F, i)) /\ Cardinality(UpTo(F, i)) <= Cardinality(F)
    BY <2>1, FS_Subset
  <2>3. Cardinality(UpTo(F, i)) \in Nat \ {0} /\ Cardinality(F) \in Nat
    BY <2>1, <2>2, FS_EmptySet, FS_CardinalityType
  <2>4. QED
    BY <2>2, <2>3
<1>2. ASSUME NEW i \in F, NEW j \in F, number[i] = number[j], i < j PROVE FALSE
  <2>1. i \in Nat /\ j \in Nat /\ \A k \in F : k \in Nat
    BY <1>2
  <2>2. \A k \in UpTo(F, i) : k \in UpTo(F, j)
    BY <1>2, <2>1 DEF UpTo
  <2>3. UpTo(F, j) = UpTo(F, i)
    BY <1>1, <1>2, <2>2, FS_Subset
  <2>4. QED
    BY <1>2, <2>1, <2>3 DEF UpTo
<1>3. number \in Injection(F, 1 .. Cardinality(F))
  <2>1. \A i, j \in F : number[i] = number[j] => i = j
    BY <1>2
  <2>2. number \in [F -> 1 .. Cardinality(F)]
    BY <1>1
  <2>3. QED
    BY <2>1, <2>2 DEF Injection, IsInjective
<1>4. Cardinality(F) \in Nat
  BY FS_CardinalityType
<1>5. /\ IsFiniteSet(1 .. Cardinality(F))
      /\ Cardinality(1 .. Cardinality(F)) = Cardinality(F)
  BY <1>4, FS_Interval
<1>6. QED
  BY <1>3, <1>5, FS_Injection

(* One pass over F in ascending order that stops at the n-th member picks    *)
(* exactly n of them when there are that many.                               *)
LEMMA LowestCardinality ==
  ASSUME NEW F, F \subseteq Nat, IsFiniteSet(F), NEW n \in Nat, n <= Cardinality(F)
  PROVE  Cardinality(Lowest(F, n)) = n
<1> DEFINE number == [i \in F |-> Cardinality(UpTo(F, i))]
           f == [i \in Lowest(F, n) |-> number[i]]
<1>1. number \in Injection(F, 1 .. Cardinality(F)) /\ number \in Surjection(F, 1 .. Cardinality(F))
  BY Numbering
<1>2. Cardinality(F) \in Nat
  BY FS_CardinalityType
<1>3. f \in [Lowest(F, n) -> 1 .. n] /\ \A i, j \in Lowest(F, n) : f[i] = f[j] => i = j
  <2>1. \A i \in F : number[i] \in 1 .. Cardinality(F)
    BY <1>1 DEF Injection
  <2>2. \A i, j \in F : number[i] = number[j] => i = j
    BY <1>1 DEF Injection, IsInjective
  <2>3. \A i \in Lowest(F, n) : i \in F /\ number[i] \in 1 .. n
    BY <1>2, <2>1 DEF Lowest
  <2>4. QED
    BY <2>2, <2>3
<1>4. \A k \in 1 .. n : \E i \in Lowest(F, n) : f[i] = k
  BY <1>1, <1>2 DEF Surjection, Lowest
<1>5. f \in Bijection(Lowest(F, n), 1 .. n)
  BY <1>3, <1>4 DEF Bijection, Injection, IsInjective, Surjection
<1>6. IsFiniteSet(Lowest(F, n))
  BY FS_Subset DEF Lowest
<1>7. Cardinality(1 .. n) = n
  BY FS_Interval
<1>8. QED
  BY <1>5, <1>6, <1>7, FS_Bijection DEF ExistsBijection

LEMMA NodeFinite ==
  /\ IsFiniteSet(Node)
  /\ Cardinality(Node) = NoNodes
  /\ Node \subseteq Nat
  /\ \A S \in SUBSET Node : IsFiniteSet(S) /\ Cardinality(S) \in Nat
<1>1. IsFiniteSet(Node) /\ Cardinality(Node) = NoNodes
  BY SchedulerAssumption, FS_Interval DEF Node
<1>2. Node \subseteq Nat
  BY SchedulerAssumption DEF Node
<1>3. QED
  BY <1>1, <1>2, FS_Subset, FS_CardinalityType

(* find_free_nodes returns free nodes, and exactly as many as were asked for. *)
LEMMA FindFreeNodes ==
  ASSUME NEW n \in Nat \ {0}, n <= Cardinality(FreeNodes)
  PROVE  /\ find_free_nodes(n) \subseteq FreeNodes
         /\ Cardinality(find_free_nodes(n)) = n
         /\ find_free_nodes(n) # {}
<1>1. FreeNodes \subseteq Node
  BY DEF FreeNodes
<1>2. FreeNodes \subseteq Nat /\ IsFiniteSet(FreeNodes)
  BY <1>1, NodeFinite
<1>3. find_free_nodes(n) = Lowest(FreeNodes, n)
  BY DEF find_free_nodes, Lowest, UpTo
<1>4. Cardinality(find_free_nodes(n)) = n
  BY <1>2, <1>3, LowestCardinality
<1>5. find_free_nodes(n) \subseteq FreeNodes
  BY DEF find_free_nodes
<1>6. QED
  BY <1>4, <1>5, FS_EmptySet

------------------------------------------------------------------------------
(* Initially nothing runs. *)
LEMMA InitIInv == Init => IInv
<1> SUFFICES ASSUME Init PROVE IInv
  OBVIOUS
<1>1. TypeOK
  BY SchedulerAssumption DEF Init, TypeOK, Node, Test, Verdict, Job
<1>2. Placed /\ ScriptInRange /\ StatusAfterEnd
  BY DEF Init, Placed, ScriptInRange, StatusAfterEnd
<1>3. TableMatchesJobs
  BY SchedulerAssumption DEF Init, TableMatchesJobs, Uncollected, OwnedBy
<1>4. QED
  BY <1>1, <1>2, <1>3 DEF IInv

(* Steps that leave the node table and the processes alone preserve the      *)
(* agreement of the two.                                                     *)
LEMMA TableUnchanged ==
  ASSUME TableMatchesJobs, StatusAfterEnd,
         UNCHANGED <<suite, test_nodes_pid, test_nodes_test, proc, status, job>>
  PROVE  TableMatchesJobs' /\ StatusAfterEnd'
BY DEF TableMatchesJobs, StatusAfterEnd, Uncollected, OwnedBy

(* The steps of the script that only move it from one place to another. *)
LEMMA ControlIInv ==
  ASSUME IInv,
         IgnoreFile \/ SkipTest \/ PlaceTest \/ NoFreeNodes \/ ProbeAlive
         \/ ProbeDead \/ EndOfSuite \/ WaitForRest \/ Summary
  PROVE  IInv'
<1> USE SchedulerAssumption DEF IInv
<1>1. UNCHANGED <<suite, test_nodes_pid, test_nodes_test, report, machine>>
  BY DEF IgnoreFile, SkipTest, PlaceTest, NoFreeNodes, ProbeAlive, ProbeDead,
         EndOfSuite, WaitForRest, Summary, tables, results
<1>2. TableMatchesJobs' /\ StatusAfterEnd'
  BY <1>1, TableUnchanged DEF machine
<1>3. /\ test_exec' \in 1 .. NoTests + 1
      /\ pc' \in {"loop", "place", "scan", "finish", "drain", "done"}
      /\ scan' \in Node
      /\ dead_pid' \in Pid \cup {NoPid}
      /\ no_pass' \in Nat /\ no_failed' \in Nat /\ no_skipped' \in Nat
  <2>1. CASE IgnoreFile
    BY <2>1 DEF IgnoreFile, TypeOK, Test, results
  <2>2. CASE SkipTest
    BY <2>2 DEF SkipTest, TypeOK, Test
  <2>3. CASE PlaceTest \/ EndOfSuite \/ Summary
    BY <2>3 DEF PlaceTest, EndOfSuite, Summary, TypeOK, results
  <2>4. CASE NoFreeNodes \/ WaitForRest
    BY <2>4 DEF NoFreeNodes, WaitForRest, TypeOK, results, Node
  <2>5. CASE ProbeAlive
    <3>1. scan \in 0 .. NoNodes - 1
      BY DEF TypeOK, Node
    <3>2. (scan + 1) % NoNodes \in Node
      BY <3>1 DEF Node
    <3>3. QED
      BY <2>5, <3>2 DEF ProbeAlive, TypeOK, results
  <2>6. CASE ProbeDead
    BY <2>6 DEF ProbeDead, TypeOK, results
  <2>7. QED
    BY <2>1, <2>2, <2>3, <2>4, <2>5, <2>6
<1>4. TypeOK'
  BY <1>1, <1>3 DEF TypeOK, machine
<1>5. Placed' /\ ScriptInRange'
  <2>1. CASE IgnoreFile \/ SkipTest
    BY <2>1 DEF IgnoreFile, SkipTest, Placed, ScriptInRange
  <2>2. CASE PlaceTest \/ EndOfSuite \/ Summary
    BY <2>2 DEF PlaceTest, EndOfSuite, Summary, Placed, ScriptInRange, Test
  <2>3. CASE NoFreeNodes \/ ProbeAlive
    BY <2>3 DEF NoFreeNodes, ProbeAlive, Placed, ScriptInRange
  <2>4. CASE WaitForRest
    BY <2>4 DEF WaitForRest, Placed, ScriptInRange
  <2>5. CASE ProbeDead
    <3>1. test_nodes_pid[scan] \in Pid
      BY <2>5 DEF ProbeDead, Alive, TypeOK
    <3>2. QED
      BY <2>5, <3>1 DEF ProbeDead, Placed, ScriptInRange
  <2>6. QED
    BY <2>1, <2>2, <2>3, <2>4, <2>5
<1>6. QED
  BY <1>2, <1>4, <1>5

(* start_test gives free nodes to a process that owned none. *)
LEMMA StartIInv ==
  ASSUME IInv, StartTest
  PROVE  IInv'
<1> USE SchedulerAssumption
<1> DEFINE n == suite[test_exec].nodes_needed
           S == find_free_nodes(n)
<1>1. PICK p \in Pid : start_test(p, S)
  BY DEF StartTest
<1>2. /\ proc[p] = "free" /\ status[p] = "none"
      /\ proc' = [proc EXCEPT ![p] = "test"]
      /\ job' = [job EXCEPT ![p] = [test |-> test_exec, nodes |-> S]]
      /\ test_nodes_pid' = [i \in Node |-> IF i \in S THEN p ELSE test_nodes_pid[i]]
      /\ test_nodes_test' = [test_nodes_test EXCEPT ![First(S)] = test_exec]
  BY <1>1 DEF start_test, Fork
<1>3. /\ pc = "place" /\ pc' = "loop"
      /\ n <= Cardinality(FreeNodes)
      /\ test_exec' = test_exec + 1
      /\ UNCHANGED <<suite, scan, dead_pid, report, no_pass, no_failed, no_skipped,
                     status, verdict, reuse>>
  BY NodeFinite DEF StartTest, results
<1>4. test_exec \in Test /\ n \in Nat \ {0}
  BY <1>3 DEF IInv, ScriptInRange, TypeOK, TestKind
<1>5. S \subseteq FreeNodes /\ Cardinality(S) = n /\ S # {}
  BY <1>3, <1>4, FindFreeNodes
<1>6. S \subseteq Node /\ \A i \in S : test_nodes_pid[i] = NoPid
  BY <1>5 DEF FreeNodes
<1>7. First(S) \in S
  BY <1>5, <1>6, FirstIsLeast
<1>8. TypeOK'
  <2>1. /\ test_nodes_pid' \in [Node -> Pid \cup {NoPid}]
        /\ test_nodes_test' \in [Node -> 0 .. NoTests]
    <3>1. test_exec \in 0 .. NoTests
      BY <1>4 DEF Test
    <3>2. QED
      BY <1>2, <3>1 DEF IInv, TypeOK
  <2>2. job' \in [Pid -> Job] /\ proc' \in [Pid -> {"free", "test", "foreign"}]
    BY <1>2, <1>4, <1>6 DEF IInv, TypeOK, Test, Job
  <2>3. test_exec' \in 1 .. NoTests + 1
    BY <1>3, <1>4 DEF Test
  <2>4. QED
    BY <1>3, <2>1, <2>2, <2>3 DEF IInv, TypeOK
<1>9. Placed' /\ ScriptInRange'
  BY <1>3 DEF Placed, ScriptInRange
<1>10. StatusAfterEnd'
  BY <1>2, <1>3 DEF IInv, TypeOK, StatusAfterEnd
<1>11. ASSUME NEW q \in Pid
       PROVE  /\ Uncollected(q)' => /\ OwnedBy(q)' = job'[q].nodes
                                    /\ job'[q].test \in Test
                                    /\ Cardinality(OwnedBy(q)') = suite'[job'[q].test].nodes_needed
                                    /\ test_nodes_test'[First(OwnedBy(q)')] = job'[q].test
              /\ ~Uncollected(q)' => OwnedBy(q)' = {}
  <2>1. CASE q = p
    <3>1. ~Uncollected(p)
      BY <1>2 DEF Uncollected
    <3>2. OwnedBy(p) = {}
      BY <3>1 DEF IInv, TableMatchesJobs
    <3>3. OwnedBy(p)' = S
      BY <1>2, <1>6, <3>2 DEF OwnedBy
    <3>4. Uncollected(p)'
      BY <1>2 DEF Uncollected, IInv, TypeOK
    <3>5. job'[p] = [test |-> test_exec, nodes |-> S]
      BY <1>2 DEF IInv, TypeOK
    <3>6. test_nodes_test'[First(S)] = test_exec
      BY <1>2, <1>6, <1>7 DEF IInv, TypeOK
    <3>7. QED
      BY <1>3, <1>4, <1>5, <2>1, <3>3, <3>4, <3>5, <3>6
  <2>2. CASE q # p
    <3>1. OwnedBy(q)' = OwnedBy(q)
      BY <1>2, <1>6, <2>2 DEF OwnedBy
    <3>2. Uncollected(q)' = Uncollected(q) /\ job'[q] = job[q]
      BY <1>2, <1>3, <2>2 DEF Uncollected, IInv, TypeOK
    <3>3. ASSUME Uncollected(q) PROVE OwnedBy(q) # {}
      <4>1. /\ job[q].test \in Test
            /\ Cardinality(OwnedBy(q)) = suite[job[q].test].nodes_needed
        BY <3>3 DEF IInv, TableMatchesJobs
      <4>2. suite[job[q].test].nodes_needed # 0
        BY <4>1 DEF IInv, TypeOK, TestKind
      <4>3. QED
        BY <4>1, <4>2, FS_EmptySet
    <3>4. ASSUME Uncollected(q)
          PROVE  test_nodes_test'[First(OwnedBy(q))] = test_nodes_test[First(OwnedBy(q))]
      <4>1. First(OwnedBy(q)) \in OwnedBy(q)
        BY <3>3, <3>4, FirstIsLeast DEF OwnedBy
      <4>2. First(OwnedBy(q)) \in Node /\ test_nodes_pid[First(OwnedBy(q))] = q
        BY <4>1 DEF OwnedBy
      <4>3. First(OwnedBy(q)) # First(S)
        BY <4>2, <1>6, <1>7
      <4>4. QED
        BY <1>2, <4>2, <4>3 DEF IInv, TypeOK
    <3>5. QED
      BY <1>3, <3>1, <3>2, <3>4 DEF IInv, TableMatchesJobs
  <2>3. QED
    BY <2>1, <2>2
<1>12. TableMatchesJobs'
  BY <1>11 DEF TableMatchesJobs
<1>13. QED
  BY <1>8, <1>9, <1>10, <1>12 DEF IInv

(* finish_test frees every node of a process that has ended, and no other.   *)
LEMMA FinishIInv ==
  ASSUME IInv, FinishTest
  PROVE  IInv'
<1> USE SchedulerAssumption
<1> DEFINE p == dead_pid
           own == OwnedBy(p)
<1>1. /\ status[p] # "none"
      /\ status' = [status EXCEPT ![p] = "none"]
      /\ test_nodes_pid' = [i \in Node |-> IF i \in own THEN NoPid ELSE test_nodes_pid[i]]
      /\ report' = Append(report, [test |-> test_nodes_test[First(own)],
                                   passed |-> status[p] = "ok"])
      /\ no_pass' = IF status[p] = "ok" THEN no_pass + 1 ELSE no_pass
      /\ no_failed' = IF status[p] = "ok" THEN no_failed ELSE no_failed + 1
      /\ pc = "finish"
      /\ pc' = IF test_exec \in Test THEN "place" ELSE "drain"
      /\ UNCHANGED <<suite, test_nodes_test, test_exec, scan, dead_pid, no_skipped,
                     proc, job, verdict, reuse>>
  BY DEF FinishTest, finish_test
<1>2. p \in Pid
  BY <1>1 DEF IInv, ScriptInRange
<1>3. Uncollected(p) /\ proc[p] # "test"
  BY <1>1, <1>2 DEF Uncollected, IInv, StatusAfterEnd
<1>4. First(own) \in Node
  <2>1. /\ job[p].test \in Test
        /\ Cardinality(own) = suite[job[p].test].nodes_needed
    BY <1>2, <1>3 DEF IInv, TableMatchesJobs
  <2>2. suite[job[p].test].nodes_needed # 0
    BY <2>1 DEF IInv, TypeOK, TestKind
  <2>3. own # {} /\ own \subseteq Node
    BY <2>1, <2>2, FS_EmptySet DEF OwnedBy
  <2>4. QED
    BY <2>3, FirstIsLeast
<1>5. TypeOK'
  <2>1. test_nodes_pid' \in [Node -> Pid \cup {NoPid}]
    BY <1>1 DEF IInv, TypeOK
  <2>2. report' \in Seq([test : 0 .. NoTests, passed : BOOLEAN])
    <3>1. [test |-> test_nodes_test[First(own)], passed |-> status[p] = "ok"]
             \in [test : 0 .. NoTests, passed : BOOLEAN]
      BY <1>4 DEF IInv, TypeOK
    <3>2. QED
      BY <1>1, <3>1 DEF IInv, TypeOK
  <2>3. no_pass' \in Nat /\ no_failed' \in Nat
    BY <1>1 DEF IInv, TypeOK
  <2>4. status' \in [Pid -> Verdict]
    BY <1>1 DEF IInv, TypeOK, Verdict
  <2>5. QED
    BY <1>1, <2>1, <2>2, <2>3, <2>4 DEF IInv, TypeOK
<1>6. Placed' /\ ScriptInRange'
  BY <1>1 DEF IInv, Placed, ScriptInRange
<1>7. StatusAfterEnd'
  BY <1>1, <1>2 DEF IInv, TypeOK, StatusAfterEnd
<1>8. ASSUME NEW q \in Pid
      PROVE  /\ Uncollected(q)' => /\ OwnedBy(q)' = job'[q].nodes
                                   /\ job'[q].test \in Test
                                   /\ Cardinality(OwnedBy(q)') = suite'[job'[q].test].nodes_needed
                                   /\ test_nodes_test'[First(OwnedBy(q)')] = job'[q].test
             /\ ~Uncollected(q)' => OwnedBy(q)' = {}
  <2>1. CASE q = p
    <3>1. ~Uncollected(q)'
      BY <1>1, <1>2, <1>3, <2>1 DEF Uncollected, IInv, TypeOK
    <3>2. OwnedBy(q)' = {}
      BY <1>1, <1>2, <2>1, SchedulerAssumption DEF OwnedBy
    <3>3. QED
      BY <3>1, <3>2
  <2>2. CASE q # p
    <3>1. OwnedBy(q)' = OwnedBy(q)
      BY <1>1, <1>2, <2>2, SchedulerAssumption DEF OwnedBy
    <3>2. Uncollected(q)' = Uncollected(q)
      BY <1>1, <2>2 DEF Uncollected, IInv, TypeOK
    <3>3. /\ Uncollected(q) => /\ OwnedBy(q) = job[q].nodes
                               /\ job[q].test \in Test
                               /\ Cardinality(OwnedBy(q)) = suite[job[q].test].nodes_needed
                               /\ test_nodes_test[First(OwnedBy(q))] = job[q].test
          /\ ~Uncollected(q) => OwnedBy(q) = {}
      BY DEF IInv, TableMatchesJobs
    <3>4. suite' = suite /\ test_nodes_test' = test_nodes_test /\ job' = job
      BY <1>1
    <3>5. QED
      BY <3>1, <3>2, <3>3, <3>4
  <2>3. QED
    BY <2>1, <2>2
<1>9. TableMatchesJobs'
  BY <1>8 DEF TableMatchesJobs
<1>10. QED
  BY <1>5, <1>6, <1>7, <1>9 DEF IInv

(* Ends of tests, and foreign processes that come and go, leave the nodes    *)
(* with the processes that own them.                                         *)
LEMMA MachineIInv ==
  ASSUME IInv, NEW p \in Pid,
         TestExits(p) \/ ForeignStarts(p) \/ ForeignExits(p)
  PROVE  IInv'
<1> USE SchedulerAssumption
<1>1. UNCHANGED <<suite, test_nodes_pid, test_nodes_test, test_exec, pc, scan,
                  dead_pid, report, no_pass, no_failed, no_skipped, job>>
  BY DEF TestExits, ForeignStarts, ForeignExits, tables, results
<1>2. Placed' /\ ScriptInRange'
  BY <1>1 DEF IInv, Placed, ScriptInRange
<1>3. CASE TestExits(p)
  <2>1. /\ proc[p] = "test"
        /\ proc' = [proc EXCEPT ![p] = "free"]
        /\ UNCHANGED reuse
    BY <1>3 DEF TestExits
  <2>2. PICK v \in {"ok", "failed"} :
          /\ status' = [status EXCEPT ![p] = v]
          /\ verdict' = [verdict EXCEPT ![job[p].test] = v]
    BY <1>3 DEF TestExits
  <2>3. TypeOK'
    <3>1. proc' \in [Pid -> {"free", "test", "foreign"}]
      BY <2>1 DEF IInv, TypeOK
    <3>2. status' \in [Pid -> Verdict] /\ verdict' \in [Test -> Verdict]
      BY <2>2 DEF IInv, TypeOK, Verdict
    <3>3. QED
      BY <1>1, <2>1, <3>1, <3>2 DEF IInv, TypeOK
  <2>4. StatusAfterEnd'
    BY <2>1, <2>2 DEF IInv, TypeOK, StatusAfterEnd
  <2>5. \A q \in Pid : Uncollected(q)' = Uncollected(q)
    BY <2>1, <2>2 DEF Uncollected, IInv, TypeOK
  <2>6. TableMatchesJobs'
    BY <1>1, <2>5 DEF IInv, TableMatchesJobs, OwnedBy
  <2>7. QED
    BY <1>2, <2>3, <2>4, <2>6 DEF IInv
<1>4. CASE ForeignStarts(p) \/ ForeignExits(p)
  <2>1. /\ UNCHANGED <<status, verdict>>
        /\ reuse' \in 0 .. MaxReuse
        /\ proc[p] # "test"
        /\ \E v \in {"free", "foreign"} : proc' = [proc EXCEPT ![p] = v]
    BY <1>4 DEF ForeignStarts, ForeignExits, IInv, TypeOK
  <2>2. TypeOK'
    BY <1>1, <2>1 DEF IInv, TypeOK
  <2>3. StatusAfterEnd'
    BY <2>1 DEF IInv, TypeOK, StatusAfterEnd
  <2>4. \A q \in Pid : Uncollected(q)' = Uncollected(q)
    BY <2>1 DEF Uncollected, IInv, TypeOK
  <2>5. TableMatchesJobs'
    BY <1>1, <2>1, <2>4 DEF IInv, TableMatchesJobs, OwnedBy
  <2>6. QED
    BY <1>2, <2>2, <2>3, <2>5 DEF IInv
<1>5. QED
  BY <1>3, <1>4

LEMMA StutterIInv == IInv /\ UNCHANGED vars => IInv'
<1> SUFFICES ASSUME IInv, UNCHANGED vars PROVE IInv'
  OBVIOUS
<1>1. UNCHANGED <<suite, test_nodes_pid, test_nodes_test, test_exec, pc, scan,
                  dead_pid, report, no_pass, no_failed, no_skipped, proc, status,
                  job, verdict, reuse>>
  BY DEF vars, tables, results, machine
<1>2. TypeOK'
  BY <1>1 DEF IInv, TypeOK
<1>3. Placed' /\ ScriptInRange'
  BY <1>1 DEF IInv, Placed, ScriptInRange
<1>4. TableMatchesJobs' /\ StatusAfterEnd'
  BY <1>1, TableUnchanged DEF IInv
<1>5. QED
  BY <1>2, <1>3, <1>4 DEF IInv

LEMMA NextIInv == IInv /\ [Next]_vars => IInv'
<1> SUFFICES ASSUME IInv, [Next]_vars PROVE IInv'
  OBVIOUS
<1>1. CASE Script
  BY <1>1, ControlIInv, StartIInv, FinishIInv DEF Script
<1>2. ASSUME NEW p \in Pid, TestExits(p) \/ ForeignStarts(p) \/ ForeignExits(p)
      PROVE  IInv'
  BY <1>2, MachineIInv
<1>3. CASE UNCHANGED vars
  BY <1>3, StutterIInv
<1>4. QED
  BY <1>1, <1>2, <1>3 DEF Next

(* The node table, the processes and the names kept for them agree in every  *)
(* state the script can reach.                                               *)
THEOREM Invariant == Spec => []IInv
BY InitIInv, NextIInv, PTL DEF Spec

(* Every variable keeps its type; in particular the report only names tests. *)
THEOREM TypeCorrect == Spec => []TypeOK
<1>1. IInv => TypeOK
  BY DEF IInv
<1>2. QED
  BY <1>1, Invariant, PTL

(* The node table is what the running tests were told.                       *)
THEOREM TableCorrect == Spec => []TableMatchesJobs
<1>1. IInv => TableMatchesJobs
  BY DEF IInv
<1>2. QED
  BY <1>1, Invariant, PTL

(* Tests that run at the same time never share a node: a node they shared    *)
(* would carry the pid of both in the table.                                 *)
THEOREM Exclusion == Spec => []NodesExclusive
<1>1. IInv => NodesExclusive
  <2> SUFFICES ASSUME IInv,
                      NEW p \in Pid, NEW q \in Pid,
                      proc[p] = "test", proc[q] = "test", p # q,
                      NEW i \in job[p].nodes \cap job[q].nodes
               PROVE  FALSE
    BY DEF NodesExclusive
  <2>1. OwnedBy(p) = job[p].nodes /\ OwnedBy(q) = job[q].nodes
    BY DEF IInv, TableMatchesJobs, Uncollected
  <2>2. QED
    BY <2>1 DEF OwnedBy
<1>2. QED
  BY <1>1, Invariant, PTL

------------------------------------------------------------------------------
(* The history of the tests: what the report, the verdicts, the counters and *)
(* the processes not collected yet say of one another.                       *)

(* A file that run-tests.sh starts. *)
Runnable(t) == suite[t].executable /\ Fits(suite[t])

(* A process whose status the script has not collected stands for one test,   *)
(* started, not reported, and with a verdict only when it has ended.          *)
JobRight(p) ==
  /\ job[p].test < test_exec /\ Runnable(job[p].test)
  /\ job[p].test \notin Reported
  /\ verdict[job[p].test] = status[p]

JobsRight ==
  /\ \A p \in Pid : Uncollected(p) => JobRight(p)
  /\ \A p, q \in Pid :
       Uncollected(p) /\ Uncollected(q) /\ job[p].test = job[q].test => p = q

(* A reported test was started; a started one is reported or not collected;   *)
(* one that was not started has no verdict.                                   *)
TestsRight ==
  /\ \A t \in Reported : t < test_exec /\ Runnable(t)
  /\ \A t \in Test : t < test_exec /\ Runnable(t) =>
       t \in Reported \/ \E p \in Pid : Uncollected(p) /\ job[p].test = t
  /\ \A t \in Test : t >= test_exec => verdict[t] = "none"

Skipped == {t \in Test : t < test_exec /\ suite[t].executable /\ ~Fits(suite[t])}

(* The counters are about the report and the skipped files. *)
CountersRight ==
  /\ no_pass + no_failed = Len(report)
  /\ (no_failed = 0) = (\A i \in 1 .. Len(report) : report[i].passed)
  /\ no_skipped = Cardinality(Skipped)
  /\ pc = "done" => FreeNodes = Node

HInv == JobsRight /\ TestsRight /\ ReportsRight /\ CountersRight

LEMMA HistoryInit == Init => HInv
<1> SUFFICES ASSUME Init PROVE HInv
  OBVIOUS
<1>1. report = <<>> /\ Len(report) = 0 /\ Reported = {} /\ \A p \in Pid : ~Uncollected(p)
  BY DEF Init, Reported, Uncollected
<1>2. Skipped = {} /\ Cardinality({}) = 0
  BY FS_EmptySet DEF Init, Skipped, Test
<1>3. JobsRight
  BY <1>1 DEF JobsRight
<1>4. TestsRight
  BY <1>1 DEF Init, TestsRight, Test
<1>5. ReportsRight /\ CountersRight
  <2>1. 1 .. Len(report) = {}
    BY <1>1
  <2>2. ReportsRight
    BY <2>1 DEF ReportsRight
  <2>3. no_failed = 0 /\ \A i \in 1 .. Len(report) : report[i].passed
    BY <2>1 DEF Init
  <2>4. no_pass + no_failed = Len(report) /\ no_skipped = Cardinality(Skipped) /\ pc # "done"
    BY <1>1, <1>2 DEF Init
  <2>5. QED
    BY <2>2, <2>3, <2>4 DEF CountersRight
<1>6. QED
  BY <1>3, <1>4, <1>5 DEF HInv

(* What the invariant of the table says of the processes not collected yet:   *)
(* each has a node and a test, and nobody else has nodes.                     *)
LEMMA Owners ==
  ASSUME IInv
  PROVE  /\ \A p \in Pid : Uncollected(p) =>
              job[p].test \in Test /\ OwnedBy(p) # {} /\ OwnedBy(p) = job[p].nodes
         /\ \A i \in Node : test_nodes_pid[i] # NoPid =>
              test_nodes_pid[i] \in Pid /\ Uncollected(test_nodes_pid[i])
<1>1. ASSUME NEW p \in Pid, Uncollected(p) PROVE OwnedBy(p) # {}
  <2>1. /\ job[p].test \in Test
        /\ Cardinality(OwnedBy(p)) = suite[job[p].test].nodes_needed
    BY <1>1 DEF IInv, TableMatchesJobs
  <2>2. suite[job[p].test].nodes_needed # 0
    BY SchedulerAssumption, <2>1 DEF IInv, TypeOK, TestKind
  <2> QED
    BY <2>1, <2>2, FS_EmptySet
<1>2. ASSUME NEW i \in Node, test_nodes_pid[i] # NoPid
      PROVE  test_nodes_pid[i] \in Pid /\ Uncollected(test_nodes_pid[i])
  <2>1. test_nodes_pid[i] \in Pid /\ i \in OwnedBy(test_nodes_pid[i])
    BY <1>2 DEF IInv, TypeOK, OwnedBy
  <2> QED
    BY <2>1 DEF IInv, TableMatchesJobs
<1> QED
  BY <1>1, <1>2 DEF IInv, TableMatchesJobs

(* What has been reported are tests.                                         *)
LEMMA ReportedAreTests ==
  ASSUME ReportsRight
  PROVE  Reported \subseteq Test
BY DEF ReportsRight, Reported

(* The steps of the script that only move it. *)
LEMMA HistoryControl ==
  ASSUME IInv, HInv,
         PlaceTest \/ NoFreeNodes \/ ProbeAlive \/ ProbeDead \/ EndOfSuite
         \/ WaitForRest \/ Summary \/ UNCHANGED vars
  PROVE  HInv'
<1>1. /\ UNCHANGED <<suite, test_exec, test_nodes_pid, report, no_pass, no_failed, no_skipped,
                    proc, status, job, verdict>>
      /\ pc' = "done" => pc = "done" \/ FreeNodes = Node
  BY DEF PlaceTest, NoFreeNodes, ProbeAlive, ProbeDead, EndOfSuite, WaitForRest, Summary,
         vars, tables, results, machine
<1>2. /\ Reported' = Reported /\ Skipped' = Skipped /\ FreeNodes' = FreeNodes
      /\ \A p \in Pid : Uncollected(p)' = Uncollected(p)
  BY <1>1 DEF Reported, Skipped, Uncollected, FreeNodes
<1>3. JobsRight'
  BY <1>1, <1>2, Owners DEF HInv, JobsRight, JobRight, Runnable
<1>4. TestsRight'
  BY <1>1, <1>2, ReportedAreTests DEF HInv, TestsRight, Runnable
<1>5. ReportsRight'
  BY <1>1 DEF HInv, ReportsRight
<1>6. CountersRight'
  BY <1>1, <1>2 DEF HInv, CountersRight
<1>7. QED
  BY <1>3, <1>4, <1>5, <1>6 DEF HInv

(* A file that is ignored or skipped is not a test that was started.         *)
LEMMA HistoryPass ==
  ASSUME IInv, HInv, IgnoreFile \/ SkipTest
  PROVE  HInv'
<1>1. /\ UNCHANGED <<suite, test_nodes_pid, report, no_pass, no_failed, proc, status, job,
                     verdict, pc>>
      /\ pc = "loop" /\ test_exec \in Test /\ ~Runnable(test_exec)
      /\ test_exec' = test_exec + 1
  BY DEF IgnoreFile, SkipTest, Runnable, tables, results, machine
<1>2. /\ Reported' = Reported
      /\ \A p \in Pid : Uncollected(p)' = Uncollected(p)
  BY <1>1 DEF Reported, Uncollected
<1>3. JobsRight'
  BY <1>1, <1>2, Owners DEF HInv, JobsRight, JobRight, Runnable, Test
<1>4. TestsRight'
  BY <1>1, <1>2, ReportedAreTests DEF HInv, TestsRight, Runnable, Test
<1>5. ReportsRight'
  BY <1>1 DEF HInv, ReportsRight
<1>6. no_skipped' = Cardinality(Skipped')
  <2>1. CASE IgnoreFile
    <3>1. Skipped' = Skipped
      BY <1>1, <2>1 DEF IgnoreFile, Skipped, Test
    <3>2. no_skipped' = no_skipped
      BY <2>1 DEF IgnoreFile, results
    <3>3. QED
      BY <3>1, <3>2 DEF HInv, CountersRight
  <2>2. CASE SkipTest
    <3>1. Skipped' = Skipped \cup {test_exec} /\ test_exec \notin Skipped
      BY <1>1, <2>2 DEF SkipTest, Skipped, Test
    <3>2. IsFiniteSet(Skipped)
      <4>1. IsFiniteSet(Test)
        BY SchedulerAssumption, FS_Interval DEF Test
      <4>2. Skipped \subseteq Test
        BY DEF Skipped
      <4>3. QED
        BY <4>1, <4>2, FS_Subset
    <3>3. no_skipped' = no_skipped + 1
      BY <2>2 DEF SkipTest
    <3>4. Cardinality(Skipped') = Cardinality(Skipped) + 1
      BY <3>1, <3>2, FS_AddElement
    <3>5. QED
      BY <3>3, <3>4 DEF HInv, CountersRight
  <2>3. QED
    BY <2>1, <2>2
<1>7. CountersRight'
  BY <1>1, <1>6 DEF HInv, CountersRight
<1>8. QED
  BY <1>3, <1>4, <1>5, <1>7 DEF HInv

(* A test is started once, as a process that stands for no other test.       *)
LEMMA HistoryStart ==
  ASSUME IInv, HInv, StartTest
  PROVE  HInv'
<1> DEFINE S == find_free_nodes(suite[test_exec].nodes_needed)
<1>1. /\ UNCHANGED <<suite, report, no_pass, no_failed, no_skipped, status, verdict>>
      /\ pc = "place" /\ pc' = "loop" /\ test_exec' = test_exec + 1
  BY DEF StartTest, results
<1>2. PICK p \in Pid : start_test(p, S)
  BY DEF StartTest
<1>3. /\ proc[p] = "free" /\ status[p] = "none"
      /\ proc' = [proc EXCEPT ![p] = "test"]
      /\ job' = [job EXCEPT ![p] = [test |-> test_exec, nodes |-> S]]
  BY <1>2 DEF start_test, Fork
<1>4. test_exec \in Test /\ Runnable(test_exec)
  BY <1>1 DEF IInv, ScriptInRange, Placed, Runnable
<1>5. /\ job'[p].test = test_exec
      /\ \A q \in Pid : q # p => job'[q] = job[q]
  BY <1>3 DEF IInv, TypeOK
<1>6. \A q \in Pid : Uncollected(q)' = (q = p \/ Uncollected(q))
  BY <1>1, <1>3 DEF IInv, TypeOK, Uncollected
<1>7. Reported' = Reported /\ test_exec \notin Reported
  BY <1>1, <1>4 DEF Reported, HInv, TestsRight, Test
<1>8. verdict[test_exec] = "none"
  BY <1>4 DEF HInv, TestsRight, Test
<1>9. \A t \in Test : Runnable(t)' = Runnable(t)
  BY <1>1 DEF Runnable
<1>10. JobsRight'
  <2>1. ASSUME NEW q \in Pid, Uncollected(q)'
        PROVE  JobRight(q)'
    <3>1. CASE q = p
      BY <1>1, <1>3, <1>4, <1>5, <1>7, <1>8, <1>9, <3>1 DEF Test, Runnable, JobRight
    <3>2. CASE q # p
      <4>1. Uncollected(q) /\ job'[q].test = job[q].test
        BY <1>5, <1>6, <2>1, <3>2
      <4>2. job[q].test \in Test
        BY <4>1, Owners
      <4>3. QED
        BY <1>1, <1>4, <1>7, <4>1, <4>2 DEF HInv, JobsRight, JobRight, Runnable, Test
    <3>3. QED
      BY <3>1, <3>2
  <2>2. ASSUME NEW q \in Pid, Uncollected(q), q # p
        PROVE  job[q].test # test_exec
    BY <1>4, <2>2, Owners DEF HInv, JobsRight, JobRight, Test
  <2>3. ASSUME NEW q \in Pid, NEW r \in Pid,
               Uncollected(q)', Uncollected(r)', job'[q].test = job'[r].test
        PROVE  q = r
    BY <1>5, <1>6, <2>2, <2>3 DEF HInv, JobsRight, JobRight
  <2>4. QED
    BY <2>1, <2>3 DEF JobsRight
<1>11. TestsRight'
  <2>1. \A t \in Reported' : t < test_exec' /\ Runnable(t)'
    BY <1>1, <1>4, <1>7, <1>9, ReportedAreTests DEF HInv, TestsRight, Test
  <2>2. ASSUME NEW t \in Test, t < test_exec', Runnable(t)'
        PROVE  t \in Reported' \/ \E q \in Pid : Uncollected(q)' /\ job'[q].test = t
    <3>1. CASE t = test_exec
      BY <1>5, <1>6, <3>1
    <3>2. CASE t # test_exec
      <4>1. t < test_exec /\ Runnable(t)
        BY <1>1, <1>4, <1>9, <2>2, <3>2 DEF Test
      <4>2. CASE t \in Reported
        BY <1>7, <4>2
      <4>3. ASSUME NEW q \in Pid, Uncollected(q), job[q].test = t
            PROVE  \E r \in Pid : Uncollected(r)' /\ job'[r].test = t
        <5>1. q # p
          BY <1>3, <4>3 DEF Uncollected
        <5>2. QED
          BY <1>5, <1>6, <4>3, <5>1
      <4>4. QED
        BY <4>1, <4>2, <4>3 DEF HInv, TestsRight
    <3>3. QED
      BY <3>1, <3>2
  <2>3. \A t \in Test : t >= test_exec' => verdict'[t] = "none"
    BY <1>1, <1>4 DEF HInv, TestsRight, Test
  <2>4. QED
    BY <2>1, <2>2, <2>3 DEF TestsRight
<1>12. ReportsRight'
  BY <1>1 DEF HInv, ReportsRight
<1>13. CountersRight'
  <2>1. Skipped' = Skipped
    BY <1>1, <1>4 DEF Skipped, Runnable, Test
  <2>2. QED
    BY <1>1, <2>1 DEF HInv, CountersRight
<1>14. QED
  BY <1>10, <1>11, <1>12, <1>13 DEF HInv

(* What finish_test reports: the test of the process that was found dead,    *)
(* with the status of that process.                                          *)
LEMMA FinishReports ==
  ASSUME IInv, HInv, FinishTest
  PROVE  LET p == dead_pid
             t == job[p].test
         IN  /\ p \in Pid /\ Uncollected(p) /\ t \in Test
             /\ status[p] \in {"ok", "failed"} /\ verdict[t] = status[p]
             /\ report' = Append(report, [test |-> t, passed |-> status[p] = "ok"])
             /\ Len(report') = Len(report) + 1
             /\ report'[Len(report) + 1] = [test |-> t, passed |-> status[p] = "ok"]
             /\ \A i \in 1 .. Len(report) : report'[i] = report[i]
             /\ Reported' = Reported \cup {t}
             /\ t \notin Reported
             /\ \A q \in Pid : Uncollected(q)' = (Uncollected(q) /\ q # p)
<1> DEFINE p == dead_pid
           t == job[p].test
<1>1. /\ pc = "finish" /\ status[p] # "none"
      /\ status' = [status EXCEPT ![p] = "none"]
      /\ report' = Append(report, [test |-> test_nodes_test[First(OwnedBy(p))],
                                   passed |-> status[p] = "ok"])
      /\ UNCHANGED proc
  BY DEF FinishTest, finish_test
<1>2. p \in Pid /\ Uncollected(p) /\ proc[p] # "test"
  BY <1>1 DEF IInv, ScriptInRange, Uncollected, StatusAfterEnd
<1>3. t \in Test /\ test_nodes_test[First(OwnedBy(p))] = t
  BY <1>2 DEF IInv, TableMatchesJobs
<1>4. t \notin Reported /\ verdict[t] = status[p] /\ status[p] \in {"ok", "failed"}
  BY <1>1, <1>2 DEF HInv, JobsRight, JobRight, IInv, TypeOK, Verdict
<1>5. \A q \in Pid : Uncollected(q)' = (Uncollected(q) /\ q # p)
  BY <1>1, <1>2 DEF Uncollected, IInv, TypeOK
<1>6. /\ report' = Append(report, [test |-> t, passed |-> status[p] = "ok"])
      /\ Len(report') = Len(report) + 1
      /\ report'[Len(report) + 1] = [test |-> t, passed |-> status[p] = "ok"]
      /\ \A i \in 1 .. Len(report) : report'[i] = report[i]
  BY <1>1, <1>3 DEF IInv, TypeOK
<1>7. 1 .. Len(report') = (1 .. Len(report)) \cup {Len(report) + 1}
  BY <1>6 DEF IInv, TypeOK
<1>8. Reported' = Reported \cup {t}
  <2>1. Reported' = {report'[i].test : i \in 1 .. Len(report')}
    BY DEF Reported
  <2>2. {report'[i].test : i \in 1 .. Len(report')}
          = {report'[i].test : i \in 1 .. Len(report)} \cup {report'[Len(report) + 1].test}
    BY <1>7
  <2>3. {report'[i].test : i \in 1 .. Len(report)} = Reported
    BY <1>6 DEF Reported
  <2>4. QED
    BY <1>6, <2>1, <2>2, <2>3
<1>9. QED
  BY <1>2, <1>3, <1>4, <1>5, <1>6, <1>8

(* Collecting a process moves its test to the report.                        *)
LEMMA HistoryFinish ==
  ASSUME IInv, HInv, FinishTest
  PROVE  HInv'
<1> DEFINE p == dead_pid
           t == job[p].test
           last == Len(report) + 1
<1>1. /\ p \in Pid /\ Uncollected(p) /\ t \in Test
      /\ status[p] \in {"ok", "failed"} /\ verdict[t] = status[p]
      /\ Len(report') = last
      /\ report'[last] = [test |-> t, passed |-> status[p] = "ok"]
      /\ \A i \in 1 .. Len(report) : report'[i] = report[i]
      /\ Reported' = Reported \cup {t}
      /\ t \notin Reported
      /\ \A q \in Pid : Uncollected(q)' = (Uncollected(q) /\ q # p)
  BY FinishReports
<1>2. /\ UNCHANGED <<suite, test_exec, no_skipped, job, verdict>>
      /\ status' = [status EXCEPT ![p] = "none"]
      /\ pc' # "done" /\ pc' \in {"place", "drain"}
      /\ no_pass' = IF status[p] = "ok" THEN no_pass + 1 ELSE no_pass
      /\ no_failed' = IF status[p] = "ok" THEN no_failed ELSE no_failed + 1
  BY DEF FinishTest, finish_test
<1>3. Len(report) \in Nat
  BY DEF IInv, TypeOK
<1>4. JobsRight'
  <2>1. ASSUME NEW q \in Pid, Uncollected(q)'
        PROVE  JobRight(q)'
    <3>1. Uncollected(q) /\ q # p
      BY <1>1, <2>1
    <3>2. job[q].test # t
      BY <1>1, <3>1 DEF HInv, JobsRight, JobRight
    <3>3. status'[q] = status[q]
      BY <1>2, <3>1 DEF IInv, TypeOK
    <3>4. QED
      BY <1>1, <1>2, <3>1, <3>2, <3>3 DEF HInv, JobsRight, JobRight, Runnable
  <2>2. QED
    BY <1>1, <1>2, <2>1 DEF HInv, JobsRight, JobRight
<1>5. TestsRight'
  <2>1. t < test_exec /\ Runnable(t)
    BY <1>1 DEF HInv, JobsRight, JobRight
  <2>2. \A u \in Reported' : u < test_exec' /\ Runnable(u)'
    BY <1>1, <1>2, <2>1 DEF HInv, TestsRight, Runnable
  <2>3. ASSUME NEW u \in Test, u < test_exec', Runnable(u)'
        PROVE  u \in Reported' \/ \E q \in Pid : Uncollected(q)' /\ job'[q].test = u
    <3>1. u \in Reported \/ \E q \in Pid : Uncollected(q) /\ job[q].test = u
      BY <1>2, <2>3 DEF HInv, TestsRight, Runnable
    <3>2. QED
      BY <1>1, <1>2, <3>1
  <2>4. \A u \in Test : u >= test_exec' => verdict'[u] = "none"
    BY <1>2 DEF HInv, TestsRight
  <2>5. QED
    BY <2>2, <2>3, <2>4 DEF TestsRight
<1>6. ReportsRight'
  <2>1. ASSUME NEW i \in 1 .. last
        PROVE  /\ report'[i].test \in Test
               /\ verdict[report'[i].test] = IF report'[i].passed THEN "ok" ELSE "failed"
    <3>1. CASE i = last
      <4>1. CASE status[p] = "ok"
        <5>1. report'[i] = [test |-> t, passed |-> TRUE]
          BY <1>1, <3>1, <4>1
        <5>2. QED
          BY <1>1, <4>1, <5>1
      <4>2. CASE status[p] = "failed"
        <5>1. report'[i] = [test |-> t, passed |-> FALSE]
          BY <1>1, <3>1, <4>2
        <5>2. QED
          BY <1>1, <4>2, <5>1
      <4>3. QED
        BY <1>1, <4>1, <4>2
    <3>2. CASE i \in 1 .. Len(report)
      BY <1>1, <3>2 DEF HInv, ReportsRight
    <3>3. QED
      BY <1>3, <3>1, <3>2
  <2>2. \A i \in 1 .. Len(report) : report[i].test # t
    BY <1>1 DEF Reported
  <2>3. ASSUME NEW i \in 1 .. last, NEW j \in 1 .. last, report'[i].test = report'[j].test
        PROVE  i = j
    <3>1. CASE i \in 1 .. Len(report) /\ j \in 1 .. Len(report)
      BY <1>1, <2>3, <3>1 DEF HInv, ReportsRight
    <3>2. CASE i = last /\ j \in 1 .. Len(report)
      BY <1>1, <2>2, <2>3, <3>2
    <3>3. CASE j = last /\ i \in 1 .. Len(report)
      BY <1>1, <2>2, <2>3, <3>3
    <3>4. QED
      BY <1>3, <3>1, <3>2, <3>3
  <2>4. QED
    BY <1>1, <1>2, <2>1, <2>3 DEF ReportsRight
<1>7. CountersRight'
  <2>1. Skipped' = Skipped
    BY <1>2 DEF Skipped
  <2>2. no_pass' + no_failed' = Len(report')
    BY <1>1, <1>2, <1>3 DEF HInv, CountersRight, IInv, TypeOK
  <2>3. (\A i \in 1 .. last : report'[i].passed)
           = ((\A i \in 1 .. Len(report) : report[i].passed) /\ status[p] = "ok")
    <3>1. 1 .. last = (1 .. Len(report)) \cup {last}
      BY <1>3
    <3>2. report'[last].passed = (status[p] = "ok")
      BY <1>1
    <3>3. QED
      BY <1>1, <3>1, <3>2
  <2>4. (no_failed' = 0) = (\A i \in 1 .. Len(report') : report'[i].passed)
    <3>1. (no_failed = 0) = (\A i \in 1 .. Len(report) : report[i].passed)
      BY DEF HInv, CountersRight
    <3>2. (no_failed' = 0) = (no_failed = 0 /\ status[p] = "ok")
      BY <1>2 DEF IInv, TypeOK
    <3>3. QED
      BY <1>1, <2>3, <3>1, <3>2
  <2>5. QED
    BY <1>2, <2>1, <2>2, <2>4 DEF HInv, CountersRight
<1>8. QED
  BY <1>4, <1>5, <1>6, <1>7 DEF HInv

(* The end of a test is known under its own name only.                       *)
LEMMA HistoryExit ==
  ASSUME IInv, HInv, NEW p \in Pid, TestExits(p)
  PROVE  HInv'
<1> DEFINE t == job[p].test
<1>1. /\ UNCHANGED <<suite, test_nodes_pid, test_exec, pc, report, no_pass, no_failed,
                     no_skipped, job>>
      /\ proc[p] = "test"
      /\ proc' = [proc EXCEPT ![p] = "free"]
  BY DEF TestExits, tables, results
<1>2. PICK v \in {"ok", "failed"} :
        /\ status' = [status EXCEPT ![p] = v]
        /\ verdict' = [verdict EXCEPT ![t] = v]
  BY DEF TestExits
<1>3. \A q \in Pid : Uncollected(q)' = Uncollected(q)
  BY <1>1, <1>2 DEF Uncollected, IInv, TypeOK
<1>4. Uncollected(p) /\ t \in Test /\ t \notin Reported /\ t < test_exec
  BY <1>1, Owners DEF Uncollected, HInv, JobsRight, JobRight
<1>5. verdict'[t] = v /\ status'[p] = v /\ \A u \in Test : u # t => verdict'[u] = verdict[u]
  BY <1>2, <1>4 DEF IInv, TypeOK
<1>6. Reported' = Reported /\ Skipped' = Skipped /\ FreeNodes' = FreeNodes
  BY <1>1 DEF Reported, Skipped, FreeNodes
<1>7. JobsRight'
  <2>1. ASSUME NEW q \in Pid, Uncollected(q)
        PROVE  verdict'[job[q].test] = status'[q]
    <3>1. CASE q = p
      BY <1>5, <3>1
    <3>2. CASE q # p
      <4>1. job[q].test # t /\ job[q].test \in Test
        BY <1>4, <2>1, <3>2, Owners DEF HInv, JobsRight, JobRight
      <4>2. status'[q] = status[q]
        BY <1>2, <3>2 DEF IInv, TypeOK
      <4>3. QED
        BY <1>5, <2>1, <4>1, <4>2 DEF HInv, JobsRight, JobRight
    <3>3. QED
      BY <3>1, <3>2
  <2>2. QED
    BY <1>1, <1>3, <1>6, <2>1 DEF HInv, JobsRight, JobRight, Runnable
<1>8. TestsRight'
  <2>1. \A u \in Test : u >= test_exec => verdict'[u] = "none"
    <3>1. ASSUME NEW u \in Test, u >= test_exec PROVE u # t
      BY <1>4, <3>1 DEF IInv, TypeOK, Test
    <3>2. QED
      BY <1>5, <3>1 DEF HInv, TestsRight
  <2>2. QED
    BY <1>1, <1>3, <1>6, <2>1 DEF HInv, TestsRight, Runnable
<1>9. ReportsRight'
  <2>1. \A i \in 1 .. Len(report) : report[i].test # t
    BY <1>4 DEF Reported
  <2>2. QED
    BY <1>1, <1>5, <2>1 DEF HInv, ReportsRight
<1>10. CountersRight'
  BY <1>1, <1>6 DEF HInv, CountersRight
<1>11. QED
  BY <1>7, <1>8, <1>9, <1>10 DEF HInv

(* Foreign processes are nobody's test.                                      *)
LEMMA HistoryForeign ==
  ASSUME IInv, HInv, NEW p \in Pid, ForeignStarts(p) \/ ForeignExits(p)
  PROVE  HInv'
<1>1. /\ UNCHANGED <<suite, test_nodes_pid, test_exec, pc, report, no_pass, no_failed,
                     no_skipped, job, status, verdict>>
      /\ \E v \in {"free", "foreign"} : proc' = [proc EXCEPT ![p] = v]
      /\ proc[p] # "test"
  BY DEF ForeignStarts, ForeignExits, tables, results
<1>2. \A q \in Pid : Uncollected(q)' = Uncollected(q)
  BY <1>1 DEF Uncollected, IInv, TypeOK
<1>3. Reported' = Reported /\ Skipped' = Skipped /\ FreeNodes' = FreeNodes
  BY <1>1 DEF Reported, Skipped, FreeNodes
<1>4. JobsRight'
  BY <1>1, <1>2, <1>3 DEF HInv, JobsRight, JobRight, Runnable
<1>5. TestsRight'
  BY <1>1, <1>2, <1>3 DEF HInv, TestsRight, Runnable
<1>6. ReportsRight' /\ CountersRight'
  BY <1>1, <1>3 DEF HInv, ReportsRight, CountersRight
<1>7. QED
  BY <1>4, <1>5, <1>6 DEF HInv

LEMMA HistoryNext == IInv /\ HInv /\ [Next]_vars => HInv'
<1> SUFFICES ASSUME IInv, HInv, [Next]_vars PROVE HInv'
  OBVIOUS
<1>1. CASE Script
  BY <1>1, HistoryControl, HistoryPass, HistoryStart, HistoryFinish DEF Script
<1>2. ASSUME NEW p \in Pid, TestExits(p) \/ ForeignStarts(p) \/ ForeignExits(p)
      PROVE  HInv'
  BY <1>2, HistoryExit, HistoryForeign
<1>3. CASE UNCHANGED vars
  BY <1>3, HistoryControl
<1>4. QED
  BY <1>1, <1>2, <1>3 DEF Next

(* The history of the tests agrees with the report in every state. *)
THEOREM History == Spec => []HInv
BY Invariant, HistoryInit, HistoryNext, PTL DEF Spec

(* The lines of the report name each test at most once, with the verdict its *)
(* own process ended with.                                                   *)
THEOREM ReportsCorrect == Spec => []ReportsRight
<1>1. HInv => ReportsRight
  BY DEF HInv
<1>2. QED
  BY <1>1, History, PTL

(* Every report line is about another test, so there are as many lines as    *)
(* tests reported.                                                           *)
LEMMA ReportLength ==
  ASSUME TypeOK, ReportsRight
  PROVE  Cardinality(Reported) = Len(report)
<1> DEFINE I == 1 .. Len(report)
           f == [i \in I |-> report[i].test]
<1>1. Len(report) \in Nat
  BY DEF TypeOK
<1>2. IsFiniteSet(I) /\ Cardinality(I) = Len(report)
  <2>1. IsFiniteSet(I) /\ Cardinality(I) = IF 1 > Len(report) THEN 0 ELSE Len(report) - 1 + 1
    BY <1>1, FS_Interval
  <2>2. QED
    BY <1>1, <2>1
<1>3. f \in Surjection(I, Reported)
  <2>1. f \in [I -> Reported]
    BY DEF Reported
  <2>2. \A t \in Reported : \E i \in I : f[i] = t
    BY DEF Reported
  <2>3. QED
    BY <2>1, <2>2 DEF Surjection
<1>4. f \in Injection(I, Reported)
  BY <1>3 DEF Injection, IsInjective, Surjection, ReportsRight
<1>5. QED
  BY <1>2, <1>3, <1>4, FS_Surjection

(* The summary is printed when no node is busy: then every process has been  *)
(* collected, so every test that was started has been reported.              *)
LEMMA SummaryFollows == IInv /\ HInv => SummaryRight
<1> DEFINE executable == {t \in Test : suite[t].executable}
           run == {t \in executable : Fits(suite[t])}
<1> SUFFICES ASSUME IInv, HInv, pc = "done"
             PROVE  /\ {report[i].test : i \in 1 .. Len(report)} = run
                    /\ no_pass + no_failed = Cardinality(run)
                    /\ no_skipped = Cardinality(executable \ run)
                    /\ (no_failed = 0) = (\A t \in run : verdict[t] = "ok")
  BY DEF SummaryRight
<1>1. \A t \in Test : t < test_exec
  <2>1. test_exec \in 1 .. NoTests + 1 /\ test_exec \notin 1 .. NoTests
    BY DEF IInv, TypeOK, ScriptInRange, Test
  <2>2. QED
    BY SchedulerAssumption, <2>1 DEF Test
<1>2. \A p \in Pid : ~Uncollected(p)
  <2> SUFFICES ASSUME NEW p \in Pid, Uncollected(p) PROVE FALSE
    OBVIOUS
  <2>1. PICK i \in Node : test_nodes_pid[i] = p
    BY Owners DEF OwnedBy
  <2>2. test_nodes_pid[i] = NoPid
    BY DEF HInv, CountersRight, FreeNodes
  <2>3. QED
    BY SchedulerAssumption, <2>1, <2>2
<1>3. Reported = run
  <2>1. Reported \subseteq run
    BY ReportedAreTests DEF HInv, TestsRight, Runnable
  <2>2. run \subseteq Reported
    BY <1>1, <1>2 DEF HInv, TestsRight, Runnable
  <2>3. QED
    BY <2>1, <2>2
<1>4. Cardinality(run) = Len(report)
  BY <1>3, ReportLength DEF IInv, HInv
<1>5. Skipped = executable \ run
  BY <1>1 DEF Skipped
<1>6. (\A i \in 1 .. Len(report) : report[i].passed) <=> (\A t \in run : verdict[t] = "ok")
  <2>1. \A i \in 1 .. Len(report) : report[i].passed <=> verdict[report[i].test] = "ok"
    BY DEF HInv, ReportsRight
  <2>2. run = {report[i].test : i \in 1 .. Len(report)}
    BY <1>3 DEF Reported
  <2>3. QED
    BY <2>1, <2>2
<1>7. (no_failed = 0) <=> \A i \in 1 .. Len(report) : report[i].passed
  BY DEF HInv, CountersRight
<1>8. no_pass + no_failed = Cardinality(run) /\ no_skipped = Cardinality(executable \ run)
  BY <1>4, <1>5 DEF HInv, CountersRight
<1>9. {report[i].test : i \in 1 .. Len(report)} = run
  BY <1>3 DEF Reported
<1>10. QED
  BY <1>6, <1>7, <1>8, <1>9

(* What the script prints at its end, and its exit status, account for every *)
(* file of the suite.                                                        *)
THEOREM SummaryCorrect == Spec => []SummaryRight
BY Invariant, History, SummaryFollows, PTL

------------------------------------------------------------------------------
(* The script implements the runner.                                         *)

LEMMA RunnerCardinality ==
  /\ \A S : Runner!Cardinality(S) = Cardinality(S)
  /\ Runner!Node = Node /\ Runner!Test = Test
BY DEF Runner!Cardinality, Cardinality, Runner!IsFiniteSet, IsFiniteSet, Runner!Node, Node,
       Runner!Test, Test

(* Where a test stands is decided by the place of the loop, the report and   *)
(* its verdict.                                                              *)
PhaseIs(t) ==
  /\ RunnerPhase(t) = "waiting" <=> t >= test_exec
  /\ t < test_exec /\ ~suite[t].executable => RunnerPhase(t) = "ignored"
  /\ t < test_exec /\ suite[t].executable /\ ~Fits(suite[t])
       => RunnerPhase(t) = "skipped"
  /\ t < test_exec /\ Runnable(t) =>
       RunnerPhase(t) = IF t \in Reported THEN "reported"
                        ELSE IF verdict[t] = "none" THEN "running" ELSE "ended"

LEMMA Phases == IInv => \A t \in Test : PhaseIs(t)
<1> SUFFICES ASSUME IInv, NEW t \in Test PROVE PhaseIs(t)
  OBVIOUS
<1>1. t \in Int /\ test_exec \in Int
  BY SchedulerAssumption DEF IInv, TypeOK, Test
<1>2. t >= test_exec <=> ~(t < test_exec)
  BY <1>1
<1>3. CASE t >= test_exec
  BY <1>2, <1>3 DEF RunnerPhase, PhaseIs
<1>4. CASE t < test_exec /\ ~suite[t].executable
  BY <1>2, <1>4 DEF RunnerPhase, Runnable, PhaseIs
<1>5. CASE t < test_exec /\ suite[t].executable /\ ~Fits(suite[t])
  BY <1>2, <1>5 DEF RunnerPhase, Runnable, PhaseIs
<1>6. CASE t < test_exec /\ Runnable(t)
  BY <1>2, <1>6 DEF RunnerPhase, Runnable, PhaseIs
<1>7. QED
  BY <1>2, <1>3, <1>4, <1>5, <1>6 DEF Runnable

LEMMA NextPhases == IInv' => (\A t \in Test : PhaseIs(t))'
BY Phases, PTL

(* The nodes a test holds are those of its process, until it is collected.   *)
LEMMA Holders ==
  ASSUME IInv, HInv
  PROVE  /\ \A p \in Pid : Uncollected(p) => HeldBy(job[p].test) = OwnedBy(p)
         /\ \A t \in Test : (\A p \in Pid : Uncollected(p) => job[p].test # t)
                             => HeldBy(t) = {}
<1>1. ASSUME NEW p \in Pid, Uncollected(p)
      PROVE  HeldBy(job[p].test) = OwnedBy(p)
  <2>1. ASSUME NEW i \in HeldBy(job[p].test) PROVE i \in OwnedBy(p)
    <3>1. /\ i \in Node /\ test_nodes_pid[i] \in Pid /\ Uncollected(test_nodes_pid[i])
          /\ job[test_nodes_pid[i]].test = job[p].test
      BY Owners DEF HeldBy
    <3>2. QED
      BY <1>1, <3>1 DEF HInv, JobsRight, OwnedBy
  <2>2. OwnedBy(p) \subseteq HeldBy(job[p].test)
    BY SchedulerAssumption DEF OwnedBy, HeldBy
  <2>3. QED
    BY <2>1, <2>2
<1>2. ASSUME NEW t \in Test, \A p \in Pid : Uncollected(p) => job[p].test # t
      PROVE  HeldBy(t) = {}
  BY <1>2, Owners DEF HeldBy
<1>3. QED
  BY <1>1, <1>2

(* What a test was and what it holds, in the words of the runner.            *)
PhaseOf == [t \in Test |-> RunnerPhase(t)]
NodesOf == [t \in Test |-> HeldBy(t)]

LEMMA RunnerInit == Init => Runner!Init
<1> SUFFICES ASSUME Init PROVE Runner!Init
  OBVIOUS
<1>1. IInv
  BY InitIInv
<1>2. PhaseOf = [t \in Test |-> "waiting"]
  BY <1>1, Phases DEF PhaseIs, PhaseOf, Init, Test
<1>3. NodesOf = [t \in Test |-> {}]
  BY DEF NodesOf, HeldBy, Init
<1>4. suite \in [Test -> Kinds] /\ verdict = [t \in Test |-> "none"]
  BY DEF Init
<1>5. QED
  BY <1>2, <1>3, <1>4, RunnerCardinality DEF Runner!Init, PhaseOf, NodesOf

(* A step that the runner does not see. *)
LEMMA RunnerStutters ==
  ASSUME IInv, UNCHANGED <<suite, test_exec, report, verdict, test_nodes_pid, job>>
  PROVE  UNCHANGED Runner!vars
<1>1. \A t \in Test : RunnerPhase(t)' = RunnerPhase(t)
  BY DEF RunnerPhase, Reported
<1>2. \A t \in Test : HeldBy(t)' = HeldBy(t)
  BY DEF HeldBy
<1>3. QED
  BY <1>1, <1>2 DEF Runner!vars

(* The loop goes on to the next file: no other test changes.                 *)
LEMMA LoopMovesOn ==
  ASSUME IInv, NEW f \in Test, f = test_exec, test_exec' = f + 1,
         UNCHANGED <<suite, report, verdict>>
  PROVE  /\ Runner!Next_in_order(f)
         /\ PhaseOf' = [PhaseOf EXCEPT ![f] = RunnerPhase(f)']
<1>1. Reported' = Reported
  BY DEF Reported
<1>2. ASSUME NEW t \in Test, t # f PROVE RunnerPhase(t)' = RunnerPhase(t)
  <2>1. (t >= test_exec' <=> t >= test_exec) /\ (t < test_exec' <=> t < test_exec)
    BY <1>2, SchedulerAssumption DEF Test
  <2>2. QED
    BY <1>1, <2>1 DEF RunnerPhase
<1>3. \A t \in Test : RunnerPhase(t) = "waiting" <=> t >= test_exec
  BY Phases DEF PhaseIs
<1>4. Runner!Next_in_order(f)
  BY <1>3, RunnerCardinality DEF Runner!Next_in_order, Test
<1>5. QED
  <2>1. \A t \in Test : PhaseOf[t] = RunnerPhase(t)
    BY DEF PhaseOf
  <2>2. PhaseOf' = [t \in Test |-> RunnerPhase(t)']
    BY DEF PhaseOf
  <2>3. PhaseOf = [t \in Test |-> RunnerPhase(t)]
    BY DEF PhaseOf
  <2>4. QED
    BY <1>2, <1>4, <2>2, <2>3

LEMMA RunnerPass ==
  ASSUME IInv, IInv', IgnoreFile \/ SkipTest
  PROVE  Runner!Next
<1>0. test_exec \in Test
  BY DEF IgnoreFile, SkipTest
<1> PICK f \in Test : f = test_exec
  BY <1>0
<1>1. /\ f = test_exec /\ test_exec' = f + 1
      /\ UNCHANGED <<suite, report, verdict, test_nodes_pid, job>>
  BY DEF IgnoreFile, SkipTest, tables, results, machine
<1>2. NodesOf' = NodesOf
  BY <1>1 DEF NodesOf, HeldBy
<1>3. /\ Runner!Next_in_order(f)
      /\ PhaseOf' = [PhaseOf EXCEPT ![f] = RunnerPhase(f)']
  BY <1>1, LoopMovesOn
<1>4. f < test_exec'
  BY <1>1, SchedulerAssumption DEF Test
<1>5. CASE IgnoreFile
  <2>1. RunnerPhase(f)' = "ignored"
    BY <1>1, <1>4, <1>5, NextPhases DEF PhaseIs, IgnoreFile
  <2>2. Runner!Ignore(f)
    BY <1>1, <1>2, <1>3, <1>5, <2>1 DEF Runner!Ignore, IgnoreFile, PhaseOf, NodesOf
  <2>3. QED
    BY <1>1, <2>2, RunnerCardinality DEF Runner!Next
<1>6. CASE SkipTest
  <2>1. suite[f].executable /\ ~Fits(suite[f])
    BY <1>1, <1>6 DEF SkipTest
  <2>2. RunnerPhase(f)' = "skipped"
    BY <1>1, <1>4, <2>1, NextPhases DEF PhaseIs, Fits
  <2>3. Runner!Skip(f)
    BY <1>1, <1>2, <1>3, <2>1, <2>2
       DEF Runner!Skip, Runner!Runnable, Fits, PhaseOf, NodesOf
  <2>4. QED
    BY <1>1, <2>3, RunnerCardinality DEF Runner!Next
<1>7. QED
  BY <1>5, <1>6

LEMMA RunnerStart ==
  ASSUME IInv, HInv, IInv', StartTest
  PROVE  Runner!Next
<1> DEFINE n == suite[test_exec].nodes_needed
           S == find_free_nodes(n)
<1>1. /\ pc = "place" /\ test_exec' = test_exec + 1
      /\ UNCHANGED <<suite, report, verdict>>
      /\ n <= Cardinality(FreeNodes)
  BY NodeFinite DEF StartTest, results, FreeNodes
<1>2. test_exec \in Test /\ Runnable(test_exec) /\ n \in Nat \ {0}
  BY <1>1, SchedulerAssumption DEF IInv, ScriptInRange, Placed, Runnable, TypeOK, TestKind
<1>3. PICK p \in Pid : start_test(p, S)
  BY DEF StartTest
<1>4. /\ ~Uncollected(p)
      /\ job' = [job EXCEPT ![p] = [test |-> test_exec, nodes |-> S]]
      /\ test_nodes_pid' = [i \in Node |-> IF i \in S THEN p ELSE test_nodes_pid[i]]
  BY <1>3 DEF start_test, Fork, Uncollected
<1>5. S \subseteq FreeNodes /\ Cardinality(S) = n
  BY <1>1, <1>2, FindFreeNodes
<1>6. job'[p].test = test_exec /\ \A q \in Pid : q # p => job'[q] = job[q]
  BY <1>4 DEF IInv, TypeOK
<1>7. \A i \in Node \ S : test_nodes_pid[i] # NoPid =>
        /\ test_nodes_pid[i] \in Pid /\ test_nodes_pid[i] # p
        /\ job[test_nodes_pid[i]].test # test_exec
  <2>1. ASSUME NEW q \in Pid, Uncollected(q) PROVE job[q].test # test_exec
    BY <1>2, <2>1, Owners DEF HInv, JobsRight, JobRight, Test
  <2>2. QED
    BY <1>4, <2>1, Owners
<1>8. \A i \in Node : /\ i \in S => test_nodes_pid'[i] = p /\ test_nodes_pid[i] = NoPid
                      /\ i \notin S => test_nodes_pid'[i] = test_nodes_pid[i]
  BY <1>4, <1>5 DEF FreeNodes
<1>9. ASSUME NEW t \in Test
      PROVE  HeldBy(t)' = IF t = test_exec THEN S ELSE HeldBy(t)
  <2>1. HeldBy(t)' = {i \in Node : test_nodes_pid'[i] # NoPid
                                   /\ job'[test_nodes_pid'[i]].test = t}
    BY DEF HeldBy
  <2>2. CASE t = test_exec
    <3>1. S \subseteq Node /\ p # NoPid
      BY <1>5, SchedulerAssumption DEF FreeNodes
    <3>2. QED
      BY <1>6, <1>7, <1>8, <2>1, <2>2, <3>1
  <2>3. CASE t # test_exec
    <3>1. HeldBy(t)' = HeldBy(t)
      BY <1>6, <1>7, <1>8, <2>1, <2>3 DEF HeldBy
    <3>2. QED
      BY <2>3, <3>1
  <2>4. QED
    BY <2>2, <2>3
<1>10. NodesOf' = [NodesOf EXCEPT ![test_exec] = S]
  BY <1>2, <1>9 DEF NodesOf
<1>11. S \in SUBSET (Node \ UNION {NodesOf[u] : u \in Test})
  <2>1. \A u \in Test : NodesOf[u] \cap FreeNodes = {}
    BY DEF NodesOf, HeldBy, FreeNodes
  <2>2. S \subseteq Node
    BY <1>5 DEF FreeNodes
  <2>3. QED
    BY <1>5, <2>1, <2>2
<1>12. PICK f \in Test : f = test_exec
  BY <1>2
<1>13. /\ PhaseOf' = [PhaseOf EXCEPT ![test_exec] = "running"]
       /\ Runner!Next_in_order(test_exec)
  <2>1. f < test_exec'
    BY <1>1, <1>12, SchedulerAssumption DEF Test
  <2>2. f \notin Reported' /\ verdict'[f] = "none" /\ Runnable(f)
    BY <1>1, <1>2, <1>12, SchedulerAssumption DEF HInv, TestsRight, Reported, Test
  <2>3. RunnerPhase(f)' = "running"
    BY <1>1, <1>12, <2>1, <2>2, NextPhases DEF PhaseIs, Runnable
  <2>4. QED
    BY <1>1, <1>12, <2>3, LoopMovesOn
<1>14. Runner!Start(test_exec)
  <2>1. Runner!Runnable(suite[test_exec])
    BY <1>2 DEF Runnable, Fits, Runner!Runnable
  <2>2. QED
    BY <1>1, <1>5, <1>10, <1>11, <1>13, <2>1, RunnerCardinality
       DEF Runner!Start, PhaseOf, NodesOf
<1>15. QED
  BY <1>2, <1>14, RunnerCardinality DEF Runner!Next

LEMMA RunnerEnd ==
  ASSUME IInv, HInv, IInv', NEW p \in Pid, TestExits(p)
  PROVE  Runner!Next
<1>0. Uncollected(p) /\ job[p].test \in Test
  BY Owners DEF TestExits, Uncollected
<1> PICK t \in Test : t = job[p].test
  BY <1>0
<1>1. /\ UNCHANGED <<suite, test_nodes_pid, test_exec, report, job>>
      /\ proc[p] = "test"
  BY DEF TestExits, tables, results
<1>2. PICK v \in {"ok", "failed"} : verdict' = [verdict EXCEPT ![t] = v]
  BY DEF TestExits
<1>3. Uncollected(p) /\ t \in Test /\ t \notin Reported /\ t < test_exec /\ Runnable(t)
  BY <1>0 DEF HInv, JobsRight, JobRight
<1>4. verdict[t] = "none"
  BY <1>1, <1>3 DEF IInv, StatusAfterEnd, HInv, JobsRight, JobRight
<1>5. verdict'[t] = v /\ \A u \in Test : u # t => verdict'[u] = verdict[u]
  BY <1>2, <1>3 DEF IInv, TypeOK
<1>6. Reported' = Reported
  BY <1>1 DEF Reported
<1>7. RunnerPhase(t) = "running"
  BY <1>3, <1>4, Phases DEF PhaseIs
<1>8. RunnerPhase(t)' = "ended"
  BY <1>1, <1>3, <1>5, <1>6, NextPhases DEF PhaseIs, Runnable
<1>9. \A u \in Test : u # t => RunnerPhase(u)' = RunnerPhase(u)
  BY <1>1, <1>5, <1>6 DEF RunnerPhase
<1>10. PhaseOf' = [PhaseOf EXCEPT ![t] = "ended"]
  BY <1>3, <1>8, <1>9 DEF PhaseOf
<1>11. NodesOf' = NodesOf
  BY <1>1 DEF NodesOf, HeldBy
<1>12. Runner!End(t)
  BY <1>1, <1>2, <1>3, <1>7, <1>10, <1>11 DEF Runner!End, PhaseOf, NodesOf
<1>13. QED
  BY <1>3, <1>12, RunnerCardinality DEF Runner!Next

LEMMA RunnerReport ==
  ASSUME IInv, HInv, IInv', FinishTest
  PROVE  Runner!Next
<1> PICK p \in Pid : p = dead_pid
  BY FinishReports
<1> PICK t \in Test : t = job[p].test
  BY FinishReports
<1>1. /\ UNCHANGED <<suite, test_exec, job, verdict>>
      /\ test_nodes_pid' = [i \in Node |-> IF i \in OwnedBy(p) THEN NoPid
                                           ELSE test_nodes_pid[i]]
  BY DEF FinishTest, finish_test
<1>2. /\ p \in Pid /\ Uncollected(p) /\ t \in Test
      /\ verdict[t] # "none"
      /\ Reported' = Reported \cup {t}
      /\ t \notin Reported
  BY FinishReports
<1>3. t < test_exec /\ Runnable(t)
  BY <1>2 DEF HInv, JobsRight, JobRight
<1>4. RunnerPhase(t) = "ended"
  BY <1>2, <1>3, Phases DEF PhaseIs
<1>5. RunnerPhase(t)' = "reported"
  BY <1>1, <1>2, <1>3, NextPhases DEF PhaseIs, Runnable
<1>6. \A u \in Test : u # t => RunnerPhase(u)' = RunnerPhase(u)
  BY <1>1, <1>2 DEF RunnerPhase
<1>7. PhaseOf' = [PhaseOf EXCEPT ![t] = "reported"]
  BY <1>2, <1>5, <1>6 DEF PhaseOf
<1>8. HeldBy(t) = OwnedBy(p)
  BY <1>2, Holders
<1>9. ASSUME NEW u \in Test
      PROVE  HeldBy(u)' = IF u = t THEN {} ELSE HeldBy(u)
  <2>1. HeldBy(u)' = {i \in Node : test_nodes_pid'[i] # NoPid
                                   /\ job[test_nodes_pid'[i]].test = u}
    BY <1>1 DEF HeldBy
  <2>2. \A i \in Node : /\ i \in HeldBy(t) => test_nodes_pid'[i] = NoPid
                        /\ i \notin HeldBy(t) => test_nodes_pid'[i] = test_nodes_pid[i]
    BY <1>1, <1>8
  <2>3. HeldBy(u)' = HeldBy(u) \ HeldBy(t)
    BY <2>1, <2>2 DEF HeldBy
  <2>4. u # t => HeldBy(u) \cap HeldBy(t) = {}
    BY DEF HeldBy
  <2>5. QED
    BY <2>3, <2>4
<1>10. NodesOf' = [NodesOf EXCEPT ![t] = {}]
  BY <1>2, <1>9 DEF NodesOf
<1>11. Runner!Report(t)
  BY <1>1, <1>2, <1>4, <1>7, <1>10 DEF Runner!Report, PhaseOf, NodesOf
<1>12. QED
  BY <1>2, <1>11, RunnerCardinality DEF Runner!Next

LEMMA RunnerStep ==
  IInv /\ HInv /\ IInv' /\ [Next]_vars => [Runner!Next]_(Runner!vars)
<1> SUFFICES ASSUME IInv, HInv, IInv', [Next]_vars
             PROVE  Runner!Next \/ UNCHANGED Runner!vars
  OBVIOUS
<1>1. CASE IgnoreFile \/ SkipTest
  BY <1>1, RunnerPass
<1>2. CASE StartTest
  BY <1>2, RunnerStart
<1>3. CASE FinishTest
  BY <1>3, RunnerReport
<1>4. CASE PlaceTest \/ NoFreeNodes \/ ProbeAlive \/ ProbeDead \/ EndOfSuite
           \/ WaitForRest \/ Summary \/ UNCHANGED vars
  <2>1. UNCHANGED <<suite, test_exec, report, verdict, test_nodes_pid, job>>
    BY <1>4 DEF PlaceTest, NoFreeNodes, ProbeAlive, ProbeDead, EndOfSuite, WaitForRest,
                Summary, vars, tables, results, machine
  <2>2. QED
    BY <2>1, RunnerStutters
<1>5. ASSUME NEW p \in Pid, TestExits(p)
      PROVE  Runner!Next
  BY <1>5, RunnerEnd
<1>6. ASSUME NEW p \in Pid, ForeignStarts(p) \/ ForeignExits(p)
      PROVE  UNCHANGED Runner!vars
  <2>1. UNCHANGED <<suite, test_exec, report, verdict, test_nodes_pid, job>>
    BY <1>6 DEF ForeignStarts, ForeignExits, tables, results
  <2>2. QED
    BY <2>1, RunnerStutters
<1>7. QED
  BY <1>1, <1>2, <1>3, <1>4, <1>5, <1>6 DEF Next, Script

(* The script implements the runner: every step of the script and of the     *)
(* machine around it is a step of TestRunner, or one that it does not see.   *)
THEOREM Implements == Spec => RunnerSpec
BY Invariant, History, RunnerInit, RunnerStep, PTL DEF Spec, RunnerSpec, Runner!Spec
=============================================================================
