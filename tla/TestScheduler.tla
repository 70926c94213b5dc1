---------------------------- MODULE TestScheduler ----------------------------
(***************************************************************************)
(* run-tests.sh: the scheduler that spreads the tests of the suite over    *)
(* the nodes it was given.                                                 *)
(*                                                                         *)
(* The script is one sequential process (pc says where it is).  Around it  *)
(* run the tests it forked, which end whenever they like, and the rest of  *)
(* the machine, which may take over a process id that has become free.     *)
(* The script sees the tests only through "kill -0 pid" and "wait pid".    *)
(***************************************************************************)
EXTENDS Integers, FiniteSets, Sequences

CONSTANTS NoNodes,     (* no_nodes: words in the -n option                  *)
          NoTests,     (* files matching tests/*.sh                         *)
          Kinds,       (* what those files can be, a subset of TestKind     *)
          Pid,         (* process ids the kernel hands out                  *)
          NoPid,       (* the "0" of test_nodes_pid: nobody runs here       *)
          MaxReuse     (* bound: how often a foreign process takes a pid    *)

TestKind == [executable : BOOLEAN, nodes_needed : Nat \ {0}, enabled : BOOLEAN]

ASSUME SchedulerAssumption ==
  /\ NoNodes \in Nat \ {0}
  /\ NoTests \in Nat
  /\ Kinds \subseteq TestKind
  /\ NoPid \notin Pid
  /\ MaxReuse \in Nat

Node == 0 .. NoNodes - 1
Test == 1 .. NoTests
Verdict == {"none", "ok", "failed"}
Job == [test : 0 .. NoTests, nodes : SUBSET Node]

VARIABLES
  (* the script *)
  suite,            (* the files of the tests directory, fixed             *)
  test_nodes_pid,   (* per node: the process that owns it, or NoPid        *)
  test_nodes_test,  (* per node: the test whose name and output file       *)
                    (* test_nodes_test_name and test_nodes_test_out hold   *)
  test_exec,        (* the file the main loop is at                        *)
  pc,               (* where the script is                                 *)
  scan,             (* the node wait_for_any probes next                   *)
  dead_pid,         (* what wait_for_any echoed                            *)
  report,           (* the "pass"/"FAILED" lines, oldest first             *)
  no_pass, no_failed, no_skipped,
  (* the machine *)
  proc,             (* per pid: "free", "test" or "foreign"                *)
  status,           (* exit statuses bash keeps for "wait"                 *)
  job,              (* per pid: arguments of the last test forked as pid   *)
  verdict,          (* history: how the process of each test ended         *)
  reuse             (* how many foreign processes took a pid, <= MaxReuse  *)

tables  == <<test_nodes_pid, test_nodes_test>>
results == <<report, no_pass, no_failed, no_skipped>>
machine == <<proc, status, job, verdict, reuse>>
vars == <<suite, tables, test_exec, pc, scan, dead_pid, results, machine>>

Init ==
  /\ suite \in [Test -> Kinds]
  /\ test_nodes_pid = [i \in Node |-> NoPid]
  /\ test_nodes_test = [i \in Node |-> 0]
  /\ test_exec = 1
  /\ pc = "loop"
  /\ scan = 0
  /\ dead_pid = NoPid
  /\ report = <<>>
  /\ no_pass = 0 /\ no_failed = 0 /\ no_skipped = 0
  /\ proc = [p \in Pid |-> "free"]
  /\ status = [p \in Pid |-> "none"]
  /\ job = [p \in Pid |-> [test |-> 0, nodes |-> {}]]
  /\ verdict = [t \in Test |-> "none"]
  /\ reuse = 0

------------------------------------------------------------------------------
(* The script.  An operator whose name starts with Bad is not part of it: it *)
(* is the definition that follows it with one plausible mistake, kept to     *)
(* show that a property below would notice (README, "Mutants").              *)

FreeNodes == {i \in Node : test_nodes_pid[i] = NoPid}

(* The n lowest members of FreeNodes: what one ascending pass picks. *)
find_free_nodes(n) ==
  {i \in FreeNodes : Cardinality({j \in FreeNodes : j <= i}) <= n}

(* The first node an ascending loop over a set of nodes meets. *)
First(S) == CHOOSE i \in S : \A j \in S : i <= j

Fits(k) == k.nodes_needed <= NoNodes /\ k.enabled

(* A file that is not executable is passed over without a word. *)
IgnoreFile ==
  /\ pc = "loop" /\ test_exec \in Test
  /\ ~suite[test_exec].executable
  /\ test_exec' = test_exec + 1
  /\ UNCHANGED <<suite, tables, pc, scan, dead_pid, results, machine>>

BadSkipTest ==
  /\ pc = "loop" /\ test_exec \in Test
  /\ suite[test_exec].executable /\ ~Fits(suite[test_exec])
  /\ test_exec' = test_exec + 1
  /\ UNCHANGED <<suite, tables, pc, scan, dead_pid, results, machine>>

SkipTest ==
  /\ pc = "loop" /\ test_exec \in Test
  /\ suite[test_exec].executable /\ ~Fits(suite[test_exec])
  /\ no_skipped' = no_skipped + 1
  /\ test_exec' = test_exec + 1
  /\ UNCHANGED <<suite, tables, pc, scan, dead_pid, report, no_pass, no_failed,
                 machine>>

PlaceTest ==
  /\ pc = "loop" /\ test_exec \in Test
  /\ suite[test_exec].executable /\ Fits(suite[test_exec])
  /\ pc' = "place"
  /\ UNCHANGED <<suite, tables, test_exec, scan, dead_pid, results, machine>>

BadNoFreeNodes ==
  /\ pc = "place"
  /\ Cardinality(FreeNodes) <= suite[test_exec].nodes_needed
  /\ pc' = "scan"
  /\ scan' = 0
  /\ UNCHANGED <<suite, tables, test_exec, dead_pid, results, machine>>

(* Too few free nodes: find_free_nodes prints nothing, wait_for_any runs. *)
NoFreeNodes ==
  /\ pc = "place"
  /\ Cardinality(FreeNodes) < suite[test_exec].nodes_needed
  /\ pc' = "scan"
  /\ scan' = 0
  /\ UNCHANGED <<suite, tables, test_exec, dead_pid, results, machine>>

(* Fork a process.  Its pid is one the kernel has free; that it is also     *)
(* none whose status bash still keeps is an assumption on the kernel, which *)
(* goes through all the pids before it returns to one.                      *)
Fork(p) ==
  /\ proc[p] = "free" /\ status[p] = "none"
  /\ proc' = [proc EXCEPT ![p] = "test"]

Bad_start_test(p, S) ==
  /\ Fork(p)
  /\ job' = [job EXCEPT ![p] = [test |-> test_exec, nodes |-> S]]
  /\ test_nodes_pid' = [test_nodes_pid EXCEPT ![First(S)] = p]
  /\ test_nodes_test' = [test_nodes_test EXCEPT ![First(S)] = test_exec]

Bad_start_test_name(p, S) ==
  /\ Fork(p)
  /\ job' = [job EXCEPT ![p] = [test |-> test_exec, nodes |-> S]]
  /\ test_nodes_pid' = [i \in Node |-> IF i \in S THEN p ELSE test_nodes_pid[i]]
  /\ \E i \in S : test_nodes_test' = [test_nodes_test EXCEPT ![i] = test_exec]

start_test(p, S) ==
  /\ Fork(p)
  /\ job' = [job EXCEPT ![p] = [test |-> test_exec, nodes |-> S]]
  /\ test_nodes_pid' = [i \in Node |-> IF i \in S THEN p ELSE test_nodes_pid[i]]
  /\ test_nodes_test' = [test_nodes_test EXCEPT ![First(S)] = test_exec]

StartTest ==
  /\ pc = "place"
  /\ Cardinality(FreeNodes) >= suite[test_exec].nodes_needed
  /\ \E p \in Pid : start_test(p, find_free_nodes(suite[test_exec].nodes_needed))
  /\ test_exec' = test_exec + 1
  /\ pc' = "loop"
  /\ UNCHANGED <<suite, scan, dead_pid, results, status, verdict, reuse>>

(* What "kill -0" finds alive; on the pid "0" it always succeeds. *)
Alive == {NoPid} \cup {p \in Pid : proc[p] # "free"}

BadProbeAlive ==
  /\ pc = "scan"
  /\ test_nodes_pid[scan] \in Alive
  /\ scan' = scan + 1
  /\ UNCHANGED <<suite, tables, test_exec, pc, dead_pid, results, machine>>

(* wait_for_any works on a copy of test_nodes_pid, which cannot change while *)
(* it runs, and probes one entry at a time.                                  *)
ProbeAlive ==
  /\ pc = "scan"
  /\ test_nodes_pid[scan] \in Alive
  /\ scan' = (scan + 1) % NoNodes
  /\ UNCHANGED <<suite, tables, test_exec, pc, dead_pid, results, machine>>

ProbeDead ==
  /\ pc = "scan"
  /\ test_nodes_pid[scan] \notin Alive
  /\ dead_pid' = test_nodes_pid[scan]
  /\ pc' = "finish"
  /\ UNCHANGED <<suite, tables, test_exec, scan, results, machine>>

OwnedBy(p) == {i \in Node : test_nodes_pid[i] = p}

Bad_finish_test(p) ==
  LET passed == status[p] = "ok"
      last == CHOOSE i \in OwnedBy(p) : \A j \in OwnedBy(p) : j <= i
  IN  /\ status[p] # "none"
      /\ status' = [status EXCEPT ![p] = "none"]
      /\ test_nodes_pid' = [i \in Node |-> IF i \in OwnedBy(p)
                                           THEN NoPid ELSE test_nodes_pid[i]]
      /\ report' = Append(report, [test |-> test_nodes_test[last], passed |-> passed])
      /\ no_pass' = IF passed THEN no_pass + 1 ELSE no_pass
      /\ no_failed' = IF passed THEN no_failed ELSE no_failed + 1

Bad_finish_test_frees_first(p) ==
  LET passed == status[p] = "ok"
  IN  /\ status[p] # "none"
      /\ status' = [status EXCEPT ![p] = "none"]
      /\ test_nodes_pid' = [test_nodes_pid EXCEPT ![First(OwnedBy(p))] = NoPid]
      /\ report' = Append(report, [test |-> test_nodes_test[First(OwnedBy(p))],
                                   passed |-> passed])
      /\ no_pass' = IF passed THEN no_pass + 1 ELSE no_pass
      /\ no_failed' = IF passed THEN no_failed ELSE no_failed + 1

(* "wait" blocks until there is a status, returns it and forgets it; every   *)
(* node of the process is freed, and the name and the output reported are    *)
(* those of the first.                                                       *)
finish_test(p) ==
  LET passed == status[p] = "ok"
  IN  /\ status[p] # "none"
      /\ status' = [status EXCEPT ![p] = "none"]
      /\ test_nodes_pid' = [i \in Node |-> IF i \in OwnedBy(p)
                                           THEN NoPid ELSE test_nodes_pid[i]]
      /\ report' = Append(report, [test |-> test_nodes_test[First(OwnedBy(p))],
                                   passed |-> passed])
      /\ no_pass' = IF passed THEN no_pass + 1 ELSE no_pass
      /\ no_failed' = IF passed THEN no_failed ELSE no_failed + 1

FinishTest ==
  /\ pc = "finish"
  /\ finish_test(dead_pid)
  /\ pc' = IF test_exec \in Test THEN "place" ELSE "drain"
  /\ UNCHANGED <<suite, test_nodes_test, test_exec, scan, dead_pid, no_skipped,
                 proc, job, verdict, reuse>>

EndOfSuite ==
  /\ pc = "loop" /\ test_exec \notin Test
  /\ pc' = "drain"
  /\ UNCHANGED <<suite, tables, test_exec, scan, dead_pid, results, machine>>

(* wait_for_all_tests: as long as a node is busy, wait for some test. *)
WaitForRest ==
  /\ pc = "drain"
  /\ FreeNodes # Node
  /\ pc' = "scan"
  /\ scan' = 0
  /\ UNCHANGED <<suite, tables, test_exec, dead_pid, results, machine>>

Summary ==
  /\ pc = "drain"
  /\ FreeNodes = Node
  /\ pc' = "done"
  /\ UNCHANGED <<suite, tables, test_exec, scan, dead_pid, results, machine>>

Script ==
  \/ IgnoreFile \/ SkipTest \/ PlaceTest \/ NoFreeNodes \/ StartTest
  \/ ProbeAlive \/ ProbeDead \/ FinishTest
  \/ EndOfSuite \/ WaitForRest \/ Summary

------------------------------------------------------------------------------
(* The machine. *)

(* A test ends; bash reaps it at once and keeps its status, so that from    *)
(* this moment the pid is free for the kernel to give away.                 *)
TestExits(p) ==
  /\ proc[p] = "test"
  /\ proc' = [proc EXCEPT ![p] = "free"]
  /\ \E v \in {"ok", "failed"} :
       /\ status' = [status EXCEPT ![p] = v]
       /\ verdict' = [verdict EXCEPT ![job[p].test] = v]
  /\ UNCHANGED <<suite, tables, test_exec, pc, scan, dead_pid, results, job, reuse>>

ForeignStarts(p) ==
  /\ proc[p] = "free" /\ reuse < MaxReuse
  /\ proc' = [proc EXCEPT ![p] = "foreign"]
  /\ reuse' = reuse + 1
  /\ UNCHANGED <<suite, tables, test_exec, pc, scan, dead_pid, results, status,
                 job, verdict>>

ForeignExits(p) ==
  /\ proc[p] = "foreign"
  /\ proc' = [proc EXCEPT ![p] = "free"]
  /\ UNCHANGED <<suite, tables, test_exec, pc, scan, dead_pid, results, status,
                 job, verdict, reuse>>

Next == Script \/ \E p \in Pid : TestExits(p) \/ ForeignStarts(p) \/ ForeignExits(p)

(* The script never stops by itself, every test ends at last, and so does   *)
(* every other process that happens to take a pid.                          *)
Fairness ==
  /\ WF_vars(Script)
  /\ \A p \in Pid : WF_vars(TestExits(p)) /\ WF_vars(ForeignExits(p))

Spec == Init /\ [][Next]_vars
FairSpec == Spec /\ Fairness

------------------------------------------------------------------------------
TypeOK ==
  /\ suite \in [Test -> Kinds]
  /\ test_nodes_pid \in [Node -> Pid \cup {NoPid}]
  /\ test_nodes_test \in [Node -> 0 .. NoTests]
  /\ test_exec \in 1 .. NoTests + 1
  /\ pc \in {"loop", "place", "scan", "finish", "drain", "done"}
  /\ scan \in Node
  /\ dead_pid \in Pid \cup {NoPid}
  /\ report \in Seq([test : 0 .. NoTests, passed : BOOLEAN])
  /\ no_pass \in Nat /\ no_failed \in Nat /\ no_skipped \in Nat
  /\ proc \in [Pid -> {"free", "test", "foreign"}]
  /\ status \in [Pid -> Verdict]
  /\ job \in [Pid -> Job]
  /\ verdict \in [Test -> Verdict]
  /\ reuse \in 0 .. MaxReuse

(* Two tests that run at the same time were given disjoint sets of nodes     *)
(* (start_test marks every node it gives away, finish_test frees only those  *)
(* of a process that has ended).                                             *)
NodesExclusive ==
  \A p, q \in Pid :
    /\ proc[p] = "test" /\ proc[q] = "test" /\ p # q
    => job[p].nodes \cap job[q].nodes = {}

(* A pid the script still has to collect. *)
Uncollected(p) == proc[p] = "test" \/ status[p] # "none"

(* The node table is exactly what the tests were told: a node is marked with *)
(* p iff the test behind p is not collected yet and was given that node, it  *)
(* got as many nodes as it asked for, and the name kept at its first node is *)
(* the name of that very test.                                               *)
TableMatchesJobs ==
  \A p \in Pid :
    /\ Uncollected(p) => /\ OwnedBy(p) = job[p].nodes
                         /\ job[p].test \in Test
                         /\ Cardinality(OwnedBy(p)) = suite[job[p].test].nodes_needed
                         /\ test_nodes_test[First(OwnedBy(p))] = job[p].test
    /\ ~Uncollected(p) => OwnedBy(p) = {}

(* No verdict is credited to another test, and no test is reported twice,    *)
(* however the ends of tests interleave with the script.                     *)
ReportsRight ==
  /\ \A i \in 1 .. Len(report) :
       /\ report[i].test \in Test
       /\ verdict[report[i].test] = IF report[i].passed THEN "ok" ELSE "failed"
  /\ \A i, j \in 1 .. Len(report) : report[i].test = report[j].test => i = j

(* When the script ends, every test it could run has been run and reported,  *)
(* the counters add up, and the exit status ("no_failed == 0") says whether  *)
(* all of them passed.                                                       *)
SummaryRight ==
  pc = "done" =>
    LET executable == {t \in Test : suite[t].executable}
        run == {t \in executable : Fits(suite[t])}
    IN  /\ {report[i].test : i \in 1 .. Len(report)} = run
        /\ no_pass + no_failed = Cardinality(run)
        /\ no_skipped = Cardinality(executable \ run)
        /\ (no_failed = 0) = (\A t \in run : verdict[t] = "ok")

(* Every suite comes to its summary: every test that ends is found dead and *)
(* collected, and no scan waits for nothing (with SummaryRight, every test   *)
(* that could be run is reported).                                           *)
SuiteEnds == <>(pc = "done")

------------------------------------------------------------------------------
(* The promise of TestRunner, read off the state of the script. *)

Reported == {report[i].test : i \in 1 .. Len(report)}

RunnerPhase(t) ==
  CASE t >= test_exec            -> "waiting"
    [] t < test_exec /\ ~suite[t].executable -> "ignored"
    [] t < test_exec /\ suite[t].executable /\ ~Fits(suite[t]) -> "skipped"
    [] OTHER -> IF t \in Reported THEN "reported"
                ELSE IF verdict[t] = "none" THEN "running" ELSE "ended"

HeldBy(t) ==
  {i \in Node : test_nodes_pid[i] # NoPid /\ job[test_nodes_pid[i]].test = t}

Runner == INSTANCE TestRunner WITH
            phase <- [t \in Test |-> RunnerPhase(t)],
            nodesOf <- [t \in Test |-> HeldBy(t)]

(* The script implements the runner. *)
RunnerSpec == Runner!Spec
==============================================================================
