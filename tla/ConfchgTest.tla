------------------------------ MODULE ConfchgTest ------------------------------
(***************************************************************************)
(* tests/cpg-confchg.sh with tests/inc/confchg.sh and tests/inc/fw.sh: a   *)
(* test that cuts nodes off with a firewall and back, and after each step  *)
(* waits until the last VIEW line of every node has the number of nodes    *)
(* the script counts itself.  The processes that print those lines are     *)
(* those of MembershipView, one on each node.                              *)
(*                                                                         *)
(* Operators whose name begins with Bad are mutated forms of the operator  *)
(* that follows; no specification uses them.                               *)
(***************************************************************************)
EXTENDS FiniteSets, Integers

CONSTANTS NoNodes,        (* nodes of the test                              *)
          MaxRetries,     (* times a VIEW line is looked at again (40)      *)
          Rounds,         (* nodes cut off or back (100)                    *)
          MaxFaults       (* bound: iptables calls that fail, daemons that  *)
                          (* do not start, cpg-confchg that die             *)

ASSUME TestAssumption ==
  NoNodes \in Nat \ {0} /\ MaxRetries \in Nat /\ Rounds \in Nat /\ MaxFaults \in Nat

Node == 1 .. NoNodes

VARIABLES
  pc,              (* where the script is, see TypeOK                       *)
  at,              (* the node the loop of the script is at                 *)
  node_status,     (* per node: what the script thinks of it                *)
  active_nodes,    (* how many nodes the script thinks are up               *)
  no_retries,      (* of confchg_checkview                                  *)
  round,           (* the round of the main loop                            *)
  rules,           (* per node: the DROP rules in its firewall              *)
  refused,         (* history, per node: the rules the trap's iptables did  *)
                   (* not delete                                            *)
  started,         (* nodes whose corosync runs                             *)
  joined,          (* nodes whose cpg-confchg is in the group               *)
  cpg, totem, view,   (* per node: the state of its cpg-confchg             *)
  faults           (* used up of MaxFaults                                  *)

script == <<pc, at, node_status, active_nodes, no_retries, round>>
firewall == <<rules, refused>>
cluster == <<joined, cpg, totem, view>>
vars == <<script, firewall, started, cluster, faults>>

MV(n) == INSTANCE MembershipView
           WITH cpg <- cpg[n], totem <- totem[n], view <- view[n]

Init ==
  /\ pc = "start" /\ at = 1
  /\ node_status = [n \in Node |-> "down"] /\ active_nodes = 0
  /\ no_retries = 0 /\ round = 0
  /\ rules = [n \in Node |-> {}] /\ refused = [n \in Node |-> {}]
  /\ started = {} /\ joined = {}
  /\ cpg = [n \in Node |-> {}] /\ totem = [n \in Node |-> {}]
  /\ view = [n \in Node |-> MV(n)!NoView]
  /\ faults = 0

Fault == faults < MaxFaults /\ faults' = faults + 1

(* The nodes that n can exchange packets with, itself included. *)
Reach(n) == IF rules[n] # {} THEN {n} ELSE {m \in started : rules[m] = {}} \cup {n}

------------------------------------------------------------------------------
(* The script.  It runs under set -e: what fails leads to the exit trap.     *)
EnterTrap == pc' = "trap" /\ at' = 1

StartNode ==
  /\ pc = "start" /\ at <= NoNodes
  /\ started' = started \cup {at}
  /\ node_status' = [node_status EXCEPT ![at] = "up"]
  /\ active_nodes' = active_nodes + 1
  /\ at' = at + 1
  /\ UNCHANGED <<pc, no_retries, round, firewall, cluster, faults>>

StartFails ==
  /\ pc = "start" /\ at <= NoNodes /\ Fault
  /\ EnterTrap
  /\ UNCHANGED <<node_status, active_nodes, no_retries, round, firewall, started, cluster>>

CheckViews == pc' = "check" /\ at' = 1 /\ no_retries' = 0

AllStarted ==
  /\ pc = "start" /\ at > NoNodes
  /\ CheckViews
  /\ UNCHANGED <<node_status, active_nodes, round, firewall, started, cluster, faults>>

no_nodes(n) == IF node_status[n] = "up" THEN active_nodes ELSE 1

BadMatches(n) == Cardinality(view[n].cpg) = no_nodes(n)

Matches(n) == view[n].nodes = no_nodes(n)

(* confchg_checkview finds the number it waits for. *)
ViewAccepted ==
  /\ pc = "check" /\ at <= NoNodes /\ no_retries < MaxRetries /\ Matches(at)
  /\ at' = at + 1 /\ no_retries' = 0
  /\ UNCHANGED <<pc, node_status, active_nodes, round, firewall, started, cluster, faults>>

BadLookAgainForever ==
  /\ pc = "check" /\ at <= NoNodes /\ ~Matches(at)
  /\ UNCHANGED <<pc, at, node_status, active_nodes, no_retries, round, firewall, started,
                 cluster, faults>>

LookAgain ==
  /\ pc = "check" /\ at <= NoNodes /\ no_retries < MaxRetries /\ ~Matches(at)
  /\ no_retries' = no_retries + 1
  /\ UNCHANGED <<pc, at, node_status, active_nodes, round, firewall, started, cluster, faults>>

(* After the last retry the view is not asked any more. *)
ViewRefused ==
  /\ pc = "check" /\ at <= NoNodes /\ no_retries = MaxRetries
  /\ EnterTrap
  /\ UNCHANGED <<node_status, active_nodes, no_retries, round, firewall, started,
                 cluster, faults>>

ChecksDone ==
  /\ pc = "check" /\ at > NoNodes
  /\ IF round < Rounds THEN pc' = "toggle" /\ UNCHANGED at ELSE EnterTrap
  /\ UNCHANGED <<node_status, active_nodes, no_retries, round, firewall, started,
                 cluster, faults>>

(* change_node_state when fw_block_udp succeeds. *)
BlockNode(n) ==
  /\ pc = "toggle" /\ node_status[n] = "up"
  /\ rules' = [rules EXCEPT ![n] = {"INPUT", "OUTPUT"}]
  /\ node_status' = [node_status EXCEPT ![n] = "down"]
  /\ active_nodes' = active_nodes - 1
  /\ round' = round + 1
  /\ CheckViews
  /\ UNCHANGED <<refused, started, cluster, faults>>

UnblockNode(n) ==
  /\ pc = "toggle" /\ node_status[n] = "down"
  /\ rules' = [rules EXCEPT ![n] = {}]
  /\ node_status' = [node_status EXCEPT ![n] = "up"]
  /\ active_nodes' = active_nodes + 1
  /\ round' = round + 1
  /\ CheckViews
  /\ UNCHANGED <<refused, started, cluster, faults>>

(* One of the two iptables calls fails: the first, and the second is not     *)
(* tried, or the second, and the first has done its work.                    *)
IptablesFails(n) ==
  /\ pc = "toggle" /\ Fault
  /\ \/ UNCHANGED rules
     \/ rules' = [rules EXCEPT ![n] = IF node_status[n] = "up" THEN {"INPUT"} ELSE {"OUTPUT"}]
  /\ EnterTrap
  /\ UNCHANGED <<node_status, active_nodes, no_retries, round, refused, started, cluster>>

(* exit_trap, one node at a time: corosync and cpg-confchg are stopped, then *)
(* the configuration is put back.                                            *)
TrapNode ==
  /\ pc = "trap" /\ at <= NoNodes
  /\ started' = started \ {at} /\ joined' = joined \ {at}
  /\ at' = at + 1
  /\ UNCHANGED <<pc, node_status, active_nodes, no_retries, round, firewall, cpg, totem, view,
                 faults>>

TrapNodesDone ==
  /\ pc = "trap" /\ at > NoNodes
  /\ pc' = "unblock" /\ at' = 1
  /\ UNCHANGED <<node_status, active_nodes, no_retries, round, firewall, started, cluster, faults>>

(* What an iptables -D of the trap does not delete stays, which is a fault.  *)
Keep(kept) ==
  /\ rules' = [rules EXCEPT ![at] = kept]
  /\ faults + Cardinality(refused'[at]) <= MaxFaults
  /\ faults' = faults + Cardinality(refused'[at])

BadTrapUnblock ==
  /\ pc = "unblock" /\ at <= NoNodes
  /\ \E kept \in SUBSET rules[at] :
       LET first == "INPUT" \in rules[at] \ kept IN
       /\ refused' = [refused EXCEPT ![at] = IF first THEN kept ELSE kept \cap {"INPUT"}]
       /\ Keep(IF first THEN kept ELSE rules[at])
  /\ at' = at + 1
  /\ UNCHANGED <<pc, node_status, active_nodes, no_retries, round, started, cluster>>

(* exit_trap_end_cb: on every node both rules are deleted, each whether or   *)
(* not it is there, and whether or not the other one could be: a failure is  *)
(* swallowed (|| true), and the rule stays.                                  *)
TrapUnblock ==
  /\ pc = "unblock" /\ at <= NoNodes
  /\ \E kept \in SUBSET rules[at] :
       refused' = [refused EXCEPT ![at] = kept] /\ Keep(kept)
  /\ at' = at + 1
  /\ UNCHANGED <<pc, node_status, active_nodes, no_retries, round, started, cluster>>

TrapEnds ==
  /\ pc = "unblock" /\ at > NoNodes
  /\ pc' = "over"
  /\ UNCHANGED <<at, node_status, active_nodes, no_retries, round, firewall, started, cluster,
                 faults>>

(* The trap runs under set -e as well: when a node does not answer, the rest *)
(* of the trap is not run.                                                   *)
TrapFails ==
  /\ pc \in {"trap", "unblock"} /\ at <= NoNodes /\ Fault
  /\ pc' = "abandoned"
  /\ UNCHANGED <<at, node_status, active_nodes, no_retries, round, firewall, started, cluster>>

Script ==
  \/ StartNode \/ StartFails \/ AllStarted
  \/ ViewAccepted \/ LookAgain \/ ViewRefused \/ ChecksDone
  \/ \E n \in Node : BlockNode(n) \/ UnblockNode(n) \/ IptablesFails(n)
  \/ TrapNode \/ TrapNodesDone \/ TrapUnblock \/ TrapEnds \/ TrapFails

------------------------------------------------------------------------------
(* corosync, seen through the cpg-confchg of node n.                         *)
Rest == <<script, firewall, started>>

Joins(n) ==
  /\ n \in started \ joined /\ totem[n] = {}
  /\ joined' = joined \cup {n}
  /\ UNCHANGED <<Rest, cpg, totem, view, faults>>

Report(n, c, t) ==
  /\ cpg' = [cpg EXCEPT ![n] = c]
  /\ totem' = [totem EXCEPT ![n] = t]
  /\ view' = [view EXCEPT ![n] = MV(n)!ViewOf(c, t)]
  /\ UNCHANGED <<Rest, joined, faults>>

(* A ring that is not made of the nodes that can be reached is replaced by   *)
(* another, not always at once by the right one.                             *)
RingForms(n) ==
  /\ n \in joined /\ totem[n] # Reach(n)
  /\ \E S \in SUBSET Reach(n) : n \in S /\ Report(n, cpg[n], S)

(* The group follows the ring: first nodes leave it, then others join.       *)
GroupShrinks(n) ==
  /\ n \in joined /\ ~(cpg[n] \subseteq totem[n] \cap joined)
  /\ Report(n, cpg[n] \cap totem[n] \cap joined, totem[n])

GroupGrows(n) ==
  /\ n \in joined /\ cpg[n] \subseteq totem[n] \cap joined
  /\ \E S \in SUBSET ((totem[n] \cap joined) \ cpg[n]) :
       S # {} /\ Report(n, cpg[n] \cup S, totem[n])

(* cpg-confchg ends, for an error of cpg_dispatch; its log stays.            *)
Dies(n) ==
  /\ n \in joined /\ Fault
  /\ joined' = joined \ {n}
  /\ UNCHANGED <<Rest, cpg, totem, view>>

Corosync(n) == Joins(n) \/ RingForms(n) \/ GroupShrinks(n) \/ GroupGrows(n) \/ Dies(n)

Next == Script \/ \E n \in Node : Corosync(n)

Spec == Init /\ [][Next]_vars
FairSpec == Spec /\ WF_vars(Script)

------------------------------------------------------------------------------
TypeOK ==
  /\ pc \in {"start", "check", "toggle", "trap", "unblock", "over", "abandoned"}
  /\ at \in 1 .. NoNodes + 1
  /\ node_status \in [Node -> {"up", "down"}]
  /\ active_nodes \in 0 .. NoNodes
  /\ no_retries \in 0 .. MaxRetries /\ round \in 0 .. Rounds
  /\ rules \in [Node -> SUBSET {"INPUT", "OUTPUT"}]
  /\ refused \in [Node -> SUBSET {"INPUT", "OUTPUT"}]
  /\ joined \subseteq started /\ started \subseteq Node
  /\ cpg \in [Node -> SUBSET Node] /\ totem \in [Node -> SUBSET Node]

(* The script compares numbers of nodes only, with a log that may be old or  *)
(* of a process that is dead; still, a view it accepts shows exactly the     *)
(* nodes that node can reach at that moment.                                 *)
AcceptedIsRight ==
  [][pc = "check" /\ at' = at + 1 =>
       view[at].cpg = Reach(at) /\ view[at].totem = Reach(at)]_vars

(* However the test ends, half way through a change of the firewall, too,    *)
(* when its trap is over a node is cut off only by a rule whose own deletion *)
(* failed in the trap.  That the other rule could not be deleted, or a rule  *)
(* of another node, or that there was only one, leaves none behind.  (A trap *)
(* that meets a node that does not answer is not over but abandoned.  The    *)
(* types are part of the invariant.)                                         *)
NobodyLeftCutOff ==
  /\ TypeOK
  /\ pc = "over" => \A n \in Node : rules[n] \subseteq refused[n]

(* The test comes to its end, whatever corosync does.                        *)
TestEnds == <>(pc \in {"over", "abandoned"})
===============================================================================
