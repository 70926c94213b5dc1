--------------------------- MODULE ConfchgTestProofs ---------------------------
(* The membership test leaves no node cut off and accepts no wrong view, for   *)
(* any number of nodes, of rounds, of retries and of faults.                   *)
EXTENDS ConfchgTest, FiniteSetTheorems, TLAPS

Ups == {n \in Node : node_status[n] = "up"}

(* NobodyLeftCutOff is not inductive: when the trap is over it has been at     *)
(* every node, and left there only what iptables refused to delete.  That      *)
(* active_nodes keeps its type rests on what it counts, and while the nodes    *)
(* are started, on which of them are up.                                       *)
CutInv ==
  /\ TypeOK
  /\ active_nodes = Cardinality(Ups)
  /\ pc = "start" => \A n \in Node : node_status[n] = "up" => n < at
  /\ pc = "toggle" => round < Rounds
  /\ pc = "unblock" => \A n \in Node : n < at => rules[n] \subseteq refused[n]
  /\ pc = "over" => \A n \in Node : rules[n] \subseteq refused[n]

(* There are never more nodes up than nodes. *)
LEMMA UpsAreNodes == IsFiniteSet(Ups) /\ Cardinality(Ups) \in 0 .. NoNodes
<1>1. IsFiniteSet(1 .. NoNodes) /\ Cardinality(1 .. NoNodes) = NoNodes
  BY FS_Interval, TestAssumption
<1>2. Ups \subseteq 1 .. NoNodes
  BY DEF Ups, Node
<1>3. IsFiniteSet(Ups) /\ Cardinality(Ups) <= NoNodes
  BY <1>1, <1>2, FS_Subset
<1> QED
  BY <1>3, FS_CardinalityType, TestAssumption

LEMMA CutInit == Init => CutInv
<1> SUFFICES ASSUME Init PROVE CutInv
  OBVIOUS
<1>1. Ups = {}
  BY DEF Ups, Init
<1>2. Cardinality(Ups) = 0
  BY <1>1, FS_EmptySet
<1> QED
  BY <1>2, TestAssumption DEF Init, CutInv, TypeOK, Node

(* A node goes up or down, and the number with it. *)
LEMMA OneUp ==
  ASSUME CutInv, NEW n \in Node, node_status[n] = "down",
         node_status' = [node_status EXCEPT ![n] = "up"]
  PROVE  /\ Cardinality(Ups') = active_nodes + 1
         /\ active_nodes + 1 \in 0 .. NoNodes
         /\ node_status' \in [Node -> {"up", "down"}]
<1>1. Ups' = Ups \cup {n} /\ n \notin Ups
  BY DEF CutInv, TypeOK, Ups
<1>2. Cardinality(Ups \cup {n}) = Cardinality(Ups) + 1
  BY <1>1, UpsAreNodes, FS_AddElement
<1>3. node_status' \in [Node -> {"up", "down"}]
  BY DEF CutInv, TypeOK
<1>4. IsFiniteSet(1 .. NoNodes) /\ Cardinality(1 .. NoNodes) = NoNodes
  BY FS_Interval, TestAssumption
<1>5. Ups \cup {n} \subseteq 1 .. NoNodes
  BY DEF Ups, Node
<1>6. Cardinality(Ups \cup {n}) <= NoNodes
  BY <1>4, <1>5, FS_Subset
<1> QED
  BY <1>1, <1>2, <1>3, <1>6, UpsAreNodes, TestAssumption DEF CutInv

LEMMA OneDown ==
  ASSUME CutInv, NEW n \in Node, node_status[n] = "up",
         node_status' = [node_status EXCEPT ![n] = "down"]
  PROVE  /\ Cardinality(Ups') = active_nodes - 1
         /\ active_nodes - 1 \in 0 .. NoNodes
         /\ node_status' \in [Node -> {"up", "down"}]
<1>1. Ups' = Ups \ {n} /\ n \in Ups
  BY DEF CutInv, TypeOK, Ups
<1>2. Cardinality(Ups \ {n}) = Cardinality(Ups) - 1 /\ IsFiniteSet(Ups \ {n})
  BY <1>1, UpsAreNodes, FS_RemoveElement
<1>3. node_status' \in [Node -> {"up", "down"}]
  BY DEF CutInv, TypeOK
<1>4. Cardinality(Ups \ {n}) \in Nat
  BY <1>2, FS_CardinalityType
<1> QED
  BY <1>1, <1>2, <1>3, <1>4, UpsAreNodes, TestAssumption DEF CutInv

(* The steps of the script that leave the nodes' status and firewalls alone. *)
LEMMA ScriptControl ==
  ASSUME CutInv,
         StartFails \/ AllStarted \/ ViewAccepted \/ LookAgain \/ ViewRefused
         \/ ChecksDone \/ TrapNodesDone \/ TrapFails
  PROVE  CutInv'
<1>1. UNCHANGED <<node_status, active_nodes, rules, refused, started, joined, cpg, totem>>
  BY DEF StartFails, AllStarted, ViewAccepted, LookAgain, ViewRefused, ChecksDone,
         TrapNodesDone, TrapFails, cluster, firewall
<1>2. Ups' = Ups
  BY <1>1 DEF Ups
<1> USE <1>1, <1>2, TestAssumption DEF CutInv, TypeOK, Node, EnterTrap, CheckViews
<1>3. CASE StartFails
  BY <1>3 DEF StartFails
<1>4. CASE AllStarted
  BY <1>4 DEF AllStarted
<1>5. CASE ViewAccepted
  BY <1>5 DEF ViewAccepted
<1>6. CASE LookAgain
  BY <1>6 DEF LookAgain
<1>7. CASE ViewRefused
  BY <1>7 DEF ViewRefused
<1>8. CASE ChecksDone
  BY <1>8 DEF ChecksDone
<1>9. CASE TrapNodesDone
  BY <1>9 DEF TrapNodesDone
<1>10. CASE TrapFails
  BY <1>10 DEF TrapFails
<1> QED
  BY <1>3, <1>4, <1>5, <1>6, <1>7, <1>8, <1>9, <1>10

(* The steps that change a node. *)
LEMMA ScriptNode ==
  ASSUME CutInv, NEW n \in Node,
         StartNode \/ BlockNode(n) \/ UnblockNode(n) \/ IptablesFails(n)
         \/ TrapNode \/ TrapUnblock \/ TrapEnds
  PROVE  CutInv'
<1> USE TestAssumption DEF CutInv
<1>1. CASE StartNode
  <2>1. at \in Node /\ node_status[at] = "down"
    BY <1>1 DEF StartNode, TypeOK, Node
  <2>2. /\ Cardinality(Ups') = active_nodes + 1
        /\ active_nodes + 1 \in 0 .. NoNodes
        /\ node_status' \in [Node -> {"up", "down"}]
    BY <1>1, <2>1, OneUp DEF StartNode
  <2>3. \A m \in Node : node_status'[m] = "up" => m < at + 1
    BY <1>1, <2>1 DEF StartNode, TypeOK, Node
  <2> QED
    BY <1>1, <2>1, <2>2, <2>3 DEF StartNode, TypeOK, Node, cluster, firewall
<1>2. CASE BlockNode(n)
  <2>1. /\ Cardinality(Ups') = active_nodes - 1
        /\ active_nodes - 1 \in 0 .. NoNodes
        /\ node_status' \in [Node -> {"up", "down"}]
    BY <1>2, OneDown DEF BlockNode
  <2>2. rules' \in [Node -> SUBSET {"INPUT", "OUTPUT"}]
    BY <1>2 DEF BlockNode, TypeOK
  <2> QED
    BY <1>2, <2>1, <2>2 DEF BlockNode, CheckViews, TypeOK, cluster
<1>3. CASE UnblockNode(n)
  <2>1. /\ Cardinality(Ups') = active_nodes + 1
        /\ active_nodes + 1 \in 0 .. NoNodes
        /\ node_status' \in [Node -> {"up", "down"}]
    BY <1>3, OneUp DEF UnblockNode
  <2>2. rules' \in [Node -> SUBSET {"INPUT", "OUTPUT"}]
    BY <1>3 DEF UnblockNode, TypeOK
  <2> QED
    BY <1>3, <2>1, <2>2 DEF UnblockNode, CheckViews, TypeOK, cluster
<1>4. CASE IptablesFails(n)
  <2>1. rules' \in [Node -> SUBSET {"INPUT", "OUTPUT"}]
    BY <1>4 DEF IptablesFails, TypeOK
  <2>2. Ups' = Ups
    BY <1>4 DEF IptablesFails, Ups
  <2> QED
    BY <1>4, <2>1, <2>2 DEF IptablesFails, EnterTrap, TypeOK, cluster
<1>5. CASE TrapNode
  <2>1. Ups' = Ups
    BY <1>5 DEF TrapNode, Ups
  <2> QED
    BY <1>5, <2>1 DEF TrapNode, TypeOK, firewall
<1>6. CASE TrapUnblock
  <2>1. Ups' = Ups
    BY <1>6 DEF TrapUnblock, Ups
  <2>2. PICK kept \in SUBSET rules[at] : /\ refused' = [refused EXCEPT ![at] = kept]
                                         /\ rules' = [rules EXCEPT ![at] = kept]
    BY <1>6 DEF TrapUnblock, Keep
  <2>3. at \in Node
    BY <1>6 DEF TrapUnblock, TypeOK, Node
  <2>4. /\ rules' \in [Node -> SUBSET {"INPUT", "OUTPUT"}]
        /\ refused' \in [Node -> SUBSET {"INPUT", "OUTPUT"}]
    BY <2>2, <2>3 DEF TypeOK
  <2>5. \A m \in Node : m < at + 1 => rules'[m] \subseteq refused'[m]
    BY <1>6, <2>2, <2>3 DEF TrapUnblock, TypeOK, Node
  <2> QED
    BY <1>6, <2>1, <2>4, <2>5 DEF TrapUnblock, TypeOK, cluster
<1>7. CASE TrapEnds
  <2>1. Ups' = Ups
    BY <1>7 DEF TrapEnds, Ups
  <2>2. \A m \in Node : m < at
    BY <1>7 DEF TrapEnds, TypeOK, Node
  <2> QED
    BY <1>7, <2>1, <2>2 DEF TrapEnds, TypeOK, cluster, firewall
<1> QED
  BY <1>1, <1>2, <1>3, <1>4, <1>5, <1>6, <1>7

(* Whatever corosync reports, the script and the firewalls are as before. *)
LEMMA CorosyncStep ==
  ASSUME CutInv, NEW n \in Node, Corosync(n)
  PROVE  CutInv'
<1>1. UNCHANGED <<script, rules, refused, started>>
  BY DEF Corosync, Joins, RingForms, GroupShrinks, GroupGrows, Dies, Report, Rest,
         firewall
<1>2. Ups' = Ups
  BY <1>1 DEF Ups, script
<1>3. joined' \subseteq started
  BY DEF Corosync, Joins, RingForms, GroupShrinks, GroupGrows, Dies, Report, CutInv, TypeOK
<1>4. cpg' \in [Node -> SUBSET Node] /\ totem' \in [Node -> SUBSET Node]
  <2> USE DEF CutInv, TypeOK
  <2>1. CASE Joins(n)
    BY <2>1 DEF Joins
  <2>2. CASE RingForms(n)
    BY <2>2 DEF RingForms, Report, Reach
  <2>3. CASE GroupShrinks(n)
    BY <2>3 DEF GroupShrinks, Report
  <2>4. CASE GroupGrows(n)
    BY <2>4 DEF GroupGrows, Report
  <2>5. CASE Dies(n)
    BY <2>5 DEF Dies
  <2> QED
    BY <2>1, <2>2, <2>3, <2>4, <2>5 DEF Corosync
<1> QED
  BY <1>1, <1>2, <1>3, <1>4 DEF CutInv, TypeOK, script

LEMMA CutStep == CutInv /\ [Next]_vars => CutInv'
<1> SUFFICES ASSUME CutInv, [Next]_vars PROVE CutInv'
  OBVIOUS
<1>1. 1 \in Node
  BY TestAssumption DEF Node
<1>2. CASE UNCHANGED vars
  BY <1>2 DEF vars, script, cluster, firewall, CutInv, TypeOK, Ups
<1>3. CASE Next
  BY <1>1, <1>3, ScriptControl, ScriptNode, CorosyncStep DEF Next, Script
<1> QED
  BY <1>2, <1>3

(* However the membership test ends, the only rules left when its exit trap is  *)
(* over are those that iptables itself refused to delete in the trap.           *)
THEOREM NoNodeLeftCutOff == Spec => []NobodyLeftCutOff
<1>1. CutInv => NobodyLeftCutOff
  BY DEF CutInv, NobodyLeftCutOff
<1> QED
  BY CutInit, CutStep, <1>1, PTL DEF Spec

------------------------------------------------------------------------------
(* What the lines of MembershipView are. *)
Line(c, t) == [nodes |-> IF c = t THEN Cardinality(c) ELSE -1, cpg |-> c, totem |-> t]

LEMMA Lines ==
  ASSUME NEW n \in Node
  PROVE  MV(n)!NoView.nodes = -1 /\ \A c, t : MV(n)!ViewOf(c, t) = Line(c, t)
<1>1. \A S : MV(n)!Cardinality(S) = Cardinality(S)
  BY DEF MV!Cardinality, Cardinality, MV!IsFiniteSet, IsFiniteSet
<1>2. \A c, t : MV(n)!ViewOf(c, t) = Line(c, t)
  BY <1>1 DEF MV!ViewOf, MV!NE, Line
<1>3. MV(n)!NoView.nodes = -1
  BY DEF MV!NoView, MV!NE
<1> QED
  BY <1>2, <1>3

(* What the script accepts is what the node reaches at that moment.  A ring is *)
(* made of nodes that were in reach when it formed, and all views have been    *)
(* accepted, so that every ring is complete, before the firewall of one node   *)
(* changes.  After the change a ring and the nodes in reach contain one the    *)
(* other, and are the same when they are as many.  The log of a process that   *)
(* died keeps its last line, and its ring does not change any more either.     *)
ViewRight(n) == view[n] = Line(cpg[n], totem[n]) \/ view[n].nodes = -1
RingRight(n) ==
  totem[n] # {} =>
    /\ n \in totem[n]
    /\ node_status[n] = "up" => totem[n] \subseteq Reach(n) \/ Reach(n) \subseteq totem[n]

StartRight ==
  pc = "start" =>
    /\ started = {n \in Node : n < at}
    /\ \A n \in Node : /\ rules[n] = {} /\ (n < at => node_status[n] = "up")
                       /\ totem[n] \subseteq started
                       /\ totem[n] # {} => n \in totem[n]
RingsRight ==
  pc \in {"check", "toggle"} =>
    /\ started = Node
    /\ \A n \in Node : (rules[n] = {} <=> node_status[n] = "up") /\ RingRight(n)
CheckedRight ==
  /\ pc = "check" => \A n \in Node : n < at => totem[n] = Reach(n)
  /\ pc = "toggle" => \A n \in Node : totem[n] = Reach(n)

ReachInv ==
  /\ CutInv
  /\ DOMAIN view = Node
  /\ \A n \in Node : ViewRight(n)
  /\ StartRight /\ RingsRight /\ CheckedRight

LEMMA ReachInit == Init => ReachInv
<1> SUFFICES ASSUME Init PROVE ReachInv
  OBVIOUS
<1>1. DOMAIN view = Node /\ \A n \in Node : ViewRight(n)
  BY Lines DEF Init, ViewRight
<1>2. StartRight
  BY DEF Init, StartRight, Node
<1>3. RingsRight /\ CheckedRight
  BY DEF Init, RingsRight, CheckedRight
<1> QED
  BY <1>1, <1>2, <1>3, CutInit DEF ReachInv

(* Between the changes of the firewall, an up node reaches the nodes that are  *)
(* up, another only itself.                                                    *)
LEMMA ReachIs ==
  ASSUME started = Node, NEW n \in Node,
         \A m \in Node : rules[m] = {} <=> node_status[m] = "up"
  PROVE  Reach(n) = IF node_status[n] = "up" THEN Ups ELSE {n}
BY DEF Reach, Ups

(* A view with the right number is of the right nodes. *)
LEMMA AcceptedReach ==
  ASSUME ReachInv, pc = "check", NEW n \in Node, Matches(n)
  PROVE  totem[n] = Reach(n) /\ view[n].cpg = Reach(n) /\ view[n].totem = Reach(n)
<1>1. /\ started = Node /\ RingRight(n) /\ ViewRight(n) /\ TypeOK
      /\ \A m \in Node : rules[m] = {} <=> node_status[m] = "up"
      /\ active_nodes = Cardinality(Ups)
  BY DEF ReachInv, RingsRight, CutInv
<1>2. PICK R : R = Reach(n) /\ IsFiniteSet(R) /\ n \in R /\ Cardinality(R) = no_nodes(n)
  <2>1. CASE node_status[n] = "up"
    BY <1>1, <2>1, ReachIs, UpsAreNodes DEF no_nodes, Ups
  <2>2. CASE node_status[n] # "up"
    BY <1>1, <2>2, ReachIs, FS_Singleton DEF no_nodes
  <2> QED
    BY <2>1, <2>2
<1>3. Cardinality(R) \in Nat \ {0}
  BY <1>2, FS_CardinalityType, FS_EmptySet
<1>4. /\ cpg[n] = totem[n] /\ Cardinality(totem[n]) = Cardinality(R)
      /\ view[n].cpg = totem[n] /\ view[n].totem = totem[n]
  <2>1. view[n].nodes = Cardinality(R)
    BY <1>2 DEF Matches
  <2>2. view[n] = [nodes |-> IF cpg[n] = totem[n] THEN Cardinality(cpg[n]) ELSE -1,
                   cpg |-> cpg[n], totem |-> totem[n]]
    BY <1>1, <1>3, <2>1 DEF ViewRight, Line
  <2> QED
    BY <1>3, <2>1, <2>2
<1>5. IsFiniteSet(totem[n]) /\ totem[n] # {}
  <2>1. IsFiniteSet(1 .. NoNodes)
    BY FS_Interval, TestAssumption
  <2>2. totem[n] \in SUBSET (1 .. NoNodes)
    BY <1>1 DEF TypeOK, Node
  <2> QED
    BY <1>3, <1>4, <2>1, <2>2, FS_Subset, FS_EmptySet
<1>6. totem[n] \subseteq R \/ R \subseteq totem[n]
  BY <1>1, <1>2, <1>5, ReachIs DEF RingRight
<1>7. totem[n] = R
  BY <1>2, <1>4, <1>5, <1>6, FS_Subset
<1> QED
  BY <1>2, <1>4, <1>7

(* Steps of the script, none of which changes a view. *)
LEMMA ReachScript ==
  ASSUME ReachInv, CutInv', Script
  PROVE  ReachInv'
<1>1. /\ UNCHANGED <<cpg, totem, view>>
      /\ pc \in {"start", "check", "toggle", "trap", "unblock"}
  BY DEF Script, StartNode, StartFails, AllStarted, ViewAccepted, LookAgain, ViewRefused,
         ChecksDone, BlockNode, UnblockNode, IptablesFails, TrapNode, TrapNodesDone,
         TrapUnblock, TrapEnds, TrapFails, cluster
<1>2. DOMAIN view' = Node /\ \A n \in Node : ViewRight(n)'
  BY <1>1 DEF ReachInv, ViewRight
<1>3. ASSUME pc' \notin {"start", "check", "toggle"} PROVE ReachInv'
  BY <1>2, <1>3 DEF ReachInv, StartRight, RingsRight, CheckedRight
<1>4. TypeOK /\ TestAssumption
  BY TestAssumption DEF ReachInv, CutInv
<1>5. CASE StartNode
  <2>1. /\ pc = "start" /\ at \in Node /\ pc' = pc /\ at' = at + 1 /\ rules' = rules
        /\ started' = started \cup {at}
        /\ node_status' = [node_status EXCEPT ![at] = "up"]
    BY <1>4, <1>5 DEF StartNode, TypeOK, Node, firewall
  <2>2. started' = {n \in Node : n < at'}
    BY <1>4, <2>1 DEF ReachInv, StartRight, TypeOK, Node
  <2>3. \A n \in Node : n < at' => node_status'[n] = "up"
    BY <1>4, <2>1 DEF ReachInv, StartRight, TypeOK, Node
  <2>4. StartRight'
    BY <1>1, <2>1, <2>2, <2>3 DEF ReachInv, StartRight
  <2> QED
    BY <1>2, <2>1, <2>4 DEF ReachInv, RingsRight, CheckedRight
<1>6. CASE AllStarted
  <2>1. /\ pc = "start" /\ pc' = "check" /\ at' = 1
        /\ UNCHANGED <<started, rules, node_status>>
        /\ \A n \in Node : n < at /\ ~(n < 1)
    BY <1>4, <1>6 DEF AllStarted, CheckViews, TypeOK, Node, firewall
  <2>2. started = Node /\ \A n \in Node : /\ node_status[n] = "up" /\ rules[n] = {}
                                          /\ totem[n] \subseteq Node
                                          /\ totem[n] # {} => n \in totem[n]
    BY <2>1 DEF ReachInv, StartRight
  <2>3. \A n \in Node : Reach(n)' = Node
    BY <2>1, <2>2 DEF Reach
  <2>4. RingsRight'
    BY <1>1, <2>1, <2>2, <2>3 DEF RingsRight, RingRight
  <2>5. CheckedRight' /\ StartRight'
    BY <2>1 DEF CheckedRight, StartRight
  <2> QED
    BY <1>2, <2>4, <2>5 DEF ReachInv
<1>7. ASSUME pc = "check", pc' \in {"check", "toggle"}, UNCHANGED <<started, rules, node_status>>
      PROVE  RingsRight' /\ StartRight' /\ \A n \in Node : Reach(n)' = Reach(n)
  <2>1. \A n \in Node : Reach(n)' = Reach(n)
    BY <1>7 DEF Reach
  <2>2. RingsRight'
    BY <1>1, <1>7, <2>1 DEF ReachInv, RingsRight, RingRight
  <2> QED
    BY <1>7, <2>1, <2>2 DEF StartRight
<1>8. CASE ViewAccepted
  <2>1. /\ pc = "check" /\ pc' = pc /\ at \in Node /\ at' = at + 1 /\ Matches(at)
        /\ UNCHANGED <<started, rules, node_status>>
    BY <1>4, <1>8 DEF ViewAccepted, TypeOK, Node, firewall
  <2>2. totem[at] = Reach(at)
    BY <2>1, AcceptedReach
  <2>3. \A n \in Node : n < at' => n < at \/ n = at
    BY <2>1 DEF Node
  <2>4. CheckedRight'
    BY <1>1, <1>7, <2>1, <2>2, <2>3 DEF ReachInv, CheckedRight
  <2> QED
    BY <1>2, <1>7, <2>1, <2>4 DEF ReachInv
<1>9. CASE LookAgain
  <2>1. /\ pc = "check" /\ pc' = pc /\ at' = at /\ UNCHANGED <<started, rules, node_status>>
    BY <1>9 DEF LookAgain, firewall
  <2>2. CheckedRight'
    BY <1>1, <1>7, <2>1 DEF ReachInv, CheckedRight
  <2> QED
    BY <1>2, <1>7, <2>1, <2>2 DEF ReachInv
<1>10. CASE ChecksDone /\ round < Rounds
  <2>1. /\ pc = "check" /\ pc' = "toggle" /\ UNCHANGED <<started, rules, node_status>>
        /\ \A n \in Node : n < at
    BY <1>4, <1>10 DEF ChecksDone, TypeOK, Node, firewall
  <2>2. CheckedRight'
    BY <1>1, <1>7, <2>1 DEF ReachInv, CheckedRight
  <2> QED
    BY <1>2, <1>7, <2>1, <2>2 DEF ReachInv
<1>11. ASSUME NEW n \in Node, BlockNode(n) \/ UnblockNode(n) PROVE ReachInv'
  <2>1. /\ pc = "toggle" /\ pc' = "check" /\ at' = 1 /\ started' = started
        /\ \A m \in Node : ~(m < 1)
        /\ \/ /\ node_status[n] = "up" /\ node_status' = [node_status EXCEPT ![n] = "down"]
              /\ rules' = [rules EXCEPT ![n] = {"INPUT", "OUTPUT"}]
           \/ /\ node_status[n] = "down" /\ node_status' = [node_status EXCEPT ![n] = "up"]
              /\ rules' = [rules EXCEPT ![n] = {}]
    BY <1>11 DEF BlockNode, UnblockNode, CheckViews, Node
  <2>2. /\ started = Node
        /\ \A m \in Node : (rules[m] = {} <=> node_status[m] = "up") /\ totem[m] = Reach(m)
    BY <2>1 DEF ReachInv, RingsRight, CheckedRight
  <2>3. \A m \in Node : rules'[m] = {} <=> node_status'[m] = "up"
    BY <1>4, <2>1, <2>2 DEF TypeOK
  <2>4. \A m \in Node : m \in Reach(m)
    BY <2>2 DEF Reach
  <2>5. ASSUME NEW m \in Node, node_status'[m] = "up"
        PROVE  Reach(m) \subseteq Reach(m)' \/ Reach(m)' \subseteq Reach(m)
    BY <1>4, <2>1, <2>2, <2>3, <2>5 DEF TypeOK, Reach
  <2>6. RingsRight'
    BY <1>1, <2>1, <2>2, <2>3, <2>4, <2>5 DEF RingsRight, RingRight
  <2>7. CheckedRight' /\ StartRight'
    BY <2>1 DEF CheckedRight, StartRight
  <2> QED
    BY <1>2, <2>6, <2>7 DEF ReachInv
<1>12. CASE StartFails \/ ViewRefused \/ (ChecksDone /\ ~(round < Rounds))
            \/ TrapNode \/ TrapNodesDone \/ TrapUnblock \/ TrapEnds \/ TrapFails
  BY <1>3, <1>12 DEF StartFails, ViewRefused, ChecksDone, EnterTrap, TrapNode, TrapNodesDone,
     TrapUnblock, TrapEnds, TrapFails
<1>13. ASSUME NEW n \in Node, IptablesFails(n) PROVE ReachInv'
  BY <1>3, <1>13 DEF IptablesFails, EnterTrap
<1> QED
  BY <1>5, <1>6, <1>8, <1>9, <1>10, <1>11, <1>12, <1>13 DEF Script

(* What corosync reports. *)
LEMMA ReachCorosync ==
  ASSUME ReachInv, CutInv', NEW n \in Node, Corosync(n)
  PROVE  ReachInv'
<1>1. UNCHANGED <<script, rules, refused, started>>
  BY DEF Corosync, Joins, RingForms, GroupShrinks, GroupGrows, Dies, Report, Rest,
         firewall
<1>2. TypeOK
  BY DEF ReachInv, CutInv
<1>3. \A m \in Node : Reach(m)' = Reach(m)
  BY <1>1 DEF Reach
<1>4. DOMAIN view' = Node /\ \A m \in Node : ViewRight(m)'
  <2>1. CASE UNCHANGED <<cpg, totem, view>>
    BY <2>1 DEF ReachInv, ViewRight
  <2>2. ASSUME NEW c, NEW t, Report(n, c, t)
        PROVE  DOMAIN view' = Node /\ \A m \in Node : ViewRight(m)'
    <3>1. /\ cpg'[n] = c /\ totem'[n] = t
          /\ \A m \in Node \ {n} : /\ cpg'[m] = cpg[m] /\ totem'[m] = totem[m]
                                   /\ view'[m] = view[m]
      BY <1>2, <2>2 DEF Report, ReachInv, ViewRight, TypeOK
    <3>2. view'[n] = Line(c, t)
      BY <2>2, Lines DEF Report, ReachInv
    <3>3. DOMAIN view' = Node
      BY <2>2 DEF Report, ReachInv
    <3> QED
      BY <3>1, <3>2, <3>3 DEF ReachInv, ViewRight
  <2> QED
    BY <2>1, <2>2 DEF Corosync, Joins, RingForms, GroupShrinks, GroupGrows, Dies
<1>5. CASE totem' = totem
  BY <1>1, <1>3, <1>4, <1>5 DEF ReachInv, StartRight, RingsRight, RingRight, CheckedRight, script
<1>6. CASE RingForms(n)
  <2>1. PICK S \in SUBSET Reach(n) : n \in S /\ totem' = [totem EXCEPT ![n] = S]
    BY <1>6 DEF RingForms, Report
  <2>2. totem'[n] = S /\ \A m \in Node \ {n} : totem'[m] = totem[m]
    BY <1>2, <2>1 DEF TypeOK
  <2>3. n \in started /\ totem[n] # Reach(n)
    BY <1>2, <1>6 DEF RingForms, TypeOK
  <2>4. StartRight'
    <3>1. Reach(n) \subseteq started
      BY <2>3 DEF Reach
    <3> QED
      BY <1>1, <2>1, <2>2, <3>1 DEF ReachInv, StartRight, script
  <2>5. RingsRight'
    BY <1>1, <1>3, <2>1, <2>2 DEF ReachInv, RingsRight, RingRight, script
  <2>6. CheckedRight'
    BY <1>1, <1>3, <2>2, <2>3 DEF ReachInv, CheckedRight, script
  <2> QED
    BY <1>4, <2>4, <2>5, <2>6 DEF ReachInv
<1> QED
  BY <1>2, <1>5, <1>6 DEF Corosync, Joins, GroupShrinks, GroupGrows, Dies, Report, TypeOK

LEMMA ReachStep == ReachInv /\ [Next]_vars => ReachInv'
<1> SUFFICES ASSUME ReachInv, [Next]_vars PROVE ReachInv'
  OBVIOUS
<1>1. CutInv'
  BY CutStep DEF ReachInv
<1>2. CASE UNCHANGED vars
  <2>1. \A n \in Node : Reach(n)' = Reach(n)
    BY <1>2 DEF vars, firewall, Reach
  <2> QED
    BY <1>1, <1>2, <2>1 DEF vars, script, cluster, firewall, ReachInv, ViewRight, StartRight, RingsRight,
         RingRight, CheckedRight
<1>3. CASE Next
  BY <1>1, <1>3, ReachScript, ReachCorosync DEF Next
<1> QED
  BY <1>2, <1>3

LEMMA AcceptedStep ==
  ReachInv /\ [Next]_vars =>
    [pc = "check" /\ at' = at + 1 => view[at].cpg = Reach(at) /\ view[at].totem = Reach(at)]_vars
<1> SUFFICES ASSUME ReachInv, Next, pc = "check", at' = at + 1
             PROVE  view[at].cpg = Reach(at) /\ view[at].totem = Reach(at)
  OBVIOUS
<1>1. TypeOK
  BY DEF ReachInv, CutInv
<1>2. ViewAccepted
  <2>1. ASSUME NEW n \in Node, Corosync(n) PROVE FALSE
    <3>1. at' = at
      BY <2>1 DEF Corosync, Joins, RingForms, GroupShrinks, GroupGrows, Dies, Report, Rest, script
    <3> QED
      BY <1>1, <3>1 DEF TypeOK
  <2>2. CASE Script
    BY <1>1, <2>2 DEF Script, StartNode, StartFails, AllStarted, LookAgain, ViewRefused,
         ChecksDone, BlockNode, UnblockNode, IptablesFails, TrapNode, TrapNodesDone,
         TrapUnblock, TrapEnds, TrapFails, EnterTrap, TypeOK
  <2> QED
    BY <2>1, <2>2 DEF Next
<1>3. at \in Node /\ Matches(at)
  BY <1>1, <1>2 DEF ViewAccepted, TypeOK, Node
<1> QED
  BY <1>3, AcceptedReach

(* The script compares only numbers, and with lines that may be old or of a    *)
(* dead process; but whenever it accepts a VIEW line, the line shows exactly   *)
(* the nodes in reach, for any number of nodes, rounds and retries.            *)
THEOREM Accepted == Spec => AcceptedIsRight
<1>1. Spec => []ReachInv
  BY ReachInit, ReachStep, PTL DEF Spec
<1> QED
  BY <1>1, AcceptedStep, PTL DEF Spec, AcceptedIsRight
===============================================================================
