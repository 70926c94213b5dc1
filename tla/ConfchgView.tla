------------------------------ MODULE ConfchgView ------------------------------
(***************************************************************************)
(* apps/cpg-confchg.c: one process that keeps a table of the nodes it has  *)
(* heard of.  A slot is taken by the first report that names the node and  *)
(* is never given back; when all MAX_NODES slots are taken, a new node is  *)
(* left out without a word.                                                *)
(*                                                                         *)
(* Operators whose name begins with Bad are mutated forms of the operator  *)
(* that follows; no specification uses them.                               *)
(***************************************************************************)
EXTENDS FiniteSets, Integers, Sequences, SequencesExt

CONSTANTS Node,           (* the node ids corosync may report              *)
          NoNode,         (* nodeid 0: the slot is free                    *)
          MAX_NODES,      (* slots of the table                            *)
          MaxList,        (* bound: entries of a reported list             *)
          MaxReports      (* bound: reports of corosync                    *)

ASSUME ViewAssumption ==
  /\ MAX_NODES \in Nat \ {0}
  /\ NoNode \notin Node
  /\ MaxList \in Nat /\ MaxReports \in Nat

VARIABLES nodes,          (* the table                                     *)
          pc,             (* "select", "members" in a callback, "exit"     *)
          item,           (* which list the callback reports               *)
          member_list, i, (* that list and the loop index in it            *)
          reported,       (* history, per item: the nodes of the last      *)
                          (* list that was handled to its end              *)
          view,           (* the last VIEW line                            *)
          reports         (* used up of MaxReports                         *)

callback == <<item, member_list, i>>
vars == <<nodes, pc, callback, reported, view, reports>>

Slot == 1 .. MAX_NODES
Item == {"cpg", "totem"}
FreeSlot == [nodeid |-> NoNode, up |-> [it \in Item |-> FALSE]]

(* The nodes last reported that have a slot.                                 *)
Seen(it) == {n \in reported[it] : \E s \in Slot : nodes[s].nodeid = n}

M == INSTANCE MembershipView WITH cpg <- Seen("cpg"), totem <- Seen("totem")

Init ==
  /\ nodes = [s \in Slot |-> FreeSlot]
  /\ pc = "select" /\ item = "cpg" /\ member_list = <<>> /\ i = 0
  /\ reported = [it \in Item |-> {}]
  /\ view = M!NoView
  /\ reports = 0

------------------------------------------------------------------------------
SlotsOf(id) == {s \in Slot : nodes[s].nodeid = id}
First(S) == CHOOSE s \in S : \A t \in S : s <= t

Mark(s, id) ==
  nodes' = [nodes EXCEPT ![s].nodeid = id, ![s].up[item] = TRUE]

Bad_change_node_state(id) ==
  LET free == SlotsOf(NoNode)
  IN  IF free # {} THEN Mark(First(free), id) ELSE UNCHANGED nodes

(* Nodes the table knows are marked where they are, others in the first      *)
(* free slot, if there is one.                                               *)
change_node_state(id) ==
  LET known == SlotsOf(id)
      free  == SlotsOf(NoNode)
  IN  IF known # {} THEN Mark(First(known), id)
      ELSE IF free # {} THEN Mark(First(free), id)
      ELSE UNCHANGED nodes

Bad_reset_nodes_state(it) == UNCHANGED nodes

reset_nodes_state(it) == nodes' = [s \in Slot |-> [nodes[s] EXCEPT !.up[it] = FALSE]]

(* What display_nodes_view finds in the table. *)
Up(it) == {nodes[s].nodeid : s \in {t \in Slot : nodes[t].nodeid # NoNode /\ nodes[t].up[it]}}
BothUp == {s \in Slot : nodes[s].nodeid # NoNode /\ \A it \in Item : nodes[s].up[it]}
OneUp == {s \in Slot : nodes[s].nodeid # NoNode /\ \E it \in Item : nodes[s].up[it]}

Bad_display_nodes_view ==
  view' = [nodes |-> Cardinality(BothUp), cpg |-> Up("cpg"), totem |-> Up("totem")]

display_nodes_view ==
  view' = [nodes |-> IF OneUp = BothUp THEN Cardinality(BothUp) ELSE M!NE,
           cpg |-> Up("cpg"), totem |-> Up("totem")]

------------------------------------------------------------------------------
(* The lists corosync reports: a group has one entry per process, so a node  *)
(* may occur twice; a ring names each node once.                             *)
Lists(it) ==
  LET all == UNION {[1 .. n -> Node] : n \in 0 .. MaxList}
  IN  IF it = "cpg" THEN all ELSE {l \in all : IsInjective(l)}

(* ConfchgCallback and TotemConfchgCallback up to their loop. *)
Callback(it) ==
  /\ pc = "select" /\ reports < MaxReports
  /\ reports' = reports + 1
  /\ item' = it /\ i' = 0
  /\ member_list' \in Lists(it)
  /\ reset_nodes_state(it)
  /\ pc' = "members"
  /\ UNCHANGED <<reported, view>>

ConfchgCallback == Callback("cpg")
TotemConfchgCallback == Callback("totem")

(* One round of the loop over the list. *)
Member ==
  /\ pc = "members" /\ i < Len(member_list)
  /\ change_node_state(member_list[i + 1])
  /\ i' = i + 1
  /\ UNCHANGED <<pc, item, member_list, reported, view, reports>>

(* The callback ends with the VIEW line. *)
CallbackEnds ==
  /\ pc = "members" /\ i = Len(member_list)
  /\ display_nodes_view
  /\ reported' = [reported EXCEPT ![item] = ToSet(member_list)]
  /\ pc' = "select"
  /\ UNCHANGED <<nodes, callback, reports>>

(* cpg_dispatch fails: exit(1). *)
DispatchFails ==
  /\ pc = "select" /\ pc' = "exit"
  /\ UNCHANGED <<nodes, callback, reported, view, reports>>

Next ==
  \/ ConfchgCallback \/ TotemConfchgCallback \/ Member \/ CallbackEnds
  \/ DispatchFails

Spec == Init /\ [][Next]_vars

------------------------------------------------------------------------------
TypeOK ==
  /\ nodes \in [Slot -> [nodeid : Node \cup {NoNode}, up : [Item -> BOOLEAN]]]
  /\ pc \in {"select", "members", "exit"}
  /\ item \in Item /\ member_list \in Seq(Node) /\ i \in 0 .. Len(member_list)
  /\ reported \in [Item -> SUBSET Node]
  /\ view \in [nodes : Nat \cup {M!NE}, cpg : SUBSET Node, totem : SUBSET Node]

(* The used slots are the first ones, no node holds two of them, and nothing *)
(* is marked in a free one: change_node_state stops at the first match and   *)
(* display_nodes_view counts slots, so both rest on this.  (The types are    *)
(* part of the invariant.)                                                   *)
TableSound ==
  /\ TypeOK
  /\ \A s, t \in Slot :
       s < t /\ nodes[t].nodeid # NoNode => nodes[s].nodeid \notin {NoNode, nodes[t].nodeid}
  /\ \A s \in SlotsOf(NoNode) : nodes[s] = FreeSlot

(* Each VIEW line shows the two sets of nodes last reported, without those   *)
(* that found the table full, and compares them rightly.                     *)
ViewSpec == M!Spec

(* A node is left out only when no slot is free.  It can hide a difference   *)
(* but never makes one: NE always stands for a real difference, and a number *)
(* never counts a node that is not in both lists.                            *)
NothingInvented ==
  /\ \A it \in Item : Seen(it) # reported[it] => SlotsOf(NoNode) = {}
  /\ pc = "select" /\ view # M!NoView =>
       /\ view.nodes = M!NE => reported["cpg"] # reported["totem"]
       /\ view.nodes <= Cardinality(reported["cpg"] \cap reported["totem"])
===============================================================================
