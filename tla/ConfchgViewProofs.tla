--------------------------- MODULE ConfchgViewProofs ---------------------------
(* The table of cpg-confchg is sound, and cpg-confchg does what MembershipView  *)
(* promises, for any number of nodes, slots and reports, and lists of any      *)
(* length.                                                                     *)
EXTENDS ConfchgView, FiniteSetTheorems, WellFoundedInduction, TLAPS

(* There is a first of the slots. *)
LEMMA FirstSlot ==
  ASSUME NEW S, S \subseteq Slot, S # {}
  PROVE  First(S) \in S /\ \A t \in S : First(S) <= t
<1>1. S \subseteq Nat
  BY DEF Slot
<1>2. PICK l \in S : \A j \in S : ~(<<j, l>> \in OpToRel(<, Nat))
  BY <1>1, NatLessThanWellFounded, WFMin
<1>3. ASSUME NEW j \in S PROVE l <= j
  <2>1. l \in Nat /\ j \in Nat /\ ~(j < l)
    BY <1>1, <1>2 DEF OpToRel
  <2>2. QED
    BY <2>1
<1> QED
  BY <1>3 DEF First

LEMMA ViewTypes ==
  ASSUME TypeOK, display_nodes_view
  PROVE  view' \in [nodes : Nat \cup {M!NE}, cpg : SUBSET Node, totem : SUBSET Node]
<1>1. IsFiniteSet(Slot)
  BY FS_Interval, ViewAssumption DEF Slot
<1>2. IsFiniteSet(BothUp)
  BY <1>1, FS_Subset DEF BothUp
<1>3. Cardinality(BothUp) \in Nat
  BY <1>2, FS_CardinalityType
<1>4. \A it \in Item : Up(it) \subseteq Node
  BY DEF Up, TypeOK
<1> QED
  BY <1>3, <1>4 DEF display_nodes_view, Item

LEMMA SoundInit == Init => TableSound
  BY ViewAssumption DEF Init, TableSound, TypeOK, Slot, Item, FreeSlot, SlotsOf, M!NoView, M!NE

(* What marking does to the table. *)
LEMMA MarkSlot ==
  ASSUME TypeOK, NEW f \in Slot, NEW id \in Node, Mark(f, id)
  PROVE  /\ nodes' \in [Slot -> [nodeid : Node \cup {NoNode}, up : [Item -> BOOLEAN]]]
         /\ nodes'[f].nodeid = id
         /\ nodes'[f].up = [nodes[f].up EXCEPT ![item] = TRUE]
         /\ \A s \in Slot : s # f => nodes'[s] = nodes[s]
<1> DEFINE named == [nodes EXCEPT ![f].nodeid = id]
<1>1. named \in [Slot -> [nodeid : Node \cup {NoNode}, up : [Item -> BOOLEAN]]]
  BY DEF TypeOK
<1>2. named[f].nodeid = id /\ named[f].up = nodes[f].up /\ \A s \in Slot : s # f => named[s] = nodes[s]
  BY DEF TypeOK
<1>3. nodes' = [named EXCEPT ![f].up[item] = TRUE]
  BY DEF Mark
<1>4. item \in Item
  BY DEF TypeOK
<1> HIDE DEF named
<1>5. [named[f] EXCEPT !.up[item] = TRUE] \in [nodeid : Node \cup {NoNode}, up : [Item -> BOOLEAN]]
  BY <1>1, <1>4
<1>6. [named[f] EXCEPT !.up[item] = TRUE].nodeid = id
  BY <1>1, <1>2
<1>7. nodes' = [named EXCEPT ![f] = [named[f] EXCEPT !.up[item] = TRUE]]
  BY <1>3
<1>8. nodes' \in [Slot -> [nodeid : Node \cup {NoNode}, up : [Item -> BOOLEAN]]]
  BY <1>1, <1>5, <1>7
<1>9. nodes'[f].nodeid = id
  BY <1>1, <1>6, <1>7
<1>11. [named[f] EXCEPT !.up[item] = TRUE].up = [nodes[f].up EXCEPT ![item] = TRUE]
  BY <1>1, <1>2
<1>12. nodes'[f].up = [nodes[f].up EXCEPT ![item] = TRUE]
  BY <1>1, <1>7, <1>11
<1>10. \A s \in Slot : s # f => nodes'[s] = nodes[s]
  BY <1>1, <1>2, <1>7
<1> QED
  BY <1>8, <1>9, <1>10, <1>12

(* A node is marked where it is, or in the first free slot: the used slots stay *)
(* the first ones, and each its node's only one.                                *)
LEMMA MarkSound ==
  ASSUME TableSound, NEW id \in Node, change_node_state(id)
  PROVE  /\ nodes' \in [Slot -> [nodeid : Node \cup {NoNode}, up : [Item -> BOOLEAN]]]
         /\ \A s, t \in Slot :
              s < t /\ nodes'[t].nodeid # NoNode =>
                nodes'[s].nodeid \notin {NoNode, nodes'[t].nodeid}
         /\ \A s \in Slot : nodes'[s].nodeid = NoNode => nodes'[s] = FreeSlot
<1> USE ViewAssumption DEF TableSound, TypeOK
<1>1. CASE nodes' = nodes
  BY <1>1 DEF SlotsOf
<1>2. CASE SlotsOf(id) # {} /\ Mark(First(SlotsOf(id)), id)
  <2>1. PICK f \in Slot : nodes[f].nodeid = id /\ Mark(f, id)
    BY <1>2, FirstSlot DEF SlotsOf
  <2>2. /\ nodes' \in [Slot -> [nodeid : Node \cup {NoNode}, up : [Item -> BOOLEAN]]]
        /\ nodes'[f].nodeid = id
        /\ \A s \in Slot : s # f => nodes'[s] = nodes[s]
    BY <2>1, MarkSlot
  <2>3. \A s \in Slot : nodes'[s].nodeid = nodes[s].nodeid
    BY <2>1, <2>2
  <2> QED
    BY <2>1, <2>2, <2>3 DEF SlotsOf
<1>3. CASE SlotsOf(id) = {} /\ SlotsOf(NoNode) # {} /\ Mark(First(SlotsOf(NoNode)), id)
  <2>1. PICK f \in Slot : /\ nodes[f].nodeid = NoNode /\ Mark(f, id)
                          /\ \A t \in Slot : nodes[t].nodeid = NoNode => f <= t
    BY <1>3, FirstSlot DEF SlotsOf
  <2>3. nodes' \in [Slot -> [nodeid : Node \cup {NoNode}, up : [Item -> BOOLEAN]]]
    BY <2>1, MarkSlot
  <2>4. nodes'[f].nodeid = id /\ \A s \in Slot : s # f => nodes'[s] = nodes[s]
    BY <2>1, MarkSlot
  <2>5. \A s \in Slot : nodes[s].nodeid # id
    BY <1>3 DEF SlotsOf
  <2>6. \A s \in Slot : s < f => nodes[s].nodeid # NoNode
    BY <2>1 DEF Slot
  <2>7. \A t \in Slot : f < t => nodes[t].nodeid = NoNode
    BY <2>1
  <2>8. \A s, t \in Slot :
          s < t /\ nodes'[t].nodeid # NoNode =>
            nodes'[s].nodeid \notin {NoNode, nodes'[t].nodeid}
    <3> SUFFICES ASSUME NEW s \in Slot, NEW t \in Slot, s < t, nodes'[t].nodeid # NoNode
                 PROVE  nodes'[s].nodeid \notin {NoNode, nodes'[t].nodeid}
      OBVIOUS
    <3>1. s # f
      BY <2>4, <2>7 DEF Slot
    <3>2. CASE t = f
      BY <2>4, <2>5, <2>6, <3>1, <3>2
    <3>3. CASE t # f
      BY <2>4, <3>1, <3>3
    <3> QED
      BY <3>2, <3>3
  <2> QED
    BY <2>3, <2>4, <2>8 DEF SlotsOf
<1> QED
  BY <1>1, <1>2, <1>3 DEF change_node_state

(* The table is sound after every step of a callback. *)
LEMMA SoundStep == TableSound /\ [Next]_vars => TableSound'
<1> SUFFICES ASSUME TableSound, [Next]_vars PROVE TableSound'
  OBVIOUS
<1>1. CASE ConfchgCallback \/ TotemConfchgCallback
  <2>1. PICK it \in Item : Callback(it)
    BY <1>1 DEF ConfchgCallback, TotemConfchgCallback, Item
  <2>2. nodes' = [s \in Slot |-> [nodes[s] EXCEPT !.up[it] = FALSE]]
    BY <2>1 DEF Callback, reset_nodes_state
  <2>3. \A s \in Slot : /\ nodes'[s] \in [nodeid : Node \cup {NoNode}, up : [Item -> BOOLEAN]]
                        /\ nodes'[s].nodeid = nodes[s].nodeid
                        /\ nodes'[s].up = [nodes[s].up EXCEPT ![it] = FALSE]
    BY <2>2 DEF TableSound, TypeOK
  <2>4. nodes' \in [Slot -> [nodeid : Node \cup {NoNode}, up : [Item -> BOOLEAN]]]
    BY <2>2, <2>3
  <2>5. \A s \in Slot : nodes'[s].nodeid = NoNode => nodes'[s] = FreeSlot
    <3> SUFFICES ASSUME NEW s \in Slot, nodes'[s].nodeid = NoNode
                 PROVE  nodes'[s] = FreeSlot
      OBVIOUS
    <3>1. nodes[s] = FreeSlot
      BY <2>3 DEF TableSound, SlotsOf
    <3>2. nodes'[s].up = [x \in Item |-> FALSE]
      <4>1. nodes[s].up = [x \in Item |-> FALSE]
        BY <3>1 DEF FreeSlot
      <4>2. nodes'[s].up = [[x \in Item |-> FALSE] EXCEPT ![it] = FALSE]
        BY <2>3, <4>1
      <4> QED
        BY <4>2
    <3> QED
      BY <2>3, <3>2 DEF FreeSlot
  <2>6. /\ pc' = "members" /\ item' = it /\ i' = 0 /\ UNCHANGED <<reported, view>>
        /\ member_list' \in Seq(Node)
    <3>1. \A l \in Lists(it) : l \in Seq(Node)
      BY DEF Lists
    <3> QED
      BY <2>1, <3>1 DEF Callback
  <2>7. \A s, t \in Slot :
          s < t /\ nodes'[t].nodeid # NoNode =>
            nodes'[s].nodeid \notin {NoNode, nodes'[t].nodeid}
    BY <2>3 DEF TableSound
  <2>8. i' \in 0 .. Len(member_list')
    BY <2>6
  <2>9. TypeOK'
    BY <2>4, <2>6, <2>8 DEF TableSound, TypeOK
  <2> QED
    BY <2>5, <2>7, <2>9 DEF TableSound, SlotsOf
<1>2. CASE Member
  <2>1. /\ member_list[i + 1] \in Node /\ i + 1 \in 0 .. Len(member_list)
        /\ i' = i + 1 /\ UNCHANGED <<pc, item, member_list, reported, view, reports>>
    BY <1>2 DEF Member, TableSound, TypeOK
  <2>2. change_node_state(member_list[i + 1])
    BY <1>2 DEF Member
  <2> QED
    BY <2>1, <2>2, MarkSound DEF TableSound, TypeOK, SlotsOf
<1>3. CASE CallbackEnds
  <2>1. view' \in [nodes : Nat \cup {M!NE}, cpg : SUBSET Node, totem : SUBSET Node]
    BY <1>3, ViewTypes DEF CallbackEnds, TableSound
  <2>2. ToSet(member_list) \subseteq Node
    BY DEF TableSound, TypeOK, ToSet
  <2>3. reported' \in [Item -> SUBSET Node]
    BY <1>3, <2>2 DEF CallbackEnds, TableSound, TypeOK
  <2> QED
    BY <1>3, <2>1, <2>3 DEF CallbackEnds, callback, TableSound, TypeOK, SlotsOf
<1>4. CASE DispatchFails
  BY <1>4 DEF DispatchFails, callback, TableSound, TypeOK, SlotsOf
<1>5. CASE UNCHANGED vars
  BY <1>5 DEF vars, callback, TableSound, TypeOK, SlotsOf
<1> QED
  BY <1>1, <1>2, <1>3, <1>4, <1>5 DEF Next

(* Whatever corosync reports, and however often: the used slots are the first  *)
(* ones, no node holds two of them, and nothing is marked in a free one.       *)
THEOREM TableIsSound == Spec => []TableSound
  BY SoundInit, SoundStep, PTL DEF Spec
------------------------------------------------------------------------------
(* The nodes of the list under way that have been handled, and what marks and  *)
(* slots have to do with a set of reported nodes: a slot is marked iff its     *)
(* node is in the set, and a node without a slot found the table full.         *)
Done == {member_list[j] : j \in 1 .. i}
Marked(it, S) == \A s \in Slot : nodes[s].nodeid # NoNode => (nodes[s].up[it] <=> nodes[s].nodeid \in S)
Known(S) == \A n \in S : (\E s \in Slot : nodes[s].nodeid = n) \/ \A s \in Slot : nodes[s].nodeid # NoNode

MarksInv ==
  /\ \A it \in Item : (pc = "members" /\ it = item) \/ Marked(it, reported[it])
  /\ pc = "members" => Marked(item, Done)
  /\ \A it \in Item : Known(reported[it])
  /\ pc = "members" => Known(Done)

LEMMA MarksInit == Init => MarksInv
  BY DEF Init, MarksInv, Marked, Known, FreeSlot, Slot, Item

(* A callback that begins takes away its marks, and no slot.                   *)
LEMMA CallbackMarks ==
  ASSUME TableSound, MarksInv, NEW it \in Item, Callback(it)
  PROVE  MarksInv' /\ \A x \in Item : Seen(x)' = Seen(x)
<1>1. nodes' = [s \in Slot |-> [nodes[s] EXCEPT !.up[it] = FALSE]]
  BY DEF Callback, reset_nodes_state
<1>2. \A s \in Slot : /\ nodes'[s].nodeid = nodes[s].nodeid
                      /\ nodes'[s].up = [nodes[s].up EXCEPT ![it] = FALSE]
  BY <1>1 DEF TableSound, TypeOK
<1>3. \A s \in Slot : nodes[s].up \in [Item -> BOOLEAN]
  BY DEF TableSound, TypeOK
<1>4. \A s \in Slot : /\ ~nodes'[s].up[it]
                      /\ \A x \in Item : x # it => nodes'[s].up[x] = nodes[s].up[x]
  BY <1>2, <1>3
<1>5. /\ pc = "select" /\ pc' = "members" /\ item' = it /\ i' = 0
      /\ reported' = reported
  BY DEF Callback
<1>6. Done' = {}
  BY <1>5 DEF Done
<1>7. \A x \in Item : Seen(x)' = Seen(x)
  BY <1>2, <1>5 DEF Seen
<1>8. \A x \in Item : Known(reported[x])'
  BY <1>2, <1>5 DEF MarksInv, Known
<1>9. \A x \in Item : x # it => Marked(x, reported[x])'
  BY <1>2, <1>4, <1>5 DEF MarksInv, Marked
<1>10. Marked(item, Done)' /\ Known(Done)'
  BY <1>4, <1>5, <1>6 DEF Marked, Known
<1> QED
  BY <1>5, <1>7, <1>8, <1>9, <1>10 DEF MarksInv

(* A node is handled: it has a slot and its mark now, or found the table full. *)
(* D are the nodes handled before.                                             *)
LEMMA NodeMarks ==
  ASSUME TableSound, NEW id \in Node, change_node_state(id), reported' = reported,
         NEW D, NEW it \in Item, item = it, Marked(it, D), Known(D),
         \A x \in Item : Known(reported[x]),
         \A x \in Item : x # it => Marked(x, reported[x])
  PROVE  /\ Marked(it, D \cup {id})' /\ Known(D \cup {id})'
         /\ \A x \in Item : Known(reported[x])'
         /\ \A x \in Item : x # it => Marked(x, reported[x])'
         /\ \A x \in Item : Seen(x)' = Seen(x)
<1>0. /\ \A s \in Slot : nodes[s].up \in [Item -> BOOLEAN]
      /\ \A x \in Item : reported[x] \subseteq Node
      /\ id # NoNode
  BY ViewAssumption DEF TableSound, TypeOK
<1>1. CASE \E f \in Slot : nodes[f].nodeid = id /\ Mark(f, id)
  <2>1. PICK f \in Slot : nodes[f].nodeid = id /\ Mark(f, id)
    BY <1>1
  <2>2. /\ \A s \in Slot : nodes'[s].nodeid = nodes[s].nodeid
        /\ nodes'[f].up = [nodes[f].up EXCEPT ![item] = TRUE]
        /\ \A s \in Slot : s # f => nodes'[s] = nodes[s]
    BY <2>1, MarkSlot DEF TableSound
  <2>3. nodes'[f].up[it] /\ \A x \in Item : x # it => nodes'[f].up[x] = nodes[f].up[x]
    BY <1>0, <2>2
  <2>4. \A s \in Slot : s # f => nodes[s].nodeid # id
    BY <1>0, <2>1 DEF TableSound, Slot
  <2>5. Marked(it, D \cup {id})'
    BY <2>1, <2>2, <2>3, <2>4 DEF Marked
  <2>6. \A x \in Item : x # it => Marked(x, reported[x])'
    BY <2>1, <2>2, <2>3 DEF Marked
  <2>7. \A x \in Item : Known(reported[x])'
    BY <2>2 DEF Known
  <2>8. Known(D \cup {id})'
    BY <2>1, <2>2 DEF Known
  <2>9. \A x \in Item : Seen(x)' = Seen(x)
    BY <2>2 DEF Seen
  <2> QED
    BY <2>5, <2>6, <2>7, <2>8, <2>9
<1>2. CASE /\ \A s \in Slot : nodes[s].nodeid # id
           /\ \E f \in Slot : nodes[f].nodeid = NoNode /\ Mark(f, id)
  <2>1. PICK f \in Slot : nodes[f].nodeid = NoNode /\ Mark(f, id)
    BY <1>2
  <2>2. /\ nodes'[f].nodeid = id
        /\ nodes'[f].up = [nodes[f].up EXCEPT ![item] = TRUE]
        /\ \A s \in Slot : s # f => nodes'[s] = nodes[s]
    BY <2>1, MarkSlot DEF TableSound
  <2>3. \A x \in Item : ~nodes[f].up[x]
    BY <2>1 DEF TableSound, SlotsOf, FreeSlot
  <2>4. nodes'[f].up[it] /\ \A x \in Item : x # it => ~nodes'[f].up[x]
    BY <1>0, <2>2, <2>3
  <2>5. id \notin D /\ \A x \in Item : id \notin reported[x]
    BY <1>2, <2>1 DEF Known
  <2>6. Marked(it, D \cup {id})'
    BY <1>2, <2>2, <2>4 DEF Marked
  <2>7. \A x \in Item : x # it => Marked(x, reported[x])'
    BY <2>2, <2>4, <2>5 DEF Marked
  <2>8. \A n \in Node, s \in Slot : nodes[s].nodeid = n => nodes'[s].nodeid = n
    BY <1>0, <2>1, <2>2, ViewAssumption
  <2>9. \A x \in Item : Known(reported[x])'
    BY <1>0, <2>1, <2>8 DEF Known
  <2>10. Known(D \cup {id})'
    BY <2>1, <2>2 DEF Known
  <2>11. \A x \in Item : Seen(x)' = Seen(x)
    BY <1>0, <2>1, <2>2, <2>5, ViewAssumption DEF Seen
  <2> QED
    BY <2>6, <2>7, <2>9, <2>10, <2>11
<1>3. CASE nodes' = nodes /\ \A s \in Slot : nodes[s].nodeid \notin {id, NoNode}
  BY <1>3 DEF Marked, Known, Seen
<1> QED
  <2>1. CASE SlotsOf(id) # {}
    BY <1>1, <2>1, FirstSlot DEF change_node_state, SlotsOf
  <2>2. CASE SlotsOf(id) = {} /\ SlotsOf(NoNode) # {}
    BY <1>2, <2>2, FirstSlot DEF change_node_state, SlotsOf
  <2>3. CASE SlotsOf(id) = {} /\ SlotsOf(NoNode) = {}
    BY <1>3, <2>3 DEF change_node_state, SlotsOf
  <2> QED
    BY <2>1, <2>2, <2>3

LEMMA MemberMarks ==
  ASSUME TableSound, MarksInv, Member
  PROVE  MarksInv' /\ \A x \in Item : Seen(x)' = Seen(x)
<1>1. /\ pc = "members" /\ pc' = "members" /\ member_list[i + 1] \in Node
      /\ change_node_state(member_list[i + 1])
      /\ i' = i + 1 /\ UNCHANGED <<item, member_list, reported>>
      /\ i \in Nat /\ item \in Item
  BY DEF Member, TableSound, TypeOK
<1>2. PICK id \in Node : id = member_list[i + 1]
  BY <1>1
<1>3. PICK D : D = Done
  OBVIOUS
<1>4. PICK it \in Item : it = item
  BY <1>1
<1>5. Done' = D \cup {id}
  BY <1>1, <1>2, <1>3 DEF Done
<1>6. /\ Marked(it, D) /\ Known(D)
      /\ \A x \in Item : Known(reported[x])
      /\ \A x \in Item : x # it => Marked(x, reported[x])
  BY <1>1, <1>3, <1>4 DEF MarksInv
<1>7. /\ Marked(it, D \cup {id})' /\ Known(D \cup {id})'
      /\ \A x \in Item : Known(reported[x])'
      /\ \A x \in Item : x # it => Marked(x, reported[x])'
      /\ \A x \in Item : Seen(x)' = Seen(x)
  BY <1>1, <1>2, <1>4, <1>6, NodeMarks
<1>8. Marked(item, Done)' /\ Known(Done)'
  BY <1>1, <1>4, <1>5, <1>7 DEF Marked, Known
<1> QED
  BY <1>1, <1>4, <1>7, <1>8 DEF MarksInv

(* The instance of MembershipView counts as this module does.                  *)
LEMMA SameView ==
  \A c, t : M!ViewOf(c, t) = [nodes |-> IF c = t THEN Cardinality(c) ELSE M!NE,
                              cpg |-> c, totem |-> t]
<1>1. \A S : M!Cardinality(S) = Cardinality(S)
  BY DEF M!Cardinality, Cardinality, M!IsFiniteSet, IsFiniteSet
<1> QED
  BY <1>1 DEF M!ViewOf

(* What display_nodes_view finds are the two sets, and it compares them.       *)
LEMMA LineIsView ==
  ASSUME TableSound, NEW S \in [Item -> SUBSET Node],
         \A it \in Item : Marked(it, S[it])
  PROVE  /\ \A it \in Item : Up(it) = {n \in S[it] : \E s \in Slot : nodes[s].nodeid = n}
         /\ OneUp = BothUp <=> Up("cpg") = Up("totem")
         /\ OneUp = BothUp => Cardinality(BothUp) = Cardinality(Up("cpg"))
<1>1. \A it \in Item : Up(it) = {n \in S[it] : \E s \in Slot : nodes[s].nodeid = n}
  BY ViewAssumption DEF Up, Marked
<1>2. \A s, t \in Slot : nodes[s].nodeid = nodes[t].nodeid /\ nodes[s].nodeid # NoNode => s = t
  BY DEF TableSound, Slot
<1>3. OneUp = BothUp <=> Up("cpg") = Up("totem")
  BY <1>2 DEF OneUp, BothUp, Up, Item
<1>4. ASSUME OneUp = BothUp PROVE Cardinality(BothUp) = Cardinality(Up("cpg"))
  <2> DEFINE f == [s \in BothUp |-> nodes[s].nodeid]
  <2>1. f \in [BothUp -> Up("cpg")]
    BY DEF BothUp, Up, Item
  <2>2. \A s, t \in BothUp : f[s] = f[t] => s = t
    BY <1>2 DEF BothUp
  <2>3. \A n \in Up("cpg") : \E s \in BothUp : f[s] = n
    BY <1>4 DEF OneUp, BothUp, Up, Item
  <2> HIDE DEF f
  <2>4. f \in Bijection(BothUp, Up("cpg"))
    BY <2>1, <2>2, <2>3 DEF Bijection, Injection, Surjection, IsInjective
  <2>5. IsFiniteSet(BothUp)
    <3>1. IsFiniteSet(Slot)
      BY FS_Interval, ViewAssumption DEF Slot
    <3> QED
      BY <3>1, FS_Subset DEF BothUp
  <2> QED
    BY <2>4, <2>5, FS_Bijection DEF ExistsBijection
<1> QED
  BY <1>1, <1>3, <1>4

(* The end of a callback is a report of MembershipView.                        *)
LEMMA EndReports ==
  ASSUME TableSound, MarksInv, CallbackEnds
  PROVE  MarksInv' /\ M!Next
<1>1. /\ pc = "members" /\ pc' = "select" /\ UNCHANGED <<nodes, item>>
      /\ reported' = [reported EXCEPT ![item] = ToSet(member_list)]
      /\ i = Len(member_list) /\ member_list \in Seq(Node)
      /\ item \in Item /\ reported \in [Item -> SUBSET Node]
  BY DEF CallbackEnds, callback, TableSound, TypeOK
<1>2. ToSet(member_list) = Done /\ Done \subseteq Node
  BY <1>1 DEF ToSet, Done
<1>3. PICK R \in [Item -> SUBSET Node] :
        /\ R = reported' /\ R[item] = Done
        /\ \A x \in Item : x # item => R[x] = reported[x]
  BY <1>1, <1>2
<1>4. \A x \in Item : Marked(x, R[x]) /\ Known(R[x])
  BY <1>1, <1>3 DEF MarksInv
<1>5. MarksInv'
  BY <1>1, <1>3, <1>4 DEF MarksInv, Marked, Known
<1>6. \A x \in Item : Seen(x)' = Up(x) /\ Up(x) \subseteq Node
  <2>1. \A x \in Item : Up(x) = {n \in R[x] : \E s \in Slot : nodes[s].nodeid = n}
    BY <1>4, LineIsView
  <2> QED
    BY <1>1, <1>3, <2>1 DEF Seen
<1>7. \A x \in Item : x # item => Seen(x)' = Seen(x)
  BY <1>1, <1>3 DEF Seen
<1>8. view' = M!ViewOf(Up("cpg"), Up("totem"))
  <2>1. /\ OneUp = BothUp <=> Up("cpg") = Up("totem")
        /\ OneUp = BothUp => Cardinality(BothUp) = Cardinality(Up("cpg"))
    BY <1>4, LineIsView
  <2>2. view' = [nodes |-> IF OneUp = BothUp THEN Cardinality(BothUp) ELSE M!NE,
                 cpg |-> Up("cpg"), totem |-> Up("totem")]
    BY DEF CallbackEnds, display_nodes_view
  <2>3. PICK n : n = IF OneUp = BothUp THEN Cardinality(BothUp) ELSE M!NE
    OBVIOUS
  <2>4. n = IF Up("cpg") = Up("totem") THEN Cardinality(Up("cpg")) ELSE M!NE
    BY <2>1, <2>3
  <2>5. view' = [nodes |-> n, cpg |-> Up("cpg"), totem |-> Up("totem")]
    BY <2>2, <2>3
  <2> QED
    BY <2>4, <2>5, SameView
<1>9. CASE item = "cpg"
  <2>1. M!Confchg(Up("cpg"))
    BY <1>6, <1>7, <1>8, <1>9 DEF M!Confchg, Item
  <2> QED
    BY <1>5, <1>6, <2>1 DEF M!Next, Item
<1>10. CASE item = "totem"
  <2>1. M!TotemConfchg(Up("totem"))
    BY <1>6, <1>7, <1>8, <1>10 DEF M!TotemConfchg, Item
  <2> QED
    BY <1>5, <1>6, <2>1 DEF M!Next, Item
<1> QED
  BY <1>1, <1>9, <1>10 DEF Item

(* Every other step changes none of the three things that MembershipView knows. *)
LEMMA ViewStep ==
  TableSound /\ MarksInv /\ [Next]_vars => MarksInv' /\ [M!Next]_(M!viewVars)
<1> SUFFICES ASSUME TableSound, MarksInv, [Next]_vars
             PROVE  MarksInv' /\ [M!Next]_(M!viewVars)
  OBVIOUS
<1>0. "cpg" \in Item /\ "totem" \in Item
  BY DEF Item
<1>1. CASE ConfchgCallback \/ TotemConfchgCallback
  <2>1. PICK it \in Item : Callback(it)
    BY <1>1 DEF ConfchgCallback, TotemConfchgCallback, Item
  <2>2. view' = view
    BY <2>1 DEF Callback
  <2> QED
    BY <1>0, <2>1, <2>2, CallbackMarks DEF M!viewVars
<1>2. CASE Member
  <2>1. view' = view
    BY <1>2 DEF Member
  <2> QED
    BY <1>0, <1>2, <2>1, MemberMarks DEF M!viewVars
<1>3. CASE CallbackEnds
  BY <1>3, EndReports
<1>4. CASE DispatchFails \/ UNCHANGED vars
  <2>1. /\ UNCHANGED <<nodes, callback, reported, view>>
        /\ pc = "members" => pc' = "members"
        /\ pc' = "members" => pc = "members"
    BY <1>4 DEF DispatchFails, vars
  <2>2. MarksInv'
    BY <2>1 DEF MarksInv, Marked, Known, Done, callback
  <2>3. UNCHANGED M!viewVars
    BY <2>1 DEF M!viewVars, Seen
  <2> QED
    BY <2>2, <2>3
<1> QED
  BY <1>1, <1>2, <1>3, <1>4 DEF Next

(* The process implements MembershipView: each VIEW line shows the two sets    *)
(* last reported, without the nodes that found the table full, and compares    *)
(* them rightly.                                                               *)
THEOREM ViewImplemented == Spec => ViewSpec
<1>1. Init => M!Init
  BY DEF Init, M!Init, Seen, Item
<1> QED
  BY SoundInit, SoundStep, MarksInit, ViewStep, <1>1, PTL DEF Spec, ViewSpec, M!Spec

------------------------------------------------------------------------------
(* The line is about the sets as they are, and those are finite. *)
LineInv ==
  /\ view = M!NoView \/ view = M!ViewOf(Seen("cpg"), Seen("totem"))
  /\ \A it \in Item : IsFiniteSet(reported[it])

LEMMA LineStep ==
  TableSound /\ MarksInv /\ LineInv /\ [Next]_vars => LineInv'
<1> SUFFICES ASSUME TableSound, MarksInv, LineInv, [Next]_vars
             PROVE  LineInv'
  OBVIOUS
<1>1. [M!Next]_(M!viewVars)
  BY ViewStep
<1>2. view' = M!NoView \/ view' = M!ViewOf(Seen("cpg"), Seen("totem"))'
  <2>1. CASE M!Next
    BY <2>1 DEF M!Next, M!Confchg, M!TotemConfchg, M!ViewOf, M!NE
  <2>2. CASE UNCHANGED M!viewVars
    BY <2>2 DEF M!viewVars, LineInv, M!ViewOf, M!NE
  <2> QED
    BY <1>1, <2>1, <2>2
<1>3. CASE CallbackEnds
  <2> DEFINE f == [j \in 1 .. Len(member_list) |-> member_list[j]]
  <2>0. ToSet(member_list) = {member_list[j] : j \in 1 .. Len(member_list)}
    BY DEF ToSet, TableSound, TypeOK
  <2>1. f \in Surjection(1 .. Len(member_list), ToSet(member_list))
    <3>1. f \in [1 .. Len(member_list) -> ToSet(member_list)]
      BY <2>0
    <3>2. \A m \in ToSet(member_list) : \E j \in 1 .. Len(member_list) : f[j] = m
      BY <2>0
    <3> HIDE DEF f
    <3> QED
      BY <3>1, <3>2 DEF Surjection
  <2>2. IsFiniteSet(1 .. Len(member_list))
    BY FS_Interval DEF TableSound, TypeOK
  <2> HIDE DEF f
  <2>3. IsFiniteSet(ToSet(member_list))
    BY <2>1, <2>2, FS_Surjection
  <2>4. \A it \in Item : reported'[it] \in {reported[it], ToSet(member_list)}
    BY <1>3 DEF CallbackEnds, TableSound, TypeOK
  <2> QED
    BY <1>2, <2>3, <2>4 DEF LineInv
<1>4. CASE ~CallbackEnds
  <2>1. reported' = reported
    BY <1>4 DEF Next, ConfchgCallback, TotemConfchgCallback, Callback, Member,
                DispatchFails, vars
  <2> QED
    BY <1>2, <2>1 DEF LineInv
<1> QED
  BY <1>3, <1>4

(* A node is left out only by a full table; NE stands for a real difference of  *)
(* the two reports, and a number counts no node that is not in both.            *)
THEOREM NothingIsInvented == Spec => []NothingInvented
<1>1. Init => LineInv
  BY FS_EmptySet DEF Init, LineInv
<1>2. TableSound /\ MarksInv /\ LineInv => NothingInvented
  <2> SUFFICES ASSUME TableSound, MarksInv, LineInv PROVE NothingInvented
    OBVIOUS
  <2>1. \A it \in Item : Seen(it) # reported[it] => SlotsOf(NoNode) = {}
    BY DEF MarksInv, Known, Seen, SlotsOf
  <2>2. ASSUME view # M!NoView
        PROVE  /\ view.nodes = M!NE => reported["cpg"] # reported["totem"]
               /\ view.nodes <= Cardinality(reported["cpg"] \cap reported["totem"])
    <3> DEFINE both == reported["cpg"] \cap reported["totem"]
    <3>1. view.nodes = IF Seen("cpg") = Seen("totem") THEN Cardinality(Seen("cpg")) ELSE M!NE
      <4>1. PICK c, t : c = Seen("cpg") /\ t = Seen("totem")
        OBVIOUS
      <4>2. view = M!ViewOf(c, t)
        BY <2>2, <4>1 DEF LineInv
      <4>3. view.nodes = IF c = t THEN Cardinality(c) ELSE M!NE
        BY <4>2, SameView
      <4> QED
        BY <4>1, <4>3
    <3>2. /\ IsFiniteSet(reported["cpg"])
          /\ Seen("cpg") \subseteq reported["cpg"] /\ Seen("totem") \subseteq reported["totem"]
      BY DEF LineInv, Seen, Item
    <3>3. IsFiniteSet(both) /\ IsFiniteSet(Seen("cpg"))
      BY <3>2, FS_Subset
    <3>4. Cardinality(both) \in Nat /\ Cardinality(Seen("cpg")) \in Nat
      BY <3>3, FS_CardinalityType
    <3>5. CASE Seen("cpg") = Seen("totem")
      <4>1. Seen("cpg") \subseteq both
        BY <3>2, <3>5
      <4>2. Cardinality(Seen("cpg")) <= Cardinality(both)
        BY <3>3, <4>1, FS_Subset
      <4> QED
        BY <3>1, <3>4, <3>5, <4>2 DEF M!NE
    <3>6. CASE Seen("cpg") # Seen("totem")
      <4>1. reported["cpg"] # reported["totem"]
        BY <3>6 DEF Seen
      <4> QED
        BY <3>1, <3>4, <3>6, <4>1 DEF M!NE
    <3> QED
      BY <3>5, <3>6
  <2> QED
    BY <2>1, <2>2 DEF NothingInvented
<1> QED
  BY SoundInit, SoundStep, MarksInit, ViewStep, LineStep, <1>1, <1>2, PTL DEF Spec
===============================================================================
