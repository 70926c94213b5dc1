---------------------------- MODULE MembershipView ----------------------------
(***************************************************************************)
(* What apps/cpg-confchg.c promises: it knows which nodes are in its       *)
(* process group and which are in the totem ring, replaces either set as   *)
(* corosync reports it, and after every report prints a VIEW line: the     *)
(* number of nodes when the two sets agree, NE when they do not, and the   *)
(* two sets.                                                               *)
(***************************************************************************)
EXTENDS FiniteSets, Integers

CONSTANT Node

VARIABLES cpg,      (* the nodes of the group, as last reported *)
          totem,    (* the nodes of the ring, as last reported  *)
          view      (* the last VIEW line                       *)

viewVars == <<cpg, totem, view>>

NE == -1
NoView == [nodes |-> NE, cpg |-> {}, totem |-> {}]

ViewOf(c, t) ==
  [nodes |-> IF c = t THEN Cardinality(c) ELSE NE, cpg |-> c, totem |-> t]

Init == cpg = {} /\ totem = {} /\ view = NoView

Confchg(S) == cpg' = S /\ UNCHANGED totem /\ view' = ViewOf(cpg', totem')
TotemConfchg(S) == totem' = S /\ UNCHANGED cpg /\ view' = ViewOf(cpg', totem')

Next == \E S \in SUBSET Node : Confchg(S) \/ TotemConfchg(S)

Spec == Init /\ [][Next]_viewVars
===============================================================================
