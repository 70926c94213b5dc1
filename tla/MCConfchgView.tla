---------------------------- MODULE MCConfchgView ----------------------------
(* ConfchgView for model checking; the node ids are interchangeable. *)
EXTENDS ConfchgView, TLC

NodeIds == Permutations(Node)
==============================================================================
