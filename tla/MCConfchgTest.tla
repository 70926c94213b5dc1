----------------------------- MODULE MCConfchgTest -----------------------------
(* ConfchgTest for model checking. *)
EXTENDS ConfchgTest
================================================================================
