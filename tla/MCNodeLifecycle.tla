---------------------------- MODULE MCNodeLifecycle ----------------------------
(* NodeLifecycle for model checking. *)
EXTENDS NodeLifecycle
===============================================================================
