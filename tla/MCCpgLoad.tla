------------------------------- MODULE MCCpgLoad -------------------------------
(* CpgLoad with one process started with -m and one without. *)
EXTENDS CpgLoad

MCMaxMsgs == [p \in Process |-> IF p = 1 THEN 3 ELSE NoLimit]
MCMaxSent == [p \in Process |-> IF p = 1 THEN 3 ELSE 2]
================================================================================
