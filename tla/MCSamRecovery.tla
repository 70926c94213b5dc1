---------------------------- MODULE MCSamRecovery ----------------------------
(* SamRecovery with the instances and counts the programs have.              *)
EXTENDS SamRecovery

ASSUME AsInTheCode == Crashes = 99 /\ LastCheck = 11
===============================================================================
