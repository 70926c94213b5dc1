------------------------------ MODULE MCSmokeRing ------------------------------
(* SmokeRing with the number of children the program has. *)
EXTENDS SmokeRing, TLC

MCProcess == Child
================================================================================
