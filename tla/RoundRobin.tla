------------------------------ MODULE RoundRobin ------------------------------
(***************************************************************************)
(* What ConfchgCallback and DeliverCallback of corosync-api-test-mp.c      *)
(* amount to, seen from outside: messages 0, 1, 2, ... are sent in turn by *)
(* the children 0, 1, ..., NO_CHILDS - 1, 0, ..., each message as the      *)
(* answer to the one before, and every child receives all of them in that  *)
(* order.                                                                  *)
(***************************************************************************)
EXTENDS Integers

CONSTANT NO_CHILDS

Child == 0 .. NO_CHILDS - 1

VARIABLES sent,      (* how many messages have been sent              *)
          received   (* per child: how many messages it has received  *)

vars == <<sent, received>>

Init == sent = 0 /\ received = [c \in Child |-> 0]

(* Message 0 is sent by child 0, unasked. *)
FirstMessage == sent = 0 /\ sent' = 1 /\ UNCHANGED received

(* A child receives the next message it has not seen; the child whose turn  *)
(* is next answers it at once.                                              *)
Receive(c) ==
  /\ received[c] < sent
  /\ received' = [received EXCEPT ![c] = @ + 1]
  /\ IF received'[c] % NO_CHILDS = c
     THEN received'[c] = sent /\ sent' = sent + 1
     ELSE UNCHANGED sent

Next == FirstMessage \/ \E c \in Child : Receive(c)

Spec == Init /\ [][Next]_vars
===============================================================================
