------------------------------- MODULE CpgGroup -------------------------------
(***************************************************************************)
(* One closed process group of corosync, as the programs of src/ use it    *)
(* through libcpg.  corosync itself is not part of the repository.         *)
(*                                                                         *)
(* What a member asks for (cpg_join, cpg_mcast_joined, cpg_leave) is put   *)
(* into its queue of requests and takes effect later, when the daemon      *)
(* orders it: all members then see it at the same place of one log.  Each  *)
(* process reads the log from its own join on, at its own pace.            *)
(***************************************************************************)
EXTENDS Integers, Sequences

CONSTANT Process          (* the processes that may join the group *)

VARIABLES log,            (* what the daemon has ordered so far            *)
          pend,           (* per process: its requests not ordered yet     *)
          members,        (* the processes in the group, as ordered        *)
          cursor          (* per process: entries of the log it has read;  *)
                          (* -1 before its own join is ordered             *)

cpgVars == <<log, pend, members, cursor>>

JoinRequest == [type |-> "join"]
LeaveRequest == [type |-> "leave"]
MsgRequest(m) == [type |-> "msg", msg |-> m]
Confchg(S) == [type |-> "confchg", members |-> S]

CpgInit ==
  /\ log = <<>>
  /\ pend = [p \in Process |-> <<>>]
  /\ members = {}
  /\ cursor = [p \in Process |-> -1]

(* A call of the library: the request is queued and the call returns. *)
Ask(p, request) == pend' = [pend EXCEPT ![p] = Append(@, request)]

(* The daemon orders the oldest request of p.  A join or a leave becomes a  *)
(* configuration change that carries the new list of members.               *)
Order(p) ==
  /\ pend[p] # <<>>
  /\ pend' = [pend EXCEPT ![p] = Tail(@)]
  /\ LET request == Head(pend[p])
     IN  CASE request.type = "join" ->
                /\ members' = members \cup {p}
                /\ cursor' = [cursor EXCEPT ![p] = Len(log)]
                /\ log' = Append(log, Confchg(members'))
           [] request.type = "leave" ->
                /\ members' = members \ {p}
                /\ log' = Append(log, Confchg(members'))
                /\ UNCHANGED cursor
           [] request.type = "msg" ->
                /\ log' = Append(log, request)
                /\ UNCHANGED <<members, cursor>>

(* There is something for p to dispatch, and what it is. *)
Readable(p) == cursor[p] \in 0 .. Len(log) - 1
NextEvent(p) == log[cursor[p] + 1]

(* p dispatches it. *)
Advance(p) == cursor' = [cursor EXCEPT ![p] = @ + 1]
===============================================================================
