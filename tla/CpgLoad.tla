------------------------------- MODULE CpgLoad -------------------------------
(***************************************************************************)
(* apps/cpg-load.c: each process joins the group CPGLOAD, sends bursts of  *)
(* numbered messages and checks that its own come back in order and that   *)
(* everybody's come back undamaged.  A new burst starts only when all the  *)
(* messages of the one before have come back.                              *)
(*                                                                         *)
(* The programs exist to find faults of corosync, so corosync may lose,    *)
(* repeat or damage what it delivers here.                                 *)
(*                                                                         *)
(* Operators whose name begins with Bad are mutated forms of the operator  *)
(* that follows; no specification uses them.                               *)
(***************************************************************************)
EXTENDS CpgGroup, FiniteSets

CONSTANTS num,            (* -n: messages in one burst                     *)
          max_msgs,       (* -m, per process: messages to send and receive, *)
                          (* or NoLimit where it is not given              *)
          MaxSent,        (* bound, per process: messages it can send      *)
          MaxTryAgain,    (* bound: CS_ERR_TRY_AGAIN answers             *)
          MaxFaults       (* bound: messages lost, repeated or damaged and *)
                          (* failing calls                                 *)

NoLimit == -1

ASSUME LoadAssumption ==
  /\ num \in Nat \ {0}
  /\ max_msgs \in [Process -> {NoLimit} \cup (Nat \ {0})]
  /\ MaxSent \in [Process -> Nat] /\ MaxTryAgain \in Nat
  /\ MaxFaults \in Nat

VARIABLES
  pc,              (* per process: where main() is, or how it ended        *)
  last_msg,        (* number of the next message to send                   *)
  last_expected,   (* number of the next own message to come back          *)
  i,               (* attempts of send_msgs in the current burst           *)
  result,          (* what poll returned: 1, 0 or -1                       *)
  echoed,          (* history: the own messages that came back             *)
  tryAgain, faults (* used up of the bounds                                *)

loop == <<last_msg, last_expected, i, result>>
environment == <<tryAgain, faults>>
vars == <<cpgVars, pc, loop, echoed, environment>>

Each(v) == [p \in Process |-> v]

Init ==
  /\ CpgInit
  /\ pc = Each("join")
  /\ last_msg = Each(0) /\ last_expected = Each(0)
  /\ i = Each(0) /\ result = Each(0)
  /\ echoed = Each(<<>>)
  /\ tryAgain = 0 /\ faults = 0

Fault == faults < MaxFaults /\ faults' = faults + 1

Goto(p, place) == pc' = [pc EXCEPT ![p] = place]

(* "x >= max_msgs" as C evaluates it: without -m the right side is the       *)
(* largest unsigned number, and the comparison fails.                        *)
ReachedMax(p, x) == max_msgs[p] # NoLimit /\ x >= max_msgs[p]

------------------------------------------------------------------------------
Join(p) ==
  /\ pc[p] = "join"
  /\ Ask(p, JoinRequest)
  /\ Goto(p, "loop")
  /\ UNCHANGED <<log, members, cursor, loop, echoed, environment>>

StartupFails(p) ==
  /\ pc[p] = "join" /\ Fault
  /\ Goto(p, "startup_error")
  /\ UNCHANGED <<cpgVars, loop, echoed, tryAgain>>

BadDecideEager(p) ==
  IF ReachedMax(p, last_expected[p])
  THEN Goto(p, "success") /\ UNCHANGED i
  ELSE Goto(p, "send") /\ i' = [i EXCEPT ![p] = 0]

(* After poll(): leave if everything has come back, start a burst if all     *)
(* that was sent has come back.                                              *)
Decide(p) ==
  IF ReachedMax(p, last_expected[p])
  THEN Goto(p, "success") /\ UNCHANGED i
  ELSE IF last_expected[p] = last_msg[p]
       THEN Goto(p, "send") /\ i' = [i EXCEPT ![p] = 0]
       ELSE Goto(p, "dispatch") /\ UNCHANGED i

Poll(p) ==
  /\ pc[p] = "loop"
  /\ result' = [result EXCEPT ![p] = IF Readable(p) THEN 1 ELSE 0]
  /\ Decide(p)
  /\ UNCHANGED <<cpgVars, last_msg, last_expected, echoed, environment>>

PollFails(p) ==
  /\ pc[p] = "loop" /\ Fault
  /\ result' = [result EXCEPT ![p] = -1]
  /\ Decide(p)
  /\ UNCHANGED <<cpgVars, last_msg, last_expected, echoed, tryAgain>>

Message(p) == [sender |-> p, seq_no |-> last_msg[p]]

(* One round of send_msgs whose cpg_mcast_joined succeeds. *)
SendMsg(p) ==
  /\ pc[p] = "send" /\ i[p] < num /\ last_msg[p] < MaxSent[p]
  /\ Ask(p, MsgRequest(Message(p)))
  /\ last_msg' = [last_msg EXCEPT ![p] = @ + 1]
  /\ i' = [i EXCEPT ![p] = @ + 1]
  /\ IF ReachedMax(p, last_msg'[p]) THEN Goto(p, "dispatch") ELSE UNCHANGED pc
  /\ UNCHANGED <<log, members, cursor, last_expected, result, echoed, environment>>

BadSendRefused(p) ==
  /\ pc[p] = "send" /\ i[p] < num /\ tryAgain < MaxTryAgain
  /\ i' = [i EXCEPT ![p] = @ + 1]
  /\ last_msg' = [last_msg EXCEPT ![p] = @ + 1]
  /\ tryAgain' = tryAgain + 1
  /\ UNCHANGED <<cpgVars, pc, last_expected, result, echoed, faults>>

(* One round that is refused: the message keeps its number, the attempt is   *)
(* used up.                                                                  *)
SendRefused(p) ==
  /\ pc[p] = "send" /\ i[p] < num /\ tryAgain < MaxTryAgain
  /\ i' = [i EXCEPT ![p] = @ + 1]
  /\ tryAgain' = tryAgain + 1
  /\ UNCHANGED <<cpgVars, pc, last_msg, last_expected, result, echoed,
                 faults>>

BurstEnds(p) ==
  /\ pc[p] = "send" /\ i[p] = num
  /\ Goto(p, "dispatch")
  /\ UNCHANGED <<cpgVars, loop, echoed, environment>>

(* The end of a round of the main loop without a dispatch. *)
NoDispatch(p) ==
  /\ pc[p] = "dispatch" /\ result[p] # 1
  /\ Goto(p, IF result[p] = -1 THEN "poll_error" ELSE "loop")
  /\ UNCHANGED <<cpgVars, loop, echoed, environment>>

(* A wrong message ends the process with -m; without, it is only reported.   *)
WrongMessage(p) == Goto(p, IF max_msgs[p] # NoLimit THEN "bad_message" ELSE "dispatching")

BadDeliverCallback(p, m) ==
  IF m.sender # p
  THEN Goto(p, "dispatching") /\ UNCHANGED <<last_expected, echoed>>
  ELSE /\ echoed' = [echoed EXCEPT ![p] = Append(@, m.seq_no)]
       /\ IF last_expected[p] <= m.seq_no
          THEN /\ last_expected' = [last_expected EXCEPT ![p] = m.seq_no + 1]
               /\ Goto(p, "dispatching")
          ELSE UNCHANGED last_expected /\ WrongMessage(p)

(* DeliverCallback on a message that came back undamaged. *)
DeliverCallback(p, m) ==
  IF m.sender # p
  THEN Goto(p, "dispatching") /\ UNCHANGED <<last_expected, echoed>>
  ELSE /\ echoed' = [echoed EXCEPT ![p] = Append(@, m.seq_no)]
       /\ IF last_expected[p] = m.seq_no
          THEN /\ last_expected' = [last_expected EXCEPT ![p] = @ + 1]
               /\ Goto(p, "dispatching")
          ELSE UNCHANGED last_expected /\ WrongMessage(p)

InDispatch(p) == pc[p] = "dispatching" \/ (pc[p] = "dispatch" /\ result[p] = 1)

Handle(p, event) ==
  IF event.type = "msg" THEN DeliverCallback(p, event.msg)
  ELSE Goto(p, "dispatching") /\ UNCHANGED <<last_expected, echoed>>

Dispatch(p) ==
  /\ InDispatch(p) /\ Readable(p)
  /\ Advance(p)
  /\ Handle(p, NextEvent(p))
  /\ UNCHANGED <<log, pend, members, last_msg, i, result, environment>>

(* cpg_dispatch returns CS_OK when it finds the queue empty, which can be    *)
(* before this node has received all that was ordered.                       *)
DispatchEnds(p) ==
  /\ InDispatch(p)
  /\ pc[p] = "dispatching" \/ ~Readable(p)
  /\ Goto(p, "loop")
  /\ UNCHANGED <<cpgVars, loop, echoed, environment>>

(* CS_ERR_TRY_AGAIN is ignored. *)
DispatchRefused(p) ==
  /\ InDispatch(p) /\ tryAgain < MaxTryAgain
  /\ tryAgain' = tryAgain + 1
  /\ Goto(p, "loop")
  /\ UNCHANGED <<cpgVars, loop, echoed, faults>>

DispatchFails(p) ==
  /\ InDispatch(p) /\ Fault
  /\ \E how \in {"library_error", "dispatch_error"} : Goto(p, how)
  /\ UNCHANGED <<cpgVars, loop, echoed, tryAgain>>

------------------------------------------------------------------------------
(* The faults of corosync the programs look for. *)

(* The message delivered last is delivered once more. *)
DispatchRepeated(p) ==
  /\ pc[p] = "dispatching" /\ Fault
  /\ log[cursor[p]].type = "msg"
  /\ Handle(p, log[cursor[p]])
  /\ UNCHANGED <<cpgVars, last_msg, i, result, tryAgain>>

(* A message is not delivered at all. *)
Lose(p) ==
  /\ Readable(p) /\ NextEvent(p).type = "msg" /\ Fault
  /\ Advance(p)
  /\ UNCHANGED <<log, pend, members, pc, loop, echoed, tryAgain>>

(* A message arrives, but with a wrong length or a wrong checksum. *)
DispatchDamaged(p) ==
  /\ InDispatch(p) /\ Readable(p) /\ NextEvent(p).type = "msg" /\ Fault
  /\ Advance(p)
  /\ IF NextEvent(p).msg.sender = p /\ last_expected[p] = NextEvent(p).msg.seq_no
     THEN /\ last_expected' = [last_expected EXCEPT ![p] = @ + 1]
          /\ echoed' = [echoed EXCEPT ![p] = Append(@, NextEvent(p).msg.seq_no)]
     ELSE UNCHANGED <<last_expected, echoed>>
  /\ WrongMessage(p)
  /\ UNCHANGED <<log, pend, members, last_msg, i, result, tryAgain>>

MainStep(p) ==
  \/ Join(p) \/ Poll(p) \/ SendMsg(p) \/ BurstEnds(p)
  \/ NoDispatch(p) \/ Dispatch(p) \/ DispatchEnds(p)

Trouble(p) ==
  \/ StartupFails(p) \/ PollFails(p) \/ SendRefused(p) \/ DispatchRefused(p)
  \/ DispatchFails(p) \/ DispatchRepeated(p) \/ Lose(p) \/ DispatchDamaged(p)

DaemonOrders(p) ==
  /\ Order(p)
  /\ UNCHANGED <<pc, loop, echoed, environment>>

Next == \E p \in Process : MainStep(p) \/ Trouble(p) \/ DaemonOrders(p)

(* Processes run and the daemon orders requests; nothing else must happen.   *)
Fairness == \A p \in Process : WF_vars(MainStep(p)) /\ WF_vars(DaemonOrders(p))

Spec == Init /\ [][Next]_vars
FairSpec == Spec /\ Fairness

------------------------------------------------------------------------------
Places == {"join", "loop", "send", "dispatch", "dispatching", "success", "poll_error",
           "library_error", "dispatch_error", "startup_error", "bad_message"}

TypeOK ==
  /\ pc \in [Process -> Places]
  /\ \A p \in Process :
       /\ last_msg[p] \in 0 .. MaxSent[p]
       /\ last_expected[p] \in 0 .. last_msg[p]
       /\ i[p] \in 0 .. num
       /\ result[p] \in {-1, 0, 1}
       /\ cursor[p] \in -1 .. Len(log)

(* The process ends in success only if each of its max_msgs messages came    *)
(* back exactly once and in order, whatever corosync lost, repeated or       *)
(* damaged.                                                                  *)
SuccessSound ==
  \A p \in Process :
    pc[p] = "success" => echoed[p] = [k \in 1 .. max_msgs[p] |-> k - 1]

Own(p) == {k \in 1 .. Len(log) : log[k].type = "msg" /\ log[k].msg.sender = p}
Unread(p) == {k \in Own(p) : k > cursor[p]}
Waiting(p) == {k \in 1 .. Len(pend[p]) : pend[p][k].type = "msg"}

(* A process never has more than one burst under way, and with -m it never   *)
(* sends a message too many.  (The types are part of the invariant.)         *)
FlowControl ==
  /\ TypeOK
  /\ \A p \in Process :
    /\ Cardinality(Unread(p)) + Cardinality(Waiting(p)) <= num
    /\ max_msgs[p] # NoLimit => Cardinality(Own(p)) + Cardinality(Waiting(p)) <= max_msgs[p]

(* If corosync neither fails nor loses anything, every process with -m ends  *)
(* in success, refused messages or not.                                      *)
AllSucceed ==
  \A p \in Process :
    max_msgs[p] # NoLimit => <>(faults > 0 \/ pc[p] = "success")

==============================================================================
