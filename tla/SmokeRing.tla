------------------------------ MODULE SmokeRing ------------------------------
(***************************************************************************)
(* smoke/corosync-api-test-mp.c: NO_CHILDS children of one process join a  *)
(* CPG group and answer each other's messages in turn.  All of them draw   *)
(* the contents from the same random stream; a child checks what it        *)
(* receives against its own copy of the stream.                            *)
(*                                                                         *)
(* A message is one block of the stream (a length and that many bytes), so *)
(* a seed is the number of blocks drawn from it, and a content matches iff *)
(* it is the block the receiver draws.                                     *)
(*                                                                         *)
(* Operators whose name begins with Bad are mutated forms of the operator  *)
(* that follows; no specification uses them.                               *)
(***************************************************************************)
EXTENDS CpgGroup, FiniteSets

CONSTANTS NO_CHILDS,
          MESSAGES_TO_SENT,
          MaxSeq,        (* bound: messages above this number stay unordered *)
          MaxForkFails,  (* bound: how many calls of fork() fail             *)
          MaxFaults      (* bound: how many library calls fail for good      *)

Child == 0 .. NO_CHILDS - 1

ASSUME RingAssumption ==
  /\ NO_CHILDS \in Nat \ {0}
  /\ MESSAGES_TO_SENT \in Nat /\ MaxSeq \in Nat
  /\ MaxForkFails \in Nat /\ MaxFaults \in Nat
  /\ MESSAGES_TO_SENT < MaxSeq
  /\ Process = Child

VARIABLES
  pc,                     (* per child: where test_cpg() is                *)
  full_membership_seen,
  sent_rand_seed, received_rand_seed,
  expected_sender_id, expected_msg_seq_no,
  test_cpg_loop_cont,
  parent,                 (* "fork", "wait", "ok" or "aborted"             *)
  forked,                 (* i of the loop that forks                      *)
  reaped,                 (* children whose status the parent has          *)
  forkFails, faults       (* used up of MaxForkFails, MaxFaults            *)

received == <<received_rand_seed, expected_sender_id, expected_msg_seq_no,
              test_cpg_loop_cont>>
callback == <<full_membership_seen, sent_rand_seed, received>>
parentVars == <<parent, forked, reaped, forkFails>>
vars == <<cpgVars, pc, callback, parentVars, faults>>

Each(v) == [c \in Child |-> v]

Init ==
  /\ CpgInit
  /\ pc = Each("none")
  /\ full_membership_seen = Each(FALSE)
  /\ sent_rand_seed = Each(0) /\ received_rand_seed = Each(0)
  /\ expected_sender_id = Each(0) /\ expected_msg_seq_no = Each(0)
  /\ test_cpg_loop_cont = Each(TRUE)
  /\ parent = "fork" /\ forked = 0 /\ reaped = {}
  /\ forkFails = 0 /\ faults = 0

------------------------------------------------------------------------------
(* The child. *)

Goto(c, place) == pc' = [pc EXCEPT ![c] = place]

(* A failed assertion kills the child; the daemon sees its connection close *)
(* and takes it out of the group.                                           *)
Abort(c, why) ==
  /\ Goto(c, why)
  /\ Ask(c, LeaveRequest)
  /\ UNCHANGED callback

CanFail == faults < MaxFaults

(* Any call that still fails after the retries of cs_repeat (or at once,    *)
(* for cpg_mcast_joined) fails an assertion.                                *)
ApiFails(c) ==
  /\ pc[c] \in {"start", "poll", "dispatch", "leave"} /\ CanFail
  /\ faults' = faults + 1
  /\ Abort(c, "aborted")
  /\ UNCHANGED <<log, members, cursor, parentVars>>

(* cpg_model_initialize, cpg_join, cpg_local_get, cpg_fd_get. *)
Join(c) ==
  /\ pc[c] = "start"
  /\ Ask(c, JoinRequest)
  /\ Goto(c, "poll")
  /\ UNCHANGED <<log, members, cursor, callback, parentVars, faults>>

Poll(c) ==
  /\ pc[c] = "poll" /\ Readable(c)
  /\ Goto(c, "dispatch")
  /\ UNCHANGED <<cpgVars, callback, parentVars, faults>>

(* The message send_msg() builds: seq_no is what the sender expects next.    *)
send_msg(c, seq_no) ==
  /\ Ask(c, MsgRequest([sender_id |-> c, seq_no |-> seq_no,
                        block |-> sent_rand_seed[c]]))
  /\ sent_rand_seed' = [sent_rand_seed EXCEPT ![c] = @ + 1]

Bad_adjust_sent_rand_seed(c) == UNCHANGED <<sent_rand_seed, pend>>

adjust_sent_rand_seed(c) ==
  /\ sent_rand_seed' = [sent_rand_seed EXCEPT ![c] = @ + 1]
  /\ UNCHANGED pend

BadConfchgCallbackEarly(c, list) ==
  /\ IF ~full_membership_seen[c]
     THEN /\ IF c = 0 THEN send_msg(c, expected_msg_seq_no[c])
                      ELSE adjust_sent_rand_seed(c)
          /\ full_membership_seen' = [full_membership_seen EXCEPT ![c] = TRUE]
     ELSE UNCHANGED <<sent_rand_seed, pend, full_membership_seen>>
  /\ UNCHANGED <<pc, received>>

(* The first configuration with all the children starts the exchange. *)
ConfchgCallback(c, list) ==
  /\ IF ~full_membership_seen[c] /\ Cardinality(list) = NO_CHILDS
     THEN /\ IF c = 0 THEN send_msg(c, expected_msg_seq_no[c])
                      ELSE adjust_sent_rand_seed(c)
          /\ full_membership_seen' = [full_membership_seen EXCEPT ![c] = TRUE]
     ELSE UNCHANGED <<sent_rand_seed, pend, full_membership_seen>>
  /\ UNCHANGED <<pc, received>>

(* The assertions on a received message. *)
Expected(c, m) ==
  /\ m.sender_id = expected_sender_id[c]
  /\ m.seq_no = expected_msg_seq_no[c]
  /\ m.block = received_rand_seed[c]

BadDeliverCallbackSender(c, m) ==
  IF ~Expected(c, m) THEN Abort(c, "mismatch")
  ELSE
    /\ expected_sender_id' = [expected_sender_id EXCEPT ![c] = (@ + 1) % NO_CHILDS]
    /\ expected_msg_seq_no' = [expected_msg_seq_no EXCEPT ![c] = @ + 1]
    /\ received_rand_seed' = [received_rand_seed EXCEPT ![c] = @ + 1]
    /\ UNCHANGED test_cpg_loop_cont
    /\ IF expected_sender_id[c] = c
       THEN send_msg(c, expected_msg_seq_no'[c])
       ELSE adjust_sent_rand_seed(c)
    /\ UNCHANGED <<pc, full_membership_seen>>

(* The limit only stops the loop around cpg_dispatch: a child whose turn it  *)
(* is still sends, and the events already queued are still dispatched.       *)
DeliverCallback(c, m) ==
  IF ~Expected(c, m) THEN Abort(c, "mismatch")
  ELSE
    /\ expected_sender_id' = [expected_sender_id EXCEPT ![c] = (@ + 1) % NO_CHILDS]
    /\ expected_msg_seq_no' = [expected_msg_seq_no EXCEPT ![c] = @ + 1]
    /\ received_rand_seed' = [received_rand_seed EXCEPT ![c] = @ + 1]
    /\ test_cpg_loop_cont' = [test_cpg_loop_cont EXCEPT ![c] =
                                @ /\ expected_msg_seq_no'[c] <= MESSAGES_TO_SENT]
    /\ IF expected_sender_id'[c] = c
       THEN send_msg(c, expected_msg_seq_no'[c])
       ELSE adjust_sent_rand_seed(c)
    /\ UNCHANGED <<pc, full_membership_seen>>

Dispatch(c) ==
  /\ pc[c] = "dispatch" /\ Readable(c)
  /\ Advance(c)
  /\ IF NextEvent(c).type = "confchg" THEN ConfchgCallback(c, NextEvent(c).members)
                                      ELSE DeliverCallback(c, NextEvent(c).msg)
  /\ UNCHANGED <<log, members, parentVars, faults>>

(* cpg_dispatch(CS_DISPATCH_ALL) returns when it finds the queue empty. *)
DispatchEnds(c) ==
  /\ pc[c] = "dispatch" /\ ~Readable(c)
  /\ Goto(c, IF test_cpg_loop_cont[c] THEN "poll" ELSE "leave")
  /\ UNCHANGED <<cpgVars, callback, parentVars, faults>>

(* cpg_leave, cpg_finalize and the end of the child with status 0. *)
Leave(c) ==
  /\ pc[c] = "leave"
  /\ Ask(c, LeaveRequest)
  /\ Goto(c, "exited")
  /\ UNCHANGED <<log, members, cursor, callback, parentVars, faults>>

ChildStep(c) == Join(c) \/ Poll(c) \/ Dispatch(c) \/ DispatchEnds(c) \/ Leave(c)

------------------------------------------------------------------------------
(* The parent. *)

ForkChild ==
  /\ parent = "fork" /\ forked < NO_CHILDS
  /\ Goto(forked, "start")
  /\ forked' = forked + 1
  /\ UNCHANGED <<cpgVars, callback, parent, reaped, forkFails, faults>>

(* The error is printed and the loop goes on with one child less. *)
ForkFails ==
  /\ parent = "fork" /\ forked < NO_CHILDS /\ forkFails < MaxForkFails
  /\ forked' = forked + 1
  /\ forkFails' = forkFails + 1
  /\ UNCHANGED <<cpgVars, pc, callback, parent, reaped, faults>>

AllForked ==
  /\ parent = "fork" /\ forked = NO_CHILDS
  /\ parent' = "wait"
  /\ UNCHANGED <<cpgVars, pc, callback, forked, reaped, forkFails, faults>>

Ended(c) == pc[c] \in {"exited", "aborted", "mismatch"}

BadWaitChild(c) ==
  /\ parent = "wait" /\ Ended(c) /\ c \notin reaped
  /\ reaped' = reaped \cup {c}
  /\ parent' = IF Cardinality(reaped') = NO_CHILDS THEN "ok" ELSE "wait"
  /\ UNCHANGED <<cpgVars, pc, callback, forked, forkFails, faults>>

(* wait() returns a child; the parent asserts that it exited with 0, and     *)
(* returns 0 itself after NO_CHILDS rounds.                                  *)
WaitChild(c) ==
  /\ parent = "wait" /\ Ended(c) /\ c \notin reaped
  /\ reaped' = reaped \cup {c}
  /\ parent' = IF pc[c] # "exited" THEN "aborted"
               ELSE IF Cardinality(reaped') = NO_CHILDS THEN "ok" ELSE "wait"
  /\ UNCHANGED <<cpgVars, pc, callback, forked, forkFails, faults>>

(* No child is left although fewer than NO_CHILDS were waited for: wait()    *)
(* fails, the error is printed and the assertions read the status of the     *)
(* round before, or an uninitialized one.                                    *)
WaitFails ==
  /\ parent = "wait"
  /\ reaped = {c \in Child : pc[c] # "none"}
  /\ parent' \in IF reaped = {} THEN {"ok", "aborted"} ELSE {"ok"}
  /\ UNCHANGED <<cpgVars, pc, callback, forked, reaped, forkFails, faults>>

ParentStep == ForkChild \/ AllForked \/ WaitFails \/ \E c \in Child : WaitChild(c)

(* The daemon. *)
DaemonOrders(c) ==
  /\ pend[c] # <<>>
  /\ Head(pend[c]).type = "msg" => Head(pend[c]).msg.seq_no <= MaxSeq
  /\ Order(c)
  /\ UNCHANGED <<pc, callback, parentVars, faults>>

Next ==
  \/ ParentStep \/ ForkFails
  \/ \E c \in Child : ChildStep(c) \/ ApiFails(c) \/ DaemonOrders(c)

(* The processes are scheduled, and the daemon orders what it is asked to. *)
Fairness ==
  /\ WF_vars(ParentStep)
  /\ \A c \in Child : WF_vars(ChildStep(c)) /\ WF_vars(DaemonOrders(c))

Spec == Init /\ [][Next]_vars
FairSpec == Spec /\ Fairness

------------------------------------------------------------------------------
Message == [sender_id : Child, seq_no : Nat, block : Nat]
Event == [type : {"confchg"}, members : SUBSET Child] \cup [type : {"msg"}, msg : Message]
Request == {JoinRequest, LeaveRequest} \cup [type : {"msg"}, msg : Message]

TypeOK ==
  /\ log \in Seq(Event)
  /\ pend \in [Child -> Seq(Request)]
  /\ members \in SUBSET Child
  /\ \A c \in Child : cursor[c] \in -1 .. Len(log)
  /\ pc \in [Child -> {"none", "start", "poll", "dispatch", "leave", "exited",
                       "aborted", "mismatch"}]
  /\ full_membership_seen \in [Child -> BOOLEAN]
  /\ test_cpg_loop_cont \in [Child -> BOOLEAN]
  /\ sent_rand_seed \in [Child -> Nat] /\ received_rand_seed \in [Child -> Nat]
  /\ expected_sender_id \in [Child -> Child]
  /\ expected_msg_seq_no \in [Child -> Nat]
  /\ parent \in {"fork", "wait", "ok", "aborted"}
  /\ forked \in 0 .. NO_CHILDS
  /\ reaped \in SUBSET Child
  /\ forkFails \in 0 .. MaxForkFails /\ faults \in 0 .. MaxFaults

(* "both rand seeds must be in sync": after the exchange has started, a      *)
(* child has drawn exactly one block more for sending than for receiving,    *)
(* and before that none of either; so no assertion of DeliverCallback on the *)
(* sender, the number or the content of a message ever fails, also when      *)
(* other children die.  (The types are part of the invariant.)               *)
SeedsInSync ==
  /\ TypeOK
  /\ \A c \in Child :
       /\ pc[c] # "mismatch"
       /\ pc[c] # "aborted" =>
            sent_rand_seed[c] = received_rand_seed[c] + IF full_membership_seen[c] THEN 1 ELSE 0

(* The parent returns 0 only if every child it started has run to its end    *)
(* and has received more than MESSAGES_TO_SENT messages.                     *)
SuccessMeansDone ==
  parent = "ok" =>
    \A c \in Child : pc[c] # "none" =>
      pc[c] = "exited" /\ expected_msg_seq_no[c] > MESSAGES_TO_SENT

(* If no call fails, the exchange ends for every child and the parent        *)
(* returns 0; if library calls fail but every fork succeeds, the parent      *)
(* still ends.                                                               *)
AllExit ==
  /\ <>(faults + forkFails > 0 \/ (parent = "ok" /\ \A c \in Child : pc[c] = "exited"))
  /\ <>(forkFails > 0 \/ parent \in {"ok", "aborted"})

------------------------------------------------------------------------------
(* The exchange the header of the file describes: the messages sent so far  *)
(* are those in the log and those the daemon has not ordered yet.           *)
MsgNumbers(s) == {s[i].msg.seq_no : i \in {k \in 1 .. Len(s) : s[k].type = "msg"}}
MessageSeqs == MsgNumbers(log) \cup UNION {MsgNumbers(pend[c]) : c \in Child}

Ring == INSTANCE RoundRobin WITH sent <- Cardinality(MessageSeqs),
                                 received <- expected_msg_seq_no

(* The children implement it. *)
RingSpec == Ring!Spec
==============================================================================
