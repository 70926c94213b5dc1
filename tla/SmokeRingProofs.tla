--------------------------- MODULE SmokeRingProofs ---------------------------
(***************************************************************************)
(* Theorems about the ring of corosync-api-test-mp.c, for any number of    *)
(* children, any limit and any bound on failures.                          *)
(***************************************************************************)
EXTENDS SmokeRing, FiniteSetTheorems, SequenceTheorems, TLAPS

------------------------------------------------------------------------------
(***************************************************************************)
(* Arithmetic of turns.                                                    *)
(***************************************************************************)

LEMMA ModUnique ==
  ASSUME NEW n \in Nat \ {0}, NEW q \in Int, NEW r \in 0 .. n - 1
  PROVE  ((n * q) + r) % n = r
OBVIOUS

(* The turn after x % n is (x + 1) % n. *)
LEMMA ModNext ==
  ASSUME NEW n \in Nat \ {0}, NEW x \in Nat
  PROVE  ((x % n) + 1) % n = (x + 1) % n
<1> DEFINE q == x \div n
           r == x % n
<1>1. x = (n * q) + r /\ q \in Int /\ r \in 0 .. n - 1
  OBVIOUS
<1> HIDE DEF q, r
<1>2. CASE r + 1 < n
  <2>1. ((n * q) + (r + 1)) % n = r + 1
    BY <1>1, <1>2, ModUnique
  <2>2. ((n * 0) + (r + 1)) % n = r + 1
    BY <1>1, <1>2, ModUnique
  <2>3. x + 1 = (n * q) + (r + 1) /\ r + 1 = (n * 0) + (r + 1)
    BY <1>1
  <2>4. (x + 1) % n = r + 1 /\ (r + 1) % n = r + 1
    BY <2>1, <2>2, <2>3
  <2>5. QED
    BY <2>4 DEF r
<1>3. CASE r + 1 = n
  <2>1. ((n * (q + 1)) + 0) % n = 0
    BY <1>1, ModUnique
  <2>2. ((n * 1) + 0) % n = 0
    BY <1>1, ModUnique
  <2>3. x + 1 = (n * (q + 1)) + 0 /\ r + 1 = (n * 1) + 0
    BY <1>1, <1>3
  <2>4. (x + 1) % n = 0 /\ (r + 1) % n = 0
    BY <2>1, <2>2, <2>3
  <2>5. QED
    BY <2>4 DEF r
<1>4. QED
  BY <1>1, <1>2, <1>3

LEMMA TurnIsChild ==
  ASSUME NEW x \in Nat
  PROVE  x % NO_CHILDS \in Child /\ 0 \in Child /\ 0 % NO_CHILDS = 0
BY RingAssumption DEF Child

(* The configuration with NO_CHILDS members is the one with all children. *)
LEMMA FullIsAll ==
  ASSUME NEW S \in SUBSET Child, Cardinality(S) = NO_CHILDS
  PROVE  S = Child
<1>1. IsFiniteSet(Child) /\ Cardinality(Child) = NO_CHILDS
  <2>1. 0 \in Int /\ NO_CHILDS - 1 \in Int /\ ~(0 > NO_CHILDS - 1)
    BY RingAssumption
  <2>2. QED
    BY <2>1, FS_Interval, RingAssumption DEF Child
<1>2. QED
  BY <1>1, FS_Subset

------------------------------------------------------------------------------
(***************************************************************************)
(* Types.                                                                  *)
(***************************************************************************)

Typed == TypeOK /\ cursor \in [Child -> Int]

LEMMA ShapesOfEvents ==
  /\ \A S \in SUBSET Child : /\ Confchg(S) \in Event
                             /\ Confchg(S).type = "confchg" /\ Confchg(S).members = S
  /\ \A m \in Message : /\ MsgRequest(m) \in Event /\ MsgRequest(m) \in Request
                        /\ MsgRequest(m).type = "msg" /\ MsgRequest(m).msg = m
  /\ JoinRequest \in Request /\ JoinRequest.type = "join"
  /\ LeaveRequest \in Request /\ LeaveRequest.type = "leave"
<1>1. \A S \in SUBSET Child : /\ Confchg(S) \in Event
                              /\ Confchg(S).type = "confchg" /\ Confchg(S).members = S
  BY DEF Event, Confchg
<1>2. \A m \in Message : /\ MsgRequest(m) \in Event /\ MsgRequest(m) \in Request
                         /\ MsgRequest(m).type = "msg" /\ MsgRequest(m).msg = m
  BY DEF Event, Request, MsgRequest
<1>3. /\ JoinRequest \in Request /\ JoinRequest.type = "join"
      /\ LeaveRequest \in Request /\ LeaveRequest.type = "leave"
  BY DEF Request, JoinRequest, LeaveRequest
<1>4. QED
  BY <1>1, <1>2, <1>3

LEMMA KindsOfEvents ==
  /\ \A e \in Event : \/ e.type = "confchg" /\ e.members \in SUBSET Child /\ e = Confchg(e.members)
                      \/ e.type = "msg" /\ e.msg \in Message /\ e = MsgRequest(e.msg)
  /\ \A r \in Request : \/ r = JoinRequest
                        \/ r = LeaveRequest
                        \/ r.type = "msg" /\ r.msg \in Message /\ r = MsgRequest(r.msg)
<1>1. \A e \in Event : \/ e.type = "confchg" /\ e.members \in SUBSET Child /\ e = Confchg(e.members)
                       \/ e.type = "msg" /\ e.msg \in Message /\ e = MsgRequest(e.msg)
  BY DEF Event, Confchg, MsgRequest
<1>2. \A r \in Request : \/ r = JoinRequest
                         \/ r = LeaveRequest
                         \/ r.type = "msg" /\ r.msg \in Message /\ r = MsgRequest(r.msg)
  BY DEF Request, JoinRequest, LeaveRequest, MsgRequest
<1>3. QED
  BY <1>1, <1>2

LEMMA LogAppend ==
  ASSUME NEW s \in Seq(Event), NEW e \in Event
  PROVE  /\ Append(s, e) \in Seq(Event)
         /\ Len(Append(s, e)) = Len(s) + 1
         /\ Len(s) \in Nat
         /\ Append(s, e)[Len(s) + 1] = e
         /\ \A k \in 1 .. Len(s) : Append(s, e)[k] = s[k] /\ s[k] \in Event
OBVIOUS

LEMMA QueueAppend ==
  ASSUME NEW s \in Seq(Request), NEW e \in Request
  PROVE  /\ Append(s, e) \in Seq(Request)
         /\ Len(Append(s, e)) = Len(s) + 1
         /\ Len(s) \in Nat
         /\ Append(s, e)[Len(s) + 1] = e
         /\ \A k \in 1 .. Len(s) : Append(s, e)[k] = s[k] /\ s[k] \in Request
         /\ Append(s, e) # <<>>
         /\ s = <<>> <=> Len(s) = 0
OBVIOUS

LEMMA QueueTail ==
  ASSUME NEW s \in Seq(Request), s # <<>>
  PROVE  /\ Tail(s) \in Seq(Request)
         /\ Len(Tail(s)) = Len(s) - 1
         /\ Len(s) \in Nat \ {0}
         /\ Head(s) = s[1] /\ Head(s) \in Request
         /\ \A k \in 1 .. Len(s) - 1 : Tail(s)[k] = s[k + 1]
         /\ Tail(s) # <<>> <=> Len(s) > 1
<1>1. Tail(s) \in Seq(Request) /\ Len(Tail(s)) = Len(s) - 1 /\ Head(s) \in Request
  BY HeadTailProperties
<1>2. Len(s) \in Nat \ {0} /\ Head(s) = s[1]
  OBVIOUS
<1>3. \A k \in 1 .. Len(s) - 1 : Tail(s)[k] = s[k + 1]
  BY <1>1, HeadTailProperties
<1>4. Tail(s) # <<>> <=> Len(s) > 1
  <2>1. Tail(s) # <<>> => Len(Tail(s)) \in Nat \ {0}
    BY <1>1, EmptySeq
  <2>2. Tail(s) = <<>> => Len(Tail(s)) = 0
    BY EmptySeq
  <2>3. QED
    BY <1>1, <1>2, <2>1, <2>2
<1>5. QED
  BY <1>1, <1>2, <1>3, <1>4

LEMMA InitTyped == Init => Typed
<1> SUFFICES ASSUME Init PROVE Typed
  OBVIOUS
<1>1. 0 \in Child
  BY TurnIsChild
<1>2. log = <<>> /\ log \in Seq(Event) /\ Len(log) = 0
  BY EmptySeq DEF Init, CpgInit
<1>3. pend \in [Child -> Seq(Request)] /\ cursor \in [Child -> Int]
      /\ \A c \in Child : cursor[c] = -1
  BY EmptySeq, RingAssumption DEF Init, CpgInit
<1>4. QED
  BY <1>1, <1>2, <1>3, RingAssumption DEF Init, CpgInit, Each, Typed, TypeOK

(* The three things the daemon can order, and the requests it leaves. *)
Ordered(p) == pend[p] # <<>> /\ pend' = [pend EXCEPT ![p] = Tail(@)]
OrderJoin(p) ==
  /\ Ordered(p) /\ pend[p][1] = JoinRequest
  /\ members' = members \cup {p}
  /\ cursor' = [cursor EXCEPT ![p] = Len(log)]
  /\ log' = Append(log, Confchg(members \cup {p}))
OrderLeave(p) ==
  /\ Ordered(p) /\ pend[p][1] = LeaveRequest
  /\ members' = members \ {p}
  /\ log' = Append(log, Confchg(members \ {p}))
  /\ cursor' = cursor
OrderMsg(p, m) ==
  /\ Ordered(p) /\ pend[p][1] = MsgRequest(m)
  /\ log' = Append(log, MsgRequest(m))
  /\ members' = members /\ cursor' = cursor

LEMMA OrderCases ==
  ASSUME Typed, NEW p \in Child, DaemonOrders(p)
  PROVE  OrderJoin(p) \/ OrderLeave(p) \/ \E m \in Message : OrderMsg(p, m)
<1>1. pend[p] \in Seq(Request) /\ pend[p] # <<>>
  BY DEF Typed, TypeOK, DaemonOrders
<1>2. Head(pend[p]) \in Request /\ Head(pend[p]) = pend[p][1] /\ Ordered(p)
  BY <1>1, QueueTail DEF DaemonOrders, Order, Ordered
<1>3. CASE pend[p][1] = JoinRequest
  <2>1. Head(pend[p]).type = "join"
    BY <1>2, <1>3, ShapesOfEvents
  <2>2. /\ members' = members \cup {p}
        /\ cursor' = [cursor EXCEPT ![p] = Len(log)]
        /\ log' = Append(log, Confchg(members'))
    BY <2>1 DEF DaemonOrders, Order
  <2>3. QED
    BY <1>2, <1>3, <2>2 DEF OrderJoin
<1>4. CASE pend[p][1] = LeaveRequest
  <2>1. Head(pend[p]).type = "leave"
    BY <1>2, <1>4, ShapesOfEvents
  <2>2. /\ members' = members \ {p}
        /\ log' = Append(log, Confchg(members'))
        /\ cursor' = cursor
    BY <2>1 DEF DaemonOrders, Order
  <2>3. QED
    BY <1>2, <1>4, <2>2 DEF OrderLeave
<1>5. CASE /\ pend[p][1].type = "msg" /\ pend[p][1].msg \in Message
           /\ pend[p][1] = MsgRequest(pend[p][1].msg)
  <2>1. PICK m \in Message : m = pend[p][1].msg
    BY <1>5
  <2>2. pend[p][1] = MsgRequest(m) /\ Head(pend[p]).type = "msg"
    BY <1>2, <1>5, <2>1
  <2>3. log' = Append(log, Head(pend[p])) /\ members' = members /\ cursor' = cursor
    BY <2>2 DEF DaemonOrders, Order
  <2>4. QED
    BY <1>2, <2>2, <2>3 DEF OrderMsg
<1>6. QED
  BY <1>2, <1>3, <1>4, <1>5, KindsOfEvents

(* The things a child can read.  A message is sent on in two of them. *)
Reads(c) ==
  /\ pc[c] = "dispatch" /\ cursor[c] \in 0 .. Len(log) - 1
  /\ cursor' = [cursor EXCEPT ![c] = cursor[c] + 1]
  /\ log' = log /\ members' = members
Sends(c, s) ==
  /\ pend' = [pend EXCEPT ![c] =
                Append(@, MsgRequest([sender_id |-> c, seq_no |-> s,
                                      block |-> sent_rand_seed[c]]))]
  /\ sent_rand_seed' = [sent_rand_seed EXCEPT ![c] = sent_rand_seed[c] + 1]
  /\ pc' = pc
Adjusts(c) ==
  /\ pend' = pend
  /\ sent_rand_seed' = [sent_rand_seed EXCEPT ![c] = sent_rand_seed[c] + 1]
  /\ pc' = pc
ReadOther(c) ==
  /\ Reads(c)
  /\ log[cursor[c] + 1].type = "confchg"
  /\ full_membership_seen[c] \/ Cardinality(log[cursor[c] + 1].members) # NO_CHILDS
  /\ pend' = pend /\ pc' = pc /\ callback' = callback
ReadFull(c) ==
  /\ Reads(c)
  /\ log[cursor[c] + 1].type = "confchg"
  /\ ~full_membership_seen[c] /\ Cardinality(log[cursor[c] + 1].members) = NO_CHILDS
  /\ IF c = 0 THEN Sends(c, expected_msg_seq_no[c]) ELSE Adjusts(c)
  /\ full_membership_seen' = [full_membership_seen EXCEPT ![c] = TRUE]
  /\ received' = received
ReadMsg(c, m) ==
  /\ Reads(c)
  /\ log[cursor[c] + 1] = MsgRequest(m)
  /\ Expected(c, m)
  /\ expected_sender_id' = [expected_sender_id EXCEPT ![c] = (expected_sender_id[c] + 1) % NO_CHILDS]
  /\ expected_msg_seq_no' = [expected_msg_seq_no EXCEPT ![c] = expected_msg_seq_no[c] + 1]
  /\ received_rand_seed' = [received_rand_seed EXCEPT ![c] = received_rand_seed[c] + 1]
  /\ test_cpg_loop_cont' =
       [test_cpg_loop_cont EXCEPT ![c] =
          test_cpg_loop_cont[c] /\ expected_msg_seq_no[c] + 1 <= MESSAGES_TO_SENT]
  /\ IF (expected_sender_id[c] + 1) % NO_CHILDS = c
     THEN Sends(c, expected_msg_seq_no[c] + 1) ELSE Adjusts(c)
  /\ full_membership_seen' = full_membership_seen
ReadWrong(c, m) ==
  /\ Reads(c)
  /\ log[cursor[c] + 1] = MsgRequest(m)
  /\ ~Expected(c, m)
  /\ pc' = [pc EXCEPT ![c] = "mismatch"]
  /\ pend' = [pend EXCEPT ![c] = Append(@, LeaveRequest)]
  /\ callback' = callback

LEMMA DispatchCases ==
  ASSUME Typed, NEW c \in Child, Dispatch(c)
  PROVE  \/ ReadOther(c)
         \/ ReadFull(c)
         \/ \E m \in Message : ReadMsg(c, m) \/ ReadWrong(c, m)
<1>1. /\ log \in Seq(Event) /\ cursor[c] \in 0 .. Len(log) - 1
      /\ cursor[c] + 1 \in 1 .. Len(log)
  BY DEF Dispatch, Readable, Typed, TypeOK
<1>2. log[cursor[c] + 1] \in Event /\ NextEvent(c) = log[cursor[c] + 1]
  BY <1>1 DEF NextEvent
<1>3. Reads(c)
  BY <1>1 DEF Dispatch, Advance, Reads
<1>4. CASE log[cursor[c] + 1].type = "confchg"
  <2>1. ConfchgCallback(c, log[cursor[c] + 1].members)
    BY <1>2, <1>4 DEF Dispatch
  <2>2. ReadOther(c) \/ ReadFull(c)
    BY <2>1, <1>3, <1>4 DEF ConfchgCallback, ReadOther, ReadFull, Sends, Adjusts, send_msg,
         adjust_sent_rand_seed, Ask, callback
  <2>3. QED
    BY <2>2
<1>5. CASE /\ log[cursor[c] + 1].type = "msg" /\ log[cursor[c] + 1].msg \in Message
           /\ log[cursor[c] + 1] = MsgRequest(log[cursor[c] + 1].msg)
  <2>1. PICK m \in Message : m = log[cursor[c] + 1].msg
    BY <1>5
  <2>2. DeliverCallback(c, m) /\ log[cursor[c] + 1] = MsgRequest(m)
    BY <1>2, <1>5, <2>1 DEF Dispatch
  <2>3. CASE ~Expected(c, m)
    BY <2>2, <2>3, <1>3 DEF DeliverCallback, ReadWrong, Abort, Goto, Ask
  <2>4. CASE Expected(c, m)
    <3>1. /\ expected_sender_id'[c] = (expected_sender_id[c] + 1) % NO_CHILDS
          /\ expected_msg_seq_no'[c] = expected_msg_seq_no[c] + 1
      BY <2>2, <2>4 DEF DeliverCallback, Typed, TypeOK
    <3>2. IF (expected_sender_id[c] + 1) % NO_CHILDS = c
          THEN Sends(c, expected_msg_seq_no[c] + 1) ELSE Adjusts(c)
      BY <2>2, <2>4, <3>1 DEF DeliverCallback, Sends, Adjusts, send_msg,
           adjust_sent_rand_seed, Ask
    <3>3. QED
      BY <1>3, <2>2, <2>4, <3>1, <3>2 DEF DeliverCallback, ReadMsg
  <2>5. QED
    BY <2>3, <2>4
<1>6. QED
  BY <1>2, <1>4, <1>5, KindsOfEvents

(* The types of the group and of the counters. *)
GroupTyped ==
  /\ log \in Seq(Event)
  /\ pend \in [Child -> Seq(Request)]
  /\ members \in SUBSET Child
  /\ cursor \in [Child -> Int]
  /\ \A c \in Child : cursor[c] \in -1 .. Len(log)
CountsTyped ==
  /\ full_membership_seen \in [Child -> BOOLEAN]
  /\ test_cpg_loop_cont \in [Child -> BOOLEAN]
  /\ sent_rand_seed \in [Child -> Nat] /\ received_rand_seed \in [Child -> Nat]
  /\ expected_sender_id \in [Child -> Child]
  /\ expected_msg_seq_no \in [Child -> Nat]
Place == {"none", "start", "poll", "dispatch", "leave", "exited", "aborted", "mismatch"}
ControlTyped ==
  /\ pc \in [Child -> Place]
  /\ parent \in {"fork", "wait", "ok", "aborted"}
  /\ forked \in 0 .. NO_CHILDS
  /\ reaped \in SUBSET Child
  /\ forkFails \in 0 .. MaxForkFails /\ faults \in 0 .. MaxFaults

LEMMA TypedParts ==
  /\ Typed <=> GroupTyped /\ CountsTyped /\ ControlTyped
  /\ Typed' <=> GroupTyped' /\ CountsTyped' /\ ControlTyped'
BY DEF Typed, TypeOK, GroupTyped, CountsTyped, ControlTyped, Place

LEMMA AskTyped ==
  ASSUME GroupTyped, NEW p \in Child, NEW r \in Request,
         pend' = [pend EXCEPT ![p] = Append(@, r)],
         UNCHANGED <<log, members>>,
         cursor' \in [Child -> Int], \A c \in Child : cursor'[c] \in -1 .. Len(log)
  PROVE  GroupTyped'
BY QueueAppend DEF GroupTyped

LEMMA OrderTyped ==
  ASSUME Typed, NEW p \in Child, DaemonOrders(p)
  PROVE  GroupTyped'
<1>1. GroupTyped
  BY TypedParts
<1>2. ASSUME Ordered(p) PROVE pend' \in [Child -> Seq(Request)]
  BY <1>1, <1>2, QueueTail DEF GroupTyped, Ordered
<1>3. \A e \in Event : log' = Append(log, e) =>
         /\ log' \in Seq(Event) /\ Len(log') = Len(log) + 1 /\ Len(log) \in Nat
  BY <1>1, LogAppend DEF GroupTyped
<1>4. CASE OrderJoin(p)
  BY <1>1, <1>2, <1>3, <1>4, ShapesOfEvents DEF OrderJoin, GroupTyped
<1>5. CASE OrderLeave(p)
  BY <1>1, <1>2, <1>3, <1>5, ShapesOfEvents DEF OrderLeave, GroupTyped
<1>6. ASSUME NEW m \in Message, OrderMsg(p, m) PROVE GroupTyped'
  BY <1>1, <1>2, <1>3, <1>6, ShapesOfEvents DEF OrderMsg, GroupTyped
<1>7. QED
  BY <1>4, <1>5, <1>6, OrderCases

LEMMA DispatchTyped ==
  ASSUME Typed, NEW c \in Child, Dispatch(c)
  PROVE  GroupTyped' /\ CountsTyped' /\ pc' \in [Child -> Place]
<1>1. GroupTyped /\ CountsTyped /\ pc \in [Child -> Place]
  BY TypedParts DEF ControlTyped
<1>2. ASSUME Reads(c)
      PROVE  /\ UNCHANGED <<log, members>> /\ log \in Seq(Event)
             /\ cursor' \in [Child -> Int]
             /\ \A d \in Child : cursor'[d] \in -1 .. Len(log)
  BY <1>1, <1>2 DEF Reads, GroupTyped
<1>3. ASSUME NEW s \in Nat, Sends(c, s)
      PROVE  /\ \E r \in Request : pend' = [pend EXCEPT ![c] = Append(@, r)]
             /\ sent_rand_seed' \in [Child -> Nat] /\ pc' = pc
  <2>1. [sender_id |-> c, seq_no |-> s, block |-> sent_rand_seed[c]] \in Message
    BY <1>1 DEF CountsTyped, Message
  <2>2. PICK r \in Request :
          r = MsgRequest([sender_id |-> c, seq_no |-> s, block |-> sent_rand_seed[c]])
    BY <2>1, ShapesOfEvents
  <2>3. pend' = [pend EXCEPT ![c] = Append(@, r)] /\ pc' = pc
    BY <1>3, <2>2 DEF Sends
  <2>4. sent_rand_seed' \in [Child -> Nat]
    BY <1>1, <1>3 DEF Sends, CountsTyped
  <2>5. QED
    BY <2>3, <2>4
<1>4. ASSUME Adjusts(c)
      PROVE  pend' = pend /\ sent_rand_seed' \in [Child -> Nat] /\ pc' = pc
  BY <1>1, <1>4 DEF Adjusts, CountsTyped
<1>5. ASSUME Reads(c), pend' = pend
      PROVE  GroupTyped'
  BY <1>1, <1>2, <1>5 DEF GroupTyped
<1>6. ASSUME Reads(c), NEW r \in Request, pend' = [pend EXCEPT ![c] = Append(@, r)]
      PROVE  GroupTyped'
  BY <1>1, <1>2, <1>6, AskTyped
<1>7. CASE ReadOther(c)
  BY <1>1, <1>5, <1>7 DEF ReadOther, CountsTyped, callback, received
<1>8. CASE ReadFull(c)
  <2>1. GroupTyped' /\ sent_rand_seed' \in [Child -> Nat] /\ pc' = pc
    BY <1>1, <1>3, <1>4, <1>5, <1>6, <1>8 DEF ReadFull, CountsTyped
  <2>2. QED
    BY <1>1, <1>8, <2>1 DEF ReadFull, CountsTyped, received
<1>9. ASSUME NEW m \in Message, ReadMsg(c, m)
      PROVE  GroupTyped' /\ CountsTyped' /\ pc' \in [Child -> Place]
  <2>1. expected_msg_seq_no[c] + 1 \in Nat /\ expected_sender_id[c] + 1 \in Nat
    BY <1>1 DEF CountsTyped, Child
  <2>2. GroupTyped' /\ sent_rand_seed' \in [Child -> Nat] /\ pc' = pc
    BY <1>1, <1>3, <1>4, <1>5, <1>6, <1>9, <2>1 DEF ReadMsg
  <2>3. (expected_sender_id[c] + 1) % NO_CHILDS \in Child
    BY <2>1, TurnIsChild
  <2>4. /\ full_membership_seen' \in [Child -> BOOLEAN]
        /\ expected_msg_seq_no' \in [Child -> Nat]
        /\ expected_sender_id' \in [Child -> Child]
        /\ received_rand_seed' \in [Child -> Nat]
    BY <1>1, <1>9, <2>1, <2>3 DEF ReadMsg, CountsTyped
  <2>5. test_cpg_loop_cont' \in [Child -> BOOLEAN]
    BY <1>1, <1>9, Zenon DEF ReadMsg, CountsTyped
  <2>6. QED
    BY <1>1, <2>2, <2>4, <2>5 DEF CountsTyped
<1>10. ASSUME NEW m \in Message, ReadWrong(c, m)
       PROVE  GroupTyped' /\ CountsTyped' /\ pc' \in [Child -> Place]
  <2>1. GroupTyped'
    BY <1>6, <1>10, ShapesOfEvents DEF ReadWrong
  <2>2. QED
    BY <1>1, <1>10, <2>1 DEF ReadWrong, CountsTyped, callback, received, Place
<1>11. QED
  BY <1>7, <1>8, <1>9, <1>10, DispatchCases

LEMMA NextTyped == Typed /\ [Next]_vars => Typed'
<1> SUFFICES ASSUME Typed, [Next]_vars PROVE Typed'
  OBVIOUS
<1>1. GroupTyped /\ CountsTyped /\ ControlTyped
  BY TypedParts
<1>2. ASSUME NEW c \in Child, NEW r \in Request, Ask(c, r), UNCHANGED <<log, members, cursor>>
      PROVE  GroupTyped'
  BY <1>1, <1>2, AskTyped DEF Ask, GroupTyped
<1>3. ASSUME UNCHANGED cpgVars PROVE GroupTyped'
  BY <1>1, <1>3 DEF GroupTyped, cpgVars
<1>4. ASSUME UNCHANGED callback PROVE CountsTyped'
  BY <1>1, <1>4 DEF CountsTyped, callback, received
<1>5. \A c \in Child, place \in Place : Goto(c, place) => pc' \in [Child -> Place]
  BY <1>1 DEF Goto, ControlTyped
<1>6. CASE ParentStep
  <2>1. GroupTyped' /\ CountsTyped'
    BY <1>3, <1>4, <1>6 DEF ParentStep, ForkChild, AllForked, WaitFails, WaitChild
  <2>2. ASSUME ForkChild PROVE ControlTyped'
    <3>1. forked \in Child /\ forked + 1 \in 0 .. NO_CHILDS
      BY <1>1, <2>2, RingAssumption DEF ForkChild, ControlTyped, Child
    <3>2. QED
      BY <1>1, <1>5, <2>2, <3>1 DEF ForkChild, ControlTyped, Place
  <2>3. ASSUME AllForked PROVE ControlTyped'
    BY <1>1, <2>3 DEF AllForked, ControlTyped
  <2>4. ASSUME WaitFails PROVE ControlTyped'
    BY <1>1, <2>4 DEF WaitFails, ControlTyped
  <2>5. ASSUME NEW c \in Child, WaitChild(c) PROVE ControlTyped'
    BY <1>1, <2>5 DEF WaitChild, ControlTyped
  <2>6. ControlTyped'
    BY <1>1, <1>6, <2>2, <2>3, <2>4, <2>5 DEF ParentStep
  <2>7. QED
    BY <2>1, <2>6, TypedParts
<1>7. CASE ForkFails
  BY <1>1, <1>3, <1>4, <1>7, TypedParts, RingAssumption DEF ForkFails, ControlTyped
<1>8. ASSUME NEW c \in Child, ChildStep(c) \/ ApiFails(c) \/ DaemonOrders(c)
      PROVE  Typed'
  <2>1. CASE Join(c)
    BY <1>1, <1>2, <1>4, <1>5, <2>1, TypedParts, ShapesOfEvents DEF Join, ControlTyped, parentVars, Place
  <2>2. CASE Poll(c)
    BY <1>1, <1>3, <1>4, <1>5, <2>2, TypedParts DEF Poll, ControlTyped, parentVars, Place
  <2>3. CASE Dispatch(c)
    BY <1>1, <2>3, DispatchTyped, TypedParts DEF Dispatch, ControlTyped, parentVars
  <2>4. CASE DispatchEnds(c)
    BY <1>1, <1>3, <1>4, <1>5, <2>4, TypedParts DEF DispatchEnds, ControlTyped, parentVars, Place
  <2>5. CASE Leave(c)
    BY <1>1, <1>2, <1>4, <1>5, <2>5, TypedParts, ShapesOfEvents DEF Leave, ControlTyped, parentVars, Place
  <2>6. CASE ApiFails(c)
    BY <1>1, <1>2, <1>4, <1>5, <2>6, TypedParts, ShapesOfEvents, RingAssumption
       DEF ApiFails, Abort, CanFail, ControlTyped, parentVars, Place
  <2>7. CASE DaemonOrders(c)
    BY <1>1, <1>4, <2>7, OrderTyped, TypedParts DEF DaemonOrders, ControlTyped, parentVars
  <2>8. QED
    BY <1>8, <2>1, <2>2, <2>3, <2>4, <2>5, <2>6, <2>7 DEF ChildStep
<1>9. CASE UNCHANGED vars
  BY <1>1, <1>3, <1>4, <1>9, TypedParts DEF vars, parentVars, ControlTyped
<1>10. QED
  BY <1>6, <1>7, <1>8, <1>9 DEF Next

(* Every variable of the ring keeps its type. *)
THEOREM TypeCorrect == Spec => []TypeOK
<1>1. Typed => TypeOK
  BY DEF Typed
<1>2. QED
  BY InitTyped, NextTyped, <1>1, PTL DEF Spec

------------------------------------------------------------------------------
(***************************************************************************)
(* The loops of the children and the parent.                               *)
(***************************************************************************)

(* The loop around cpg_dispatch ends only behind the limit, and only a      *)
(* child whose loop has ended leaves the group.                             *)
LoopsRight ==
  \A c \in Child :
    /\ ~test_cpg_loop_cont[c] => expected_msg_seq_no[c] > MESSAGES_TO_SENT
    /\ pc[c] \in {"leave", "exited"} => ~test_cpg_loop_cont[c]

(* The children are forked in order. *)
ForkOrder == \A c \in Child : pc[c] # "none" => c < forked

(* Until the parent is through, it has only found exited children. *)
ReapedRight == parent \in {"fork", "wait"} => \A c \in reaped : pc[c] = "exited"

ControlInv == Typed /\ LoopsRight /\ ForkOrder /\ ReapedRight /\ SuccessMeansDone

LEMMA InitControl == Init => ControlInv
<1> SUFFICES ASSUME Init PROVE ControlInv
  OBVIOUS
<1>1. Typed
  BY InitTyped
<1>2. /\ parent = "fork" /\ reaped = {}
      /\ \A c \in Child : pc[c] = "none" /\ test_cpg_loop_cont[c] = TRUE
  BY DEF Init, Each
<1>3. QED
  BY <1>1, <1>2 DEF ControlInv, LoopsRight, ForkOrder, ReapedRight, SuccessMeansDone

(* A step of the children: nobody is forked or waited for, and a child that *)
(* has exited does nothing more.                                            *)
LEMMA ControlStep ==
  ASSUME ControlInv, Typed', UNCHANGED <<parent, forked, reaped>>, LoopsRight',
         \A c \in Child :
           /\ pc[c] = "none" <=> pc'[c] = "none"
           /\ pc[c] = "exited" => pc'[c] = "exited"
           /\ expected_msg_seq_no'[c] >= expected_msg_seq_no[c]
  PROVE  ControlInv'
<1>1. ForkOrder'
  BY DEF ControlInv, ForkOrder
<1>2. reaped \in SUBSET Child
  BY TypedParts DEF ControlInv, ControlTyped
<1>3. ReapedRight'
  BY <1>2 DEF ControlInv, ReapedRight
<1>4. \A c \in Child : expected_msg_seq_no[c] \in Nat /\ expected_msg_seq_no'[c] \in Nat
  BY TypedParts DEF ControlInv, CountsTyped
<1>5. SuccessMeansDone'
  BY <1>4, RingAssumption DEF ControlInv, SuccessMeansDone
<1>6. QED
  BY <1>1, <1>3, <1>5 DEF ControlInv

LEMMA NextControl == ControlInv /\ [Next]_vars => ControlInv'
<1> SUFFICES ASSUME ControlInv, [Next]_vars PROVE ControlInv'
  OBVIOUS
<1>1. Typed /\ Typed'
  BY NextTyped DEF ControlInv
<1>2. /\ pc \in [Child -> Place] /\ forked \in Nat /\ reaped \in SUBSET Child
      /\ expected_msg_seq_no \in [Child -> Nat]
      /\ test_cpg_loop_cont \in [Child -> BOOLEAN]
  BY <1>1, TypedParts DEF ControlTyped, CountsTyped
<1>3. ASSUME UNCHANGED <<callback, parent, forked, reaped, pc>> PROVE ControlInv'
  <2>1. LoopsRight'
    BY <1>3 DEF ControlInv, LoopsRight, callback, received
  <2>2. QED
    BY <1>1, <1>2, <1>3, <2>1, ControlStep DEF callback, received
<1>4. ASSUME UNCHANGED <<callback, parent, forked, reaped>>, NEW c \in Child,
             NEW place \in Place \ {"none"}, Goto(c, place), pc[c] \notin {"none", "exited"},
             place \in {"leave", "exited"} => ~test_cpg_loop_cont[c]
      PROVE  ControlInv'
  <2>1. /\ pc'[c] = place /\ \A d \in Child \ {c} : pc'[d] = pc[d]
    BY <1>2, <1>4 DEF Goto
  <2>2. UNCHANGED <<test_cpg_loop_cont, expected_msg_seq_no>>
    BY <1>4 DEF callback, received
  <2>3. LoopsRight'
    BY <1>4, <2>1, <2>2 DEF ControlInv, LoopsRight
  <2>4. \A d \in Child : /\ pc[d] = "none" <=> pc'[d] = "none"
                         /\ pc[d] = "exited" => pc'[d] = "exited"
    BY <1>4, <2>1
  <2>5. QED
    BY <1>1, <1>2, <1>4, <2>2, <2>3, <2>4, ControlStep
<1>5. ASSUME NEW c \in Child, Dispatch(c) PROVE ControlInv'
  <2>1. UNCHANGED <<parent, forked, reaped>> /\ pc[c] = "dispatch"
    BY <1>5 DEF Dispatch, parentVars
  <2>2. ASSUME pc' = pc, UNCHANGED <<test_cpg_loop_cont, expected_msg_seq_no>> PROVE ControlInv'
    <3>1. LoopsRight'
      BY <2>2 DEF ControlInv, LoopsRight
    <3>2. QED
      BY <1>1, <1>2, <2>1, <2>2, <3>1, ControlStep
  <2>3. CASE ReadOther(c)
    BY <2>2, <2>3 DEF ReadOther, callback, received
  <2>4. CASE ReadFull(c)
    BY <2>2, <2>4 DEF ReadFull, Sends, Adjusts, received
  <2>5. ASSUME NEW m \in Message, ReadMsg(c, m) PROVE ControlInv'
    <3>1. pc' = pc
      BY <2>5 DEF ReadMsg, Sends, Adjusts
    <3>2. /\ expected_msg_seq_no'[c] = expected_msg_seq_no[c] + 1
          /\ test_cpg_loop_cont'[c] <=>
               test_cpg_loop_cont[c] /\ expected_msg_seq_no[c] + 1 <= MESSAGES_TO_SENT
          /\ \A d \in Child \ {c} : /\ expected_msg_seq_no'[d] = expected_msg_seq_no[d]
                                    /\ test_cpg_loop_cont'[d] = test_cpg_loop_cont[d]
      BY <1>2, <2>5 DEF ReadMsg
    <3>3. ASSUME NEW d \in Child
          PROVE  /\ ~test_cpg_loop_cont'[d] => expected_msg_seq_no'[d] > MESSAGES_TO_SENT
                 /\ pc'[d] \in {"leave", "exited"} => ~test_cpg_loop_cont'[d]
      <4>1. CASE d = c
        <5>1. MESSAGES_TO_SENT \in Nat /\ expected_msg_seq_no[c] \in Nat
          BY <1>2, RingAssumption
        <5>2. ~test_cpg_loop_cont[c] => expected_msg_seq_no[c] > MESSAGES_TO_SENT
          BY DEF ControlInv, LoopsRight
        <5>3. ~test_cpg_loop_cont'[c] => expected_msg_seq_no'[c] > MESSAGES_TO_SENT
          BY <3>2, <5>1, <5>2
        <5>4. QED
          BY <2>1, <3>1, <4>1, <5>3
      <4>2. CASE d # c
        BY <3>1, <3>2, <4>2 DEF ControlInv, LoopsRight
      <4>3. QED
        BY <4>1, <4>2
    <3>4. LoopsRight'
      BY <3>3 DEF LoopsRight
    <3>5. \A d \in Child : expected_msg_seq_no'[d] >= expected_msg_seq_no[d]
      BY <1>2, <3>2
    <3>6. QED
      BY <1>1, <2>1, <3>1, <3>4, <3>5, ControlStep
  <2>6. ASSUME NEW m \in Message, ReadWrong(c, m) PROVE ControlInv'
    BY <1>4, <2>1, <2>6 DEF ReadWrong, Goto, Place
  <2>7. QED
    BY <1>1, <1>5, <2>3, <2>4, <2>5, <2>6, DispatchCases
<1>6. ASSUME NEW c \in Child, ChildStep(c) \/ ApiFails(c) \/ DaemonOrders(c) PROVE ControlInv'
  <2>1. CASE Join(c) \/ Poll(c) \/ ApiFails(c)
    BY <1>4, <2>1 DEF Join, Poll, ApiFails, Abort, parentVars, Place
  <2>2. CASE DispatchEnds(c)
    BY <1>4, <2>2 DEF DispatchEnds, parentVars, Place
  <2>3. CASE Leave(c)
    BY <1>4, <2>3 DEF Leave, parentVars, Place, ControlInv, LoopsRight
  <2>4. CASE DaemonOrders(c)
    BY <1>3, <2>4 DEF DaemonOrders, parentVars
  <2>5. QED
    BY <1>5, <1>6, <2>1, <2>2, <2>3, <2>4 DEF ChildStep
<1>7. CASE ForkChild
  <2>1. /\ forked \in Child /\ pc[forked] = "none" /\ parent = "fork" /\ parent' = "fork"
        /\ forked' = forked + 1 /\ UNCHANGED <<callback, reaped>>
    BY <1>2, <1>7, RingAssumption DEF ForkChild, Child, ControlInv, ForkOrder
  <2>2. pc'[forked] = "start" /\ \A d \in Child \ {forked} : pc'[d] = pc[d]
    BY <1>2, <1>7, <2>1 DEF ForkChild, Goto
  <2>3. LoopsRight'
    BY <2>1, <2>2 DEF ControlInv, LoopsRight, callback, received
  <2>4. ForkOrder'
    BY <1>2, <2>1, <2>2 DEF ControlInv, ForkOrder, Child
  <2>5. ReapedRight' /\ SuccessMeansDone'
    BY <1>2, <2>1, <2>2 DEF ControlInv, ReapedRight, SuccessMeansDone
  <2>6. QED
    BY <1>1, <2>3, <2>4, <2>5 DEF ControlInv
<1>8. CASE ForkFails
  <2>1. /\ parent = "fork" /\ parent' = "fork" /\ forked' = forked + 1
        /\ UNCHANGED <<callback, reaped, pc>>
    BY <1>8 DEF ForkFails
  <2>2. LoopsRight' /\ ReapedRight' /\ SuccessMeansDone'
    BY <2>1 DEF ControlInv, LoopsRight, ReapedRight, SuccessMeansDone, callback, received
  <2>3. ForkOrder'
    BY <1>2, <2>1 DEF ControlInv, ForkOrder, Child
  <2>4. QED
    BY <1>1, <2>2, <2>3 DEF ControlInv
<1>9. CASE AllForked
  <2>1. LoopsRight' /\ ForkOrder' /\ ReapedRight' /\ SuccessMeansDone'
    BY <1>9 DEF AllForked, ControlInv, LoopsRight, ForkOrder, ReapedRight, SuccessMeansDone,
         callback, received
  <2>2. QED
    BY <1>1, <2>1 DEF ControlInv
<1>10. ASSUME UNCHANGED <<callback, pc, forked>>, parent = "wait",
              \/ parent' = "aborted"
              \/ /\ parent' = "wait" /\ \A c \in reaped' : pc[c] = "exited"
              \/ /\ parent' = "ok" /\ \A c \in Child : pc[c] # "none" => pc[c] = "exited"
       PROVE  ControlInv'
  <2>1. LoopsRight' /\ ForkOrder' /\ ReapedRight'
    BY <1>10 DEF ControlInv, LoopsRight, ForkOrder, ReapedRight, callback, received
  <2>2. SuccessMeansDone'
    BY <1>10 DEF ControlInv, LoopsRight, SuccessMeansDone, callback, received
  <2>3. QED
    BY <1>1, <2>1, <2>2 DEF ControlInv
<1>11. CASE WaitFails
  <2>1. \A c \in Child : pc[c] # "none" => pc[c] = "exited"
    BY <1>11 DEF WaitFails, ControlInv, ReapedRight
  <2>2. QED
    BY <1>10, <1>11, <2>1 DEF WaitFails
<1>12. ASSUME NEW c \in Child, WaitChild(c) PROVE ControlInv'
  <2>1. /\ reaped' = reaped \cup {c} /\ parent = "wait" /\ UNCHANGED <<callback, pc, forked>>
    BY <1>12 DEF WaitChild
  <2>2. CASE pc[c] # "exited"
    BY <1>10, <1>12, <2>1, <2>2 DEF WaitChild
  <2>3. CASE pc[c] = "exited"
    <3>1. \A d \in reaped' : pc[d] = "exited"
      BY <2>1, <2>3 DEF ControlInv, ReapedRight
    <3>2. reaped' \in SUBSET Child
      BY <1>2, <2>1
    <3>3. CASE Cardinality(reaped') = NO_CHILDS
      <4>1. reaped' = Child
        BY <3>2, <3>3, FullIsAll
      <4>2. QED
        BY <1>10, <1>12, <2>1, <2>3, <3>1, <3>3, <4>1 DEF WaitChild
    <3>4. CASE Cardinality(reaped') # NO_CHILDS
      BY <1>10, <1>12, <2>1, <2>3, <3>1, <3>4 DEF WaitChild
    <3>5. QED
      BY <3>3, <3>4
  <2>4. QED
    BY <2>2, <2>3
<1>13. CASE UNCHANGED vars
  BY <1>3, <1>13 DEF vars, parentVars
<1>14. QED
  BY <1>6, <1>7, <1>8, <1>9, <1>11, <1>12, <1>13 DEF Next, ParentStep

(* The parent returns 0 only if every child it has started ran to its end   *)
(* and received more than MESSAGES_TO_SENT messages, whatever calls and     *)
(* forks have failed.                                                       *)
THEOREM SuccessIsDone == Spec => []SuccessMeansDone
<1>1. ControlInv => SuccessMeansDone
  BY DEF ControlInv
<1>2. QED
  BY InitControl, NextControl, <1>1, PTL DEF Spec

------------------------------------------------------------------------------
(***************************************************************************)
(* The inductive invariant.                                                *)
(***************************************************************************)

(* Entry k of the log is a message; it is the configuration that starts the *)
(* exchange.                                                                *)
IsMsg(k) == k \in 1 .. Len(log) /\ log[k].type = "msg"
SeqAt(k) == log[k].msg.seq_no
IsFull(k) ==
  /\ k \in 1 .. Len(log)
  /\ log[k].type = "confchg"
  /\ Cardinality(log[k].members) = NO_CHILDS

(* The oldest request of c is the message m. *)
Waiting(c, m) == pend[c] # <<>> /\ pend[c][1] = MsgRequest(m)

(* What must be true for child s % NO_CHILDS to have sent message s.        *)
Due(s) ==
  /\ s = 0 => full_membership_seen[0]
  /\ s > 0 => expected_msg_seq_no[s % NO_CHILDS] >= s

(* m is a message for place k of the log: its sender and its content are    *)
(* those of its number, and the messages before k are the ones below it.    *)
Fits(m, k) ==
  /\ m.sender_id = m.seq_no % NO_CHILDS
  /\ m.block = m.seq_no
  /\ Due(m.seq_no)
  /\ \A j \in 1 .. k - 1 : IsMsg(j) => SeqAt(j) < m.seq_no
  /\ \A u \in 0 .. m.seq_no - 1 : \E j \in 1 .. k - 1 : IsMsg(j) /\ SeqAt(j) = u
  /\ \E j \in 1 .. k - 1 : IsFull(j)

LogRight ==
  \A k \in 1 .. Len(log), m \in Message : log[k] = MsgRequest(m) => Fits(m, k)

PendRight ==
  \A c \in Child, m \in Message :
    Waiting(c, m) => m.sender_id = c /\ Fits(m, Len(log) + 1)

(* What c has counted and drawn, against what it has read of the log. *)
CountsRight(c) ==
  /\ received_rand_seed[c] = expected_msg_seq_no[c]
  /\ expected_sender_id[c] = expected_msg_seq_no[c] % NO_CHILDS
  /\ sent_rand_seed[c] = expected_msg_seq_no[c] + IF full_membership_seen[c] THEN 1 ELSE 0

ReadRight(c) ==
  /\ \A k \in 1 .. Len(log) : IsMsg(k) =>
       /\ k <= cursor[c] => SeqAt(k) < expected_msg_seq_no[c]
       /\ 0 <= cursor[c] /\ cursor[c] < k => SeqAt(k) >= expected_msg_seq_no[c]
  /\ expected_msg_seq_no[c] > 0 =>
       \E k \in 1 .. cursor[c] : IsMsg(k) /\ SeqAt(k) = expected_msg_seq_no[c] - 1
  /\ \A k \in 1 .. cursor[c] : IsFull(k) => full_membership_seen[c]

GroupRight ==
  /\ \A c \in members : cursor[c] >= 0
  /\ \A k \in 1 .. Len(log) : IsFull(k) => \A c \in Child : cursor[c] >= 0

(* The requests of c that are not ordered yet. *)
QueueRight(c) ==
  /\ Len(pend[c]) <= IF Ended(c) THEN 2 ELSE 1
  /\ \A i \in 1 .. Len(pend[c]) :
       /\ pend[c][i].type = "join" => i = 1 /\ cursor[c] = -1
       /\ pend[c][i].type = "msg" => i = 1
       /\ pend[c][i].type = "leave" => Ended(c)
  /\ pc[c] \in {"none", "start"} => pend[c] = <<>> /\ cursor[c] = -1

ChildRight(c) == CountsRight(c) /\ ReadRight(c) /\ QueueRight(c) /\ pc[c] # "mismatch"

RingInv ==
  /\ Typed
  /\ LogRight
  /\ PendRight
  /\ GroupRight
  /\ \A c \in Child : ChildRight(c)

------------------------------------------------------------------------------
(***************************************************************************)
(* What the invariant says of one state.                                   *)
(***************************************************************************)

LEMMA MsgAt ==
  ASSUME Typed
  PROVE  /\ Len(log) \in Nat
         /\ \A k \in 1 .. Len(log) : IsMsg(k) \/ log[k].type = "confchg"
         /\ \A k : IsMsg(k) =>
              /\ k \in 1 .. Len(log) /\ SeqAt(k) \in Nat
              /\ \E m \in Message : log[k] = MsgRequest(m) /\ SeqAt(k) = m.seq_no
         /\ \A k \in 1 .. Len(log), m \in Message :
              log[k] = MsgRequest(m) => IsMsg(k) /\ SeqAt(k) = m.seq_no
<1>1. log \in Seq(Event) /\ Len(log) \in Nat
  BY DEF Typed, TypeOK
<1>2. \A k \in 1 .. Len(log) : log[k] \in Event
  BY <1>1
<1>3. \A m \in Message : m.seq_no \in Nat
  BY DEF Message
<1>4. ASSUME NEW k \in 1 .. Len(log)
      PROVE  \/ IsMsg(k) /\ \E m \in Message : log[k] = MsgRequest(m) /\ SeqAt(k) = m.seq_no
             \/ log[k].type = "confchg"
  BY <1>2, <1>4, KindsOfEvents DEF IsMsg, SeqAt
<1>5. ASSUME NEW k, IsMsg(k)
      PROVE  /\ k \in 1 .. Len(log) /\ SeqAt(k) \in Nat
             /\ \E m \in Message : log[k] = MsgRequest(m) /\ SeqAt(k) = m.seq_no
  BY <1>3, <1>4, <1>5 DEF IsMsg
<1>6. ASSUME NEW k \in 1 .. Len(log), NEW m \in Message, log[k] = MsgRequest(m)
      PROVE  IsMsg(k) /\ SeqAt(k) = m.seq_no
  BY <1>6, ShapesOfEvents DEF IsMsg, SeqAt
<1>7. QED
  BY <1>1, <1>4, <1>5, <1>6

(* A message in the log fits its place. *)
LEMMA MsgFits ==
  ASSUME RingInv, NEW k, IsMsg(k)
  PROVE  \E m \in Message : log[k] = MsgRequest(m) /\ SeqAt(k) = m.seq_no /\ Fits(m, k)
BY MsgAt DEF RingInv, LogRight

(* Two messages that fit the same place have the same number. *)
LEMMA OneFits ==
  ASSUME NEW k, NEW m \in Message, NEW n \in Message, Fits(m, k), Fits(n, k)
  PROVE  m.seq_no = n.seq_no
<1>1. m.seq_no \in Nat /\ n.seq_no \in Nat
  BY DEF Message
<1>2. ~(m.seq_no < n.seq_no)
  BY <1>1 DEF Fits
<1>3. ~(n.seq_no < m.seq_no)
  BY <1>1 DEF Fits
<1>4. QED
  BY <1>1, <1>2, <1>3

(* As long as message s is not due, it has not been sent. *)
LEMMA NotDue ==
  ASSUME RingInv, NEW s \in Nat, ~Due(s)
  PROVE  \A j : IsMsg(j) => SeqAt(j) < s
<1> SUFFICES ASSUME NEW j, IsMsg(j), ~(SeqAt(j) < s) PROVE FALSE
  OBVIOUS
<1>1. PICK m \in Message : SeqAt(j) = m.seq_no /\ Fits(m, j)
  BY MsgFits
<1>2. m.seq_no \in Nat
  BY DEF Message
<1>3. CASE m.seq_no = s
  BY <1>1, <1>3 DEF Fits
<1>4. CASE m.seq_no > s
  <2>1. PICK i \in 1 .. j - 1 : IsMsg(i) /\ SeqAt(i) = s
    BY <1>1, <1>2, <1>4 DEF Fits
  <2>2. PICK n \in Message : n.seq_no = s /\ Fits(n, i)
    BY <2>1, MsgFits
  <2>3. QED
    BY <2>2 DEF Fits
<1>5. QED
  BY <1>1, <1>2, <1>3, <1>4

LEMMA NoneWaiting ==
  ASSUME RingInv, NEW s \in Nat, ~Due(s),
         \A u \in 0 .. s - 1 : \E j : IsMsg(j) /\ SeqAt(j) = u
  PROVE  \A d \in Child, m \in Message : ~Waiting(d, m)
<1> SUFFICES ASSUME NEW d \in Child, NEW m \in Message, Waiting(d, m) PROVE FALSE
  OBVIOUS
<1>1. Fits(m, Len(log) + 1) /\ m.seq_no \in Nat
  BY DEF RingInv, PendRight, Message
<1>2. \A j : IsMsg(j) => j \in 1 .. Len(log) /\ Len(log) \in Nat /\ SeqAt(j) < s /\ SeqAt(j) < m.seq_no
  BY <1>1, MsgAt, NotDue DEF RingInv, Fits
<1>3. ~(m.seq_no < s)
  BY <1>1, <1>2
<1>4. ~(s < m.seq_no)
  BY <1>1, <1>2 DEF Fits
<1>5. m.seq_no = s
  BY <1>1, <1>3, <1>4
<1>6. QED
  BY <1>1, <1>5 DEF Fits

(* The next message of the log is the one the reader expects. *)
LEMMA NextIsExpected ==
  ASSUME RingInv, NEW c \in Child, Reads(c),
         NEW m \in Message, log[cursor[c] + 1] = MsgRequest(m)
  PROVE  /\ Expected(c, m)
         /\ m.seq_no = expected_msg_seq_no[c]
         /\ full_membership_seen[c]
         /\ Fits(m, cursor[c] + 1)
         /\ IsMsg(cursor[c] + 1) /\ SeqAt(cursor[c] + 1) = m.seq_no
<1> DEFINE k == cursor[c] + 1
<1>1. /\ cursor[c] \in 0 .. Len(log) - 1 /\ k \in 1 .. Len(log) /\ Len(log) \in Nat
      /\ expected_msg_seq_no[c] \in Nat /\ m.seq_no \in Nat
  <2>1. cursor[c] \in 0 .. Len(log) - 1 /\ Len(log) \in Nat
    BY MsgAt DEF Reads, RingInv
  <2>2. expected_msg_seq_no[c] \in Nat /\ m.seq_no \in Nat
    BY DEF RingInv, Typed, TypeOK, Message
  <2>3. QED
    BY <2>1, <2>2
<1>2. IsMsg(k) /\ SeqAt(k) = m.seq_no /\ Fits(m, k)
  BY <1>1, MsgAt DEF RingInv, LogRight
<1>3. CountsRight(c) /\ ReadRight(c)
  BY DEF RingInv, ChildRight
<1>4. m.seq_no >= expected_msg_seq_no[c]
  BY <1>1, <1>2, <1>3 DEF ReadRight
<1>5. ~(m.seq_no > expected_msg_seq_no[c])
  <2> SUFFICES ASSUME m.seq_no > expected_msg_seq_no[c] PROVE FALSE
    OBVIOUS
  <2>1. PICK j \in 1 .. k - 1 : IsMsg(j) /\ SeqAt(j) = expected_msg_seq_no[c]
    <3>1. expected_msg_seq_no[c] \in 0 .. m.seq_no - 1
      BY <1>1
    <3>2. \A u \in 0 .. m.seq_no - 1 : \E i \in 1 .. k - 1 : IsMsg(i) /\ SeqAt(i) = u
      BY <1>2 DEF Fits
    <3>3. QED
      BY <3>1, <3>2
  <2>2. j \in 1 .. Len(log) /\ j <= cursor[c]
    BY <1>1
  <2>3. SeqAt(j) < expected_msg_seq_no[c]
    BY <1>3, <2>1, <2>2 DEF ReadRight
  <2>4. QED
    BY <1>1, <2>1, <2>3
<1>6. m.seq_no = expected_msg_seq_no[c]
  BY <1>1, <1>4, <1>5
<1>7. full_membership_seen[c]
  <2>1. PICK j \in 1 .. k - 1 : IsFull(j)
    BY <1>2 DEF Fits
  <2>2. j \in 1 .. cursor[c]
    BY <1>1
  <2>3. QED
    BY <1>3, <2>1, <2>2 DEF ReadRight
<1>8. Expected(c, m)
  BY <1>2, <1>3, <1>6 DEF Expected, Fits, CountsRight
<1>9. QED
  BY <1>2, <1>6, <1>7, <1>8

(* A child that reads while no message waits has no request left. *)
LEMMA ReaderIdle ==
  ASSUME RingInv, NEW c \in Child, Reads(c), \A m \in Message : ~Waiting(c, m)
  PROVE  pend[c] = <<>>
<1>1. /\ pend[c] \in Seq(Request) /\ cursor[c] >= 0 /\ ~Ended(c)
  BY MsgAt DEF Reads, RingInv, Typed, TypeOK, Ended
<1>2. QueueRight(c)
  BY DEF RingInv, ChildRight
<1> SUFFICES ASSUME pend[c] # <<>> PROVE FALSE
  OBVIOUS
<1>3. pend[c][1] \in Request /\ 1 \in 1 .. Len(pend[c])
  BY <1>1, QueueTail
<1>4. pend[c][1] # JoinRequest /\ pend[c][1] # LeaveRequest
  BY <1>1, <1>2, <1>3, ShapesOfEvents DEF QueueRight
<1>5. QED
  BY <1>3, <1>4, KindsOfEvents DEF Waiting

------------------------------------------------------------------------------
(***************************************************************************)
(* What every step keeps.                                                  *)
(***************************************************************************)

(* The log only grows, no child forgets what it has received, and none      *)
(* forgets that it has seen all of them.                                    *)
Grows ==
  /\ Len(log) <= Len(log')
  /\ \A k \in 1 .. Len(log) : log'[k] = log[k]
  /\ \A c \in Child : /\ full_membership_seen[c] => full_membership_seen'[c]
                      /\ expected_msg_seq_no[c] <= expected_msg_seq_no'[c]

LEMMA SameEvents ==
  ASSUME Typed, Typed', Grows, NEW k \in 1 .. Len(log)
  PROVE  /\ k \in 1 .. Len(log')
         /\ IsMsg(k)' <=> IsMsg(k)
         /\ SeqAt(k)' = SeqAt(k)
         /\ IsFull(k)' <=> IsFull(k)
<1>1. Len(log) \in Nat /\ Len(log') \in Nat
  BY DEF Typed, TypeOK
<1>2. QED
  BY <1>1 DEF Grows, IsMsg, SeqAt, IsFull

LEMMA DueStays ==
  ASSUME Typed, Typed', Grows, NEW s \in Nat, Due(s)
  PROVE  Due(s)'
<1>1. 0 \in Child /\ s % NO_CHILDS \in Child
  BY TurnIsChild
<1>2. /\ expected_msg_seq_no[s % NO_CHILDS] \in Nat
      /\ expected_msg_seq_no'[s % NO_CHILDS] \in Nat
  BY <1>1 DEF Typed, TypeOK
<1>3. QED
  BY <1>1, <1>2 DEF Due, Grows

LEMMA FitsStays ==
  ASSUME Typed, Typed', Grows, NEW k \in 1 .. Len(log) + 1, NEW m \in Message, Fits(m, k)
  PROVE  Fits(m, k)'
<1>1. m.seq_no \in Nat /\ Len(log) \in Nat
  BY DEF Message, Typed, TypeOK
<1>2. Due(m.seq_no)'
  BY <1>1, DueStays DEF Fits
<1>3. \A j \in 1 .. k - 1 : /\ j \in 1 .. Len(log)
                            /\ IsMsg(j)' <=> IsMsg(j)
                            /\ SeqAt(j)' = SeqAt(j)
                            /\ IsFull(j)' <=> IsFull(j)
  BY <1>1, SameEvents
<1>4. QED
  BY <1>2, <1>3 DEF Fits

(* Nothing but a message changes what fits the end of the log. *)
LEMMA FitsAfterConfchg ==
  ASSUME Typed, Typed', Grows, NEW m \in Message, NEW n \in Nat, n = Len(log) + 1,
         Fits(m, n), Len(log') = n, log'[n].type = "confchg"
  PROVE  Fits(m, n + 1)'
<1>1. n \in 1 .. Len(log) + 1 /\ Len(log) \in Nat
  BY DEF Typed, TypeOK
<1>2. Fits(m, n)'
  BY <1>1, FitsStays
<1>3. ~IsMsg(n)'
  BY DEF IsMsg
<1>4. \A j \in 1 .. n : j = n \/ j \in 1 .. n - 1
  OBVIOUS
<1>5. \A j \in 1 .. n - 1 : j \in 1 .. n
  OBVIOUS
<1>6. QED
  BY <1>2, <1>3, <1>4, <1>5 DEF Fits

LEMMA NextGrows ==
  ASSUME RingInv, Typed', [Next]_vars
  PROVE  Grows
<1>1. /\ log \in Seq(Event) /\ Len(log) \in Nat
      /\ expected_msg_seq_no \in [Child -> Nat]
      /\ full_membership_seen \in [Child -> BOOLEAN]
  BY DEF RingInv, Typed, TypeOK
<1>2. ASSUME UNCHANGED log, UNCHANGED callback PROVE Grows
  BY <1>1, <1>2 DEF Grows, callback, received
<1>3. ASSUME NEW p \in Child, DaemonOrders(p) PROVE Grows
  <2>1. PICK e \in Event : log' = Append(log, e)
    BY <1>3, OrderCases, ShapesOfEvents DEF RingInv, OrderJoin, OrderLeave, OrderMsg, Typed, TypeOK
  <2>2. QED
    BY <1>1, <1>3, <2>1, LogAppend DEF DaemonOrders, callback, received, Grows
<1>4. ASSUME NEW c \in Child, Dispatch(c) PROVE Grows
  <2>1. CASE ReadOther(c)
    BY <1>2, <2>1 DEF ReadOther, Reads
  <2>2. CASE ReadFull(c)
    BY <1>1, <2>2 DEF ReadFull, Reads, Grows, received
  <2>3. ASSUME NEW m \in Message, ReadMsg(c, m) PROVE Grows
    BY <1>1, <2>3 DEF ReadMsg, Reads, Grows
  <2>4. ASSUME NEW m \in Message, ReadWrong(c, m) PROVE Grows
    BY <1>2, <2>4 DEF ReadWrong, Reads
  <2>5. QED
    BY <1>4, <2>1, <2>2, <2>3, <2>4, DispatchCases DEF RingInv
<1>5. CASE ParentStep
  BY <1>2, <1>5 DEF ParentStep, ForkChild, AllForked, WaitFails, WaitChild, cpgVars
<1>6. CASE ForkFails
  BY <1>2, <1>6 DEF ForkFails, cpgVars
<1>7. ASSUME NEW c \in Child, ChildStep(c) \/ ApiFails(c) PROVE Grows
  BY <1>2, <1>4, <1>7 DEF ChildStep, Join, Poll, DispatchEnds, Leave, ApiFails, Abort, cpgVars
<1>8. CASE UNCHANGED vars
  BY <1>2, <1>8 DEF vars, cpgVars
<1>9. QED
  BY <1>3, <1>5, <1>6, <1>7, <1>8 DEF Next

(* While the log and the counters stay, what was read and what fits stays. *)
LEMMA LogRightStays ==
  ASSUME RingInv, Typed', Grows, UNCHANGED log
  PROVE  LogRight'
<1> SUFFICES ASSUME NEW k \in 1 .. Len(log), NEW m \in Message, log[k] = MsgRequest(m)
             PROVE  Fits(m, k)'
  BY DEF LogRight
<1>1. Fits(m, k) /\ k \in 1 .. Len(log) + 1
  BY MsgAt DEF RingInv, LogRight
<1>2. QED
  BY <1>1, FitsStays DEF RingInv

LEMMA PendRightStays ==
  ASSUME RingInv, Typed', Grows, UNCHANGED log,
         \A d \in Child, m \in Message : Waiting(d, m)' => Waiting(d, m)
  PROVE  PendRight'
<1> SUFFICES ASSUME NEW d \in Child, NEW m \in Message, Waiting(d, m)'
             PROVE  m.sender_id = d /\ Fits(m, Len(log) + 1)'
  BY DEF PendRight
<1>1. PICK n \in Nat : n = Len(log) + 1
  BY MsgAt DEF RingInv
<1>2. m.sender_id = d /\ Fits(m, n)
  BY <1>1 DEF RingInv, PendRight
<1>3. Fits(m, n)' /\ Len(log') + 1 = n
  BY <1>1, <1>2, FitsStays DEF RingInv
<1>4. QED
  BY <1>2, <1>3

LEMMA ReadRightStays ==
  ASSUME RingInv, Typed', Grows, NEW c \in Child, UNCHANGED log,
         cursor'[c] = cursor[c], expected_msg_seq_no'[c] = expected_msg_seq_no[c]
  PROVE  ReadRight(c)'
<1>1. ReadRight(c)
  BY DEF RingInv, ChildRight
<1>2. cursor[c] \in -1 .. Len(log) /\ Len(log) \in Nat
  BY MsgAt DEF RingInv, Typed, TypeOK
<1>3. \A k \in 1 .. Len(log) : /\ IsMsg(k)' <=> IsMsg(k)
                               /\ SeqAt(k)' = SeqAt(k)
                               /\ IsFull(k)' <=> IsFull(k)
  BY SameEvents DEF RingInv
<1>4. \A k \in 1 .. cursor[c] : k \in 1 .. Len(log)
  BY <1>2
<1>5. full_membership_seen[c] => full_membership_seen'[c]
  BY DEF Grows
<1>6. QED
  BY <1>1, <1>3, <1>4, <1>5 DEF ReadRight

LEMMA GroupRightStays ==
  ASSUME RingInv, Typed', Grows, UNCHANGED <<log, members>>,
         \A c \in Child : cursor'[c] >= 0 <=> cursor[c] >= 0
  PROVE  GroupRight'
<1>1. \A k \in 1 .. Len(log) : IsFull(k)' <=> IsFull(k)
  BY SameEvents DEF RingInv
<1>2. members \in SUBSET Child
  BY DEF RingInv, Typed, TypeOK
<1>3. QED
  BY <1>1, <1>2 DEF RingInv, GroupRight

LEMMA QueueRightStays ==
  ASSUME RingInv, NEW c \in Child, pend'[c] = pend[c], cursor'[c] = cursor[c],
         Ended(c) => Ended(c)', pc'[c] \in {"none", "start"} => pc[c] \in {"none", "start"}
  PROVE  QueueRight(c)'
<1>1. QueueRight(c) /\ pend[c] \in Seq(Request)
  BY DEF RingInv, ChildRight, Typed, TypeOK
<1>2. Len(pend[c]) \in Nat
  BY <1>1
<1>3. QED
  BY <1>1, <1>2 DEF QueueRight

(* Steps that touch neither the group nor the callbacks' variables. *)
LEMMA IdleStep ==
  ASSUME RingInv, Typed', Grows, UNCHANGED <<cpgVars, callback>>,
         \A c \in Child :
           /\ pc'[c] # "mismatch"
           /\ Ended(c) => Ended(c)'
           /\ pc'[c] \in {"none", "start"} => pc[c] \in {"none", "start"}
  PROVE  RingInv'
<1>1. UNCHANGED <<log, pend, members, cursor>>
  BY DEF cpgVars
<1>2. UNCHANGED <<full_membership_seen, sent_rand_seed, received_rand_seed,
                  expected_sender_id, expected_msg_seq_no>>
  BY DEF callback, received
<1>3. \A d \in Child, m \in Message : Waiting(d, m)' => Waiting(d, m)
  BY <1>1 DEF Waiting
<1>4. LogRight' /\ PendRight' /\ GroupRight'
  BY <1>1, <1>3, LogRightStays, PendRightStays, GroupRightStays
<1>5. ASSUME NEW c \in Child PROVE ChildRight(c)'
  <2>1. CountsRight(c)'
    BY <1>2 DEF RingInv, ChildRight, CountsRight
  <2>2. ReadRight(c)' /\ QueueRight(c)'
    BY <1>1, <1>2, ReadRightStays, QueueRightStays
  <2>3. QED
    BY <2>1, <2>2 DEF ChildRight
<1>6. QED
  BY <1>4, <1>5 DEF RingInv

(* Steps that only ask for a join or a leave. *)
LEMMA AskStep ==
  ASSUME RingInv, Typed', Grows, NEW p \in Child, NEW r \in {JoinRequest, LeaveRequest},
         Ask(p, r), UNCHANGED <<log, members, cursor, callback>>,
         \A c \in Child \ {p} : pc'[c] = pc[c],
         \/ r = JoinRequest /\ pc[p] = "start" /\ pc'[p] = "poll"
         \/ r = LeaveRequest /\ ~Ended(p) /\ pc'[p] \in {"exited", "aborted"}
  PROVE  RingInv'
<1>1. UNCHANGED <<full_membership_seen, sent_rand_seed, received_rand_seed,
                  expected_sender_id, expected_msg_seq_no>>
  BY DEF callback, received
<1>2. /\ pend \in [Child -> Seq(Request)] /\ pend[p] \in Seq(Request)
      /\ r \in Request /\ r.type \in {"join", "leave"}
      /\ QueueRight(p)
  BY ShapesOfEvents DEF RingInv, Typed, TypeOK, ChildRight
<1>3. /\ pend'[p] = Append(pend[p], r)
      /\ \A d \in Child \ {p} : pend'[d] = pend[d]
  BY <1>2 DEF Ask
<1>4. /\ Len(pend'[p]) = Len(pend[p]) + 1 /\ Len(pend[p]) \in Nat
      /\ pend'[p][Len(pend[p]) + 1] = r
      /\ \A i \in 1 .. Len(pend[p]) : pend'[p][i] = pend[p][i]
      /\ pend[p] = <<>> <=> Len(pend[p]) = 0
  BY <1>2, <1>3, QueueAppend
<1>5. ASSUME NEW d \in Child, NEW m \in Message, Waiting(d, m)' PROVE Waiting(d, m)
  <2>1. CASE d # p
    BY <1>3, <1>5, <2>1 DEF Waiting
  <2>2. CASE d = p /\ pend[p] = <<>>
    BY <1>2, <1>4, <1>5, <2>2, ShapesOfEvents DEF Waiting
  <2>3. CASE d = p /\ pend[p] # <<>>
    BY <1>4, <1>5, <2>3 DEF Waiting
  <2>4. QED
    BY <2>1, <2>2, <2>3
<1>6. LogRight' /\ PendRight' /\ GroupRight'
  BY <1>5, LogRightStays, PendRightStays, GroupRightStays
<1>7. QueueRight(p)'
  <2>1. CASE r = JoinRequest
    <3>1. pend[p] = <<>> /\ cursor'[p] = -1 /\ pc'[p] = "poll" /\ r.type = "join"
      BY <1>2, <2>1, ShapesOfEvents DEF QueueRight, JoinRequest, LeaveRequest
    <3>2. Len(pend'[p]) = 1 /\ pend'[p][1] = r
      BY <1>4, <3>1
    <3>3. QED
      BY <3>1, <3>2 DEF QueueRight
  <2>2. CASE r = LeaveRequest
    <3>1. /\ Len(pend[p]) <= 1 /\ pc'[p] \in {"exited", "aborted"} /\ r.type = "leave"
          /\ ~Ended(p)
      BY <1>2, <2>2, ShapesOfEvents DEF QueueRight, JoinRequest, LeaveRequest
    <3>2. Len(pend'[p]) <= 2 /\ Ended(p)' /\ ~(pc'[p] \in {"none", "start"})
      BY <1>4, <3>1 DEF Ended
    <3>3. ASSUME NEW i \in 1 .. Len(pend'[p])
          PROVE  /\ pend'[p][i].type = "join" => i = 1 /\ cursor[p] = -1
                 /\ pend'[p][i].type = "msg" => i = 1
      <4>1. i \in 1 .. Len(pend[p]) \/ i = Len(pend[p]) + 1
        BY <1>4
      <4>2. QED
        BY <1>2, <1>4, <3>1, <4>1 DEF QueueRight
    <3>4. QED
      BY <3>2, <3>3 DEF QueueRight
  <2>3. QED
    BY <2>1, <2>2
<1>8. ASSUME NEW c \in Child PROVE ChildRight(c)'
  <2>1. CountsRight(c)'
    BY <1>1 DEF RingInv, ChildRight, CountsRight
  <2>2. ReadRight(c)'
    BY <1>1, ReadRightStays
  <2>3. QueueRight(c)'
    BY <1>3, <1>7, QueueRightStays DEF Ended
  <2>4. pc'[c] # "mismatch"
    BY DEF RingInv, ChildRight
  <2>5. QED
    BY <2>1, <2>2, <2>3, <2>4 DEF ChildRight
<1>9. QED
  BY <1>6, <1>8 DEF RingInv

(* The daemon orders a request: what is left of the queues. *)
LEMMA OrderQueues ==
  ASSUME RingInv, NEW p \in Child, Ordered(p), UNCHANGED pc,
         \A d \in Child \ {p} : cursor'[d] = cursor[d]
  PROVE  /\ \A c \in Child : QueueRight(c)'
         /\ \A d \in Child, m \in Message : Waiting(d, m)' => d # p /\ Waiting(d, m)
<1>1. /\ pend \in [Child -> Seq(Request)] /\ pend[p] \in Seq(Request) /\ pend[p] # <<>>
      /\ QueueRight(p)
  BY DEF RingInv, Typed, TypeOK, ChildRight, Ordered
<1>2. pend'[p] = Tail(pend[p]) /\ \A d \in Child \ {p} : pend'[d] = pend[d]
  BY <1>1 DEF Ordered
<1>3. /\ Len(pend'[p]) = Len(pend[p]) - 1 /\ Len(pend[p]) \in Nat \ {0}
      /\ \A i \in 1 .. Len(pend[p]) - 1 : pend'[p][i] = pend[p][i + 1]
      /\ pend'[p] # <<>> <=> Len(pend[p]) > 1
  BY <1>1, <1>2, QueueTail
<1>4. ASSUME NEW i \in 1 .. Len(pend'[p])
      PROVE  /\ pend'[p][i].type # "join" /\ pend'[p][i].type # "msg"
             /\ pend'[p][i].type = "leave" => Ended(p)
  <2>1. i + 1 \in 1 .. Len(pend[p]) /\ i + 1 # 1 /\ pend'[p][i] = pend[p][i + 1]
    BY <1>3
  <2>2. QED
    BY <1>1, <2>1 DEF QueueRight
<1>5. QueueRight(p)'
  <2>1. ~(pc[p] \in {"none", "start"})
    BY <1>1 DEF QueueRight
  <2>2. Len(pend'[p]) <= IF Ended(p)' THEN 2 ELSE 1
    BY <1>1, <1>3 DEF QueueRight, Ended
  <2>3. Ended(p)' <=> Ended(p)
    BY DEF Ended
  <2>4. QED
    BY <1>4, <2>1, <2>2, <2>3 DEF QueueRight
<1>6. ASSUME NEW d \in Child, NEW m \in Message, Waiting(d, m)'
      PROVE  d # p /\ Waiting(d, m)
  <2>1. d # p
    <3> SUFFICES ASSUME d = p PROVE FALSE
      OBVIOUS
    <3>1. 1 \in 1 .. Len(pend'[p]) /\ pend'[p][1] = MsgRequest(m)
      BY <1>3, <1>6 DEF Waiting
    <3>2. QED
      BY <1>4, <3>1, ShapesOfEvents
  <2>2. QED
    BY <1>2, <1>6, <2>1 DEF Waiting
<1>7. ASSUME NEW c \in Child PROVE QueueRight(c)'
  BY <1>2, <1>5, QueueRightStays DEF Ended
<1>8. QED
  BY <1>6, <1>7

LEMMA LogRightOrder ==
  ASSUME RingInv, Typed', Grows, NEW e \in Event, log' = Append(log, e),
         NEW n \in Nat, n = Len(log) + 1,
         \A m \in Message : e = MsgRequest(m) => Fits(m, n)
  PROVE  LogRight'
<1>1. log \in Seq(Event) /\ Len(log) \in Nat
  BY DEF RingInv, Typed, TypeOK
<1>2. Len(log') = n /\ log'[n] = e /\ \A k \in 1 .. Len(log) : log'[k] = log[k]
  BY <1>1, LogAppend
<1> SUFFICES ASSUME NEW k \in 1 .. Len(log'), NEW m \in Message, log'[k] = MsgRequest(m)
             PROVE  Fits(m, k)'
  BY DEF LogRight
<1>3. CASE k \in 1 .. Len(log)
  <2>1. Fits(m, k) /\ k \in 1 .. Len(log) + 1
    BY <1>1, <1>2, <1>3 DEF RingInv, LogRight
  <2>2. QED
    BY <2>1, FitsStays DEF RingInv
<1>4. CASE k = n
  <2>1. Fits(m, n) /\ n \in 1 .. Len(log) + 1
    BY <1>1, <1>2, <1>4
  <2>2. QED
    BY <1>4, <2>1, FitsStays DEF RingInv
<1>5. QED
  BY <1>1, <1>2, <1>3, <1>4

LEMMA ReadRightOrder ==
  ASSUME RingInv, Typed', Grows, NEW e \in Event, log' = Append(log, e),
         NEW n \in Nat, n = Len(log) + 1,
         \A m \in Message : e = MsgRequest(m) => Fits(m, n),
         NEW c \in Child, cursor'[c] = cursor[c], expected_msg_seq_no'[c] = expected_msg_seq_no[c]
  PROVE  ReadRight(c)'
<1>1. log \in Seq(Event) /\ Len(log) \in Nat /\ cursor[c] \in -1 .. Len(log)
      /\ expected_msg_seq_no[c] \in Nat
  BY DEF RingInv, Typed, TypeOK
<1>2. Len(log') = n /\ log'[n] = e
  BY <1>1, LogAppend
<1>3. ReadRight(c)
  BY DEF RingInv, ChildRight
<1>4. \A k \in 1 .. Len(log) : /\ IsMsg(k)' <=> IsMsg(k)
                               /\ SeqAt(k)' = SeqAt(k)
                               /\ IsFull(k)' <=> IsFull(k)
  BY SameEvents DEF RingInv
<1>5. ASSUME IsMsg(n)' PROVE SeqAt(n)' >= expected_msg_seq_no[c]
  <2>1. PICK m \in Message : e = MsgRequest(m) /\ SeqAt(n)' = m.seq_no
    BY <1>2, <1>5, KindsOfEvents DEF IsMsg, SeqAt
  <2>2. Fits(m, n) /\ m.seq_no \in Nat
    BY <2>1 DEF Message
  <2>3. CASE expected_msg_seq_no[c] = 0
    BY <2>1, <2>2, <2>3
  <2>4. CASE expected_msg_seq_no[c] > 0
    <3>1. PICK k \in 1 .. cursor[c] : IsMsg(k) /\ SeqAt(k) = expected_msg_seq_no[c] - 1
      BY <1>3, <2>4 DEF ReadRight
    <3>2. k \in 1 .. n - 1
      BY <1>1
    <3>3. SeqAt(k) < m.seq_no
      BY <2>2, <3>1, <3>2 DEF Fits
    <3>4. QED
      BY <1>1, <2>1, <2>2, <3>1, <3>3
  <2>5. QED
    BY <1>1, <2>3, <2>4
<1>6. \A k \in 1 .. Len(log') : k \in 1 .. Len(log) \/ k = n
  BY <1>1, <1>2
<1>7. \A k \in 1 .. cursor[c] : k \in 1 .. Len(log) /\ k # n
  BY <1>1
<1>8. ASSUME NEW k \in 1 .. Len(log'), IsMsg(k)'
      PROVE  /\ k <= cursor'[c] => SeqAt(k)' < expected_msg_seq_no'[c]
             /\ 0 <= cursor'[c] /\ cursor'[c] < k => SeqAt(k)' >= expected_msg_seq_no'[c]
  <2>1. CASE k \in 1 .. Len(log)
    BY <1>3, <1>4, <1>8, <2>1 DEF ReadRight
  <2>2. CASE k = n
    BY <1>1, <1>5, <1>8, <2>2
  <2>3. QED
    BY <1>6, <2>1, <2>2
<1>9. expected_msg_seq_no'[c] > 0 =>
        \E k \in 1 .. cursor'[c] : IsMsg(k)' /\ SeqAt(k)' = expected_msg_seq_no'[c] - 1
  BY <1>3, <1>4, <1>7 DEF ReadRight
<1>10. \A k \in 1 .. cursor'[c] : IsFull(k)' => full_membership_seen'[c]
  BY <1>3, <1>4, <1>7 DEF ReadRight, Grows
<1>11. QED
  BY <1>8, <1>9, <1>10 DEF ReadRight

LEMMA PendRightOrder ==
  ASSUME RingInv, Typed', Grows, NEW e \in Event, log' = Append(log, e),
         NEW n \in Nat, n = Len(log) + 1,
         NEW p \in Child, \A m \in Message : e = MsgRequest(m) => Waiting(p, m),
         \A d \in Child, m \in Message : Waiting(d, m)' => d # p /\ Waiting(d, m)
  PROVE  PendRight'
<1>1. log \in Seq(Event) /\ Len(log) \in Nat
  BY DEF RingInv, Typed, TypeOK
<1>2. Len(log') = n /\ log'[n] = e
  BY <1>1, LogAppend
<1> SUFFICES ASSUME NEW d \in Child, NEW m \in Message, Waiting(d, m)'
             PROVE  m.sender_id = d /\ Fits(m, n + 1)'
  BY <1>2 DEF PendRight
<1>3. d # p /\ m.sender_id = d /\ Fits(m, n)
  BY DEF RingInv, PendRight
<1>4. CASE e.type = "confchg"
  <2>1. Fits(m, n + 1)'
    BY <1>2, <1>3, <1>4, FitsAfterConfchg DEF RingInv
  <2>2. QED
    BY <1>3, <2>1
<1>5. ASSUME NEW first \in Message, e = MsgRequest(first) PROVE FALSE
  <2>1. first.sender_id = p /\ Fits(first, n)
    BY <1>5 DEF RingInv, PendRight
  <2>2. first.seq_no = m.seq_no
    BY <1>3, <2>1, OneFits
  <2>3. QED
    BY <1>3, <2>1, <2>2 DEF Fits
<1>6. QED
  BY <1>4, <1>5, KindsOfEvents

(* A child that joins has missed nothing. *)
LEMMA ReadRightJoin ==
  ASSUME RingInv, Typed', Grows, NEW p \in Child, NEW n \in Nat, n = Len(log) + 1,
         cursor[p] = -1, cursor'[p] = Len(log), UNCHANGED expected_msg_seq_no,
         Len(log') = n, log'[n].type = "confchg"
  PROVE  ReadRight(p)'
<1>1. /\ Len(log) \in Nat /\ expected_msg_seq_no[p] \in Nat
      /\ \A k \in 1 .. Len(log) : ~IsFull(k)
  <2>1. Len(log) \in Nat /\ expected_msg_seq_no[p] \in Nat
    BY MsgAt, TypedParts DEF RingInv, CountsTyped
  <2>2. \A k \in 1 .. Len(log) : IsFull(k) => cursor[p] >= 0
    BY DEF RingInv, GroupRight
  <2>3. QED
    BY <2>1, <2>2
<1>2. \A k \in 1 .. Len(log) : ~IsMsg(k)
  <2> SUFFICES ASSUME NEW k \in 1 .. Len(log), IsMsg(k) PROVE FALSE
    OBVIOUS
  <2>1. PICK m \in Message : Fits(m, k)
    BY MsgFits
  <2>2. PICK j \in 1 .. k - 1 : IsFull(j)
    BY <2>1 DEF Fits
  <2>3. j \in 1 .. Len(log)
    BY <1>1
  <2>4. QED
    BY <1>1, <2>2, <2>3
<1>3. expected_msg_seq_no[p] = 0
  <2>1. ReadRight(p)
    BY DEF RingInv, ChildRight
  <2>2. ~\E k \in 1 .. cursor[p] : TRUE
    OBVIOUS
  <2>3. QED
    BY <1>1, <2>1, <2>2 DEF ReadRight
<1>4. \A k \in 1 .. Len(log) : ~IsMsg(k)' /\ ~IsFull(k)'
  BY <1>1, <1>2, SameEvents DEF RingInv
<1>5. ~IsMsg(n)'
  BY DEF IsMsg
<1>6. \A k \in 1 .. Len(log') : k \in 1 .. Len(log) \/ k = n
  BY <1>1
<1>7. QED
  BY <1>3, <1>4, <1>5, <1>6 DEF ReadRight

(* The daemon orders a request. *)
LEMMA OrderStep ==
  ASSUME RingInv, Typed', Grows, NEW p \in Child, DaemonOrders(p)
  PROVE  RingInv'
<1>1. /\ log \in Seq(Event) /\ Len(log) \in Nat /\ members \in SUBSET Child
      /\ cursor \in [Child -> Int] /\ \A c \in Child : cursor[c] \in -1 .. Len(log)
      /\ UNCHANGED pc
  <2>1. Typed
    BY DEF RingInv
  <2>2. /\ log \in Seq(Event) /\ Len(log) \in Nat /\ members \in SUBSET Child
        /\ cursor \in [Child -> Int] /\ \A c \in Child : cursor[c] \in -1 .. Len(log)
    BY <2>1, TypedParts, MsgAt DEF GroupTyped
  <2>3. QED
    BY <2>2 DEF DaemonOrders
<1>2. UNCHANGED <<full_membership_seen, sent_rand_seed, received_rand_seed,
                  expected_sender_id, expected_msg_seq_no>>
  BY DEF DaemonOrders, callback, received
<1>3. PICK n \in Nat : n = Len(log) + 1
  BY <1>1
<1>4. Ordered(p) /\ pend[p] \in Seq(Request) /\ 1 \in 1 .. Len(pend[p])
  <2>1. Typed /\ pend[p] \in Seq(Request)
    BY DEF RingInv, Typed, TypeOK
  <2>2. Ordered(p) /\ pend[p] # <<>>
    BY <2>1, OrderCases DEF OrderJoin, OrderLeave, OrderMsg, Ordered
  <2>3. QED
    BY <2>1, <2>2, QueueTail
<1>5. PICK e \in Event :
        /\ log' = Append(log, e)
        /\ \A m \in Message : e = MsgRequest(m) => Waiting(p, m)
        /\ e.type = "confchg" => e.members = members'
        /\ e.type = "msg" => members' = members
        /\ \/ cursor' = cursor /\ members' \subseteq members
           \/ /\ e.type = "confchg" /\ cursor[p] = -1
              /\ cursor' = [cursor EXCEPT ![p] = Len(log)]
              /\ members' = members \cup {p}
  <2>1. CASE OrderJoin(p)
    <3>1. cursor[p] = -1
      BY <1>4, <2>1, ShapesOfEvents DEF RingInv, ChildRight, QueueRight, OrderJoin
    <3>2. PICK e \in Event : /\ e = Confchg(members \cup {p})
                             /\ e.type = "confchg" /\ e.members = members \cup {p}
      BY <1>1, ShapesOfEvents
    <3>3. \A m \in Message : e # MsgRequest(m)
      BY <3>2, ShapesOfEvents
    <3>4. QED
      BY <2>1, <3>1, <3>2, <3>3 DEF OrderJoin
  <2>2. CASE OrderLeave(p)
    <3>1. PICK e \in Event : /\ e = Confchg(members \ {p})
                             /\ e.type = "confchg" /\ e.members = members \ {p}
      BY <1>1, ShapesOfEvents
    <3>2. \A m \in Message : e # MsgRequest(m)
      BY <3>1, ShapesOfEvents
    <3>3. QED
      BY <2>2, <3>1, <3>2 DEF OrderLeave
  <2>3. ASSUME NEW m \in Message, OrderMsg(p, m)
        PROVE  MsgRequest(m) \in Event /\ MsgRequest(m).type = "msg" /\ Ordered(p)
               /\ log' = Append(log, MsgRequest(m)) /\ cursor' = cursor /\ members' = members
               /\ \A k \in Message : MsgRequest(m) = MsgRequest(k) => Waiting(p, k)
    BY <2>3, ShapesOfEvents DEF OrderMsg, Waiting, Ordered
  <2>4. QED
    BY <2>1, <2>2, <2>3, OrderCases DEF RingInv
<1>6. /\ Len(log') = n /\ log'[n] = e
      /\ \A d \in Child \ {p} : cursor'[d] = cursor[d]
  BY <1>1, <1>3, <1>5, LogAppend
<1>7. /\ \A c \in Child : QueueRight(c)'
      /\ \A d \in Child, m \in Message : Waiting(d, m)' => d # p /\ Waiting(d, m)
  BY <1>1, <1>4, <1>6, OrderQueues
<1>8. \A m \in Message : e = MsgRequest(m) => Fits(m, n)
  BY <1>3, <1>5 DEF RingInv, PendRight
<1>9. LogRight' /\ PendRight'
  BY <1>3, <1>5, <1>7, <1>8, LogRightOrder, PendRightOrder
<1>10. ASSUME NEW c \in Child PROVE ReadRight(c)'
  <2>1. CASE cursor'[c] = cursor[c]
    BY <1>2, <1>3, <1>5, <1>8, <2>1, ReadRightOrder
  <2>2. CASE c = p /\ e.type = "confchg" /\ cursor[p] = -1 /\ cursor'[p] = Len(log)
    BY <1>2, <1>3, <1>6, <2>2, ReadRightJoin
  <2>3. QED
    BY <1>1, <1>5, <1>6, <2>1, <2>2
<1>11. GroupRight'
  <2>1. \A c \in Child : cursor[c] >= 0 => cursor'[c] >= 0
    BY <1>1, <1>5
  <2>2. \A c \in members' : cursor'[c] >= 0
    BY <1>1, <1>5, <2>1 DEF RingInv, GroupRight
  <2>3. ASSUME NEW k \in 1 .. Len(log'), IsFull(k)', NEW c \in Child PROVE cursor'[c] >= 0
    <3>1. CASE k \in 1 .. Len(log)
      BY <2>1, <2>3, <3>1, SameEvents DEF RingInv, GroupRight
    <3>2. CASE k = n
      <4>1. e.type = "confchg" /\ Cardinality(e.members) = NO_CHILDS
        BY <1>6, <2>3, <3>2 DEF IsFull
      <4>2. members' = Child
        BY <1>1, <1>5, <4>1, FullIsAll
      <4>3. QED
        BY <2>2, <4>2
    <3>3. QED
      BY <1>1, <1>3, <1>6, <3>1, <3>2
  <2>4. QED
    BY <2>2, <2>3 DEF GroupRight
<1>12. ASSUME NEW c \in Child PROVE ChildRight(c)'
  <2>1. CountsRight(c)' /\ pc'[c] # "mismatch"
    BY <1>1, <1>2 DEF RingInv, ChildRight, CountsRight
  <2>2. QED
    BY <1>7, <1>10, <2>1 DEF ChildRight
<1>13. QED
  BY <1>9, <1>11, <1>12 DEF RingInv

(* A child reads an event: what it has read so far. *)
LEMMA ReadRightReads ==
  ASSUME RingInv, Typed', Grows, NEW c \in Child, Reads(c),
         IsMsg(cursor[c] + 1) =>
           /\ SeqAt(cursor[c] + 1) = expected_msg_seq_no[c]
           /\ expected_msg_seq_no'[c] = expected_msg_seq_no[c] + 1,
         ~IsMsg(cursor[c] + 1) => expected_msg_seq_no'[c] = expected_msg_seq_no[c],
         IsFull(cursor[c] + 1) => full_membership_seen'[c]
  PROVE  ReadRight(c)'
<1>1. PICK k \in Nat : k = cursor[c] + 1 /\ k \in 1 .. Len(log) /\ Len(log) \in Nat
  <2>1. Len(log) \in Nat /\ cursor[c] \in 0 .. Len(log) - 1
    BY MsgAt DEF RingInv, Reads
  <2>2. QED
    BY <2>1
<1>2. cursor'[c] = k /\ UNCHANGED log /\ cursor[c] = k - 1
  BY <1>1 DEF Reads, RingInv, Typed
<1>3. PICK r \in Nat : r = expected_msg_seq_no[c]
  BY DEF RingInv, Typed, TypeOK
<1>4. ReadRight(c)
  BY DEF RingInv, ChildRight
<1>5. \A j \in 1 .. Len(log) : /\ IsMsg(j)' <=> IsMsg(j)
                               /\ SeqAt(j)' = SeqAt(j)
                               /\ IsFull(j)' <=> IsFull(j)
  BY SameEvents DEF RingInv
<1>6. \A j : IsMsg(j) => SeqAt(j) \in Nat /\ j \in 1 .. Len(log)
  BY MsgAt DEF RingInv
<1>7. \A j \in 1 .. k : j \in 1 .. k - 1 \/ j = k
  BY <1>1
<1>8. \A j \in 1 .. k : IsFull(j)' => full_membership_seen'[c]
  BY <1>1, <1>2, <1>4, <1>5, <1>7 DEF ReadRight, Grows
<1>9. CASE ~IsMsg(k)
  <2>1. expected_msg_seq_no'[c] = r
    BY <1>1, <1>3, <1>9
  <2>2. ASSUME NEW j \in 1 .. Len(log), IsMsg(j)
        PROVE  /\ j <= k => SeqAt(j) < r
               /\ k < j => SeqAt(j) >= r
    BY <1>1, <1>2, <1>3, <1>4, <1>9, <2>2 DEF ReadRight
  <2>3. r > 0 => \E j \in 1 .. k : IsMsg(j) /\ SeqAt(j) = r - 1
    <3>1. \A j \in 1 .. k - 1 : j \in 1 .. k
      BY <1>1
    <3>2. QED
      BY <1>2, <1>3, <1>4, <3>1 DEF ReadRight
  <2>4. \A j \in 1 .. k : j \in 1 .. Len(log)
    BY <1>1
  <2>5. QED
    BY <1>1, <1>2, <1>5, <1>8, <2>1, <2>2, <2>3, <2>4 DEF ReadRight
<1>10. CASE IsMsg(k)
  <2>1. SeqAt(k) = r /\ expected_msg_seq_no'[c] = r + 1
    BY <1>1, <1>3, <1>10
  <2>2. PICK m \in Message : SeqAt(k) = m.seq_no /\ Fits(m, k)
    BY <1>10, MsgFits
  <2>3. ASSUME NEW j \in 1 .. Len(log), IsMsg(j)
        PROVE  /\ j <= k => SeqAt(j) < r + 1
               /\ k < j => SeqAt(j) >= r + 1
    <3>1. CASE j < k
      <4>1. SeqAt(j) < r
        BY <1>1, <1>2, <1>3, <1>4, <2>3, <3>1 DEF ReadRight
      <4>2. QED
        BY <1>1, <1>3, <1>6, <2>3, <3>1, <4>1
    <3>2. CASE j = k
      BY <1>3, <2>1, <3>2
    <3>3. CASE j > k
      <4>1. PICK n \in Message : SeqAt(j) = n.seq_no /\ Fits(n, j)
        BY <2>3, MsgFits
      <4>2. k \in 1 .. j - 1
        BY <1>1, <3>3
      <4>3. r < SeqAt(j)
        BY <1>10, <2>1, <4>1, <4>2 DEF Fits
      <4>4. QED
        BY <1>1, <1>3, <1>6, <2>3, <3>3, <4>3
    <3>4. QED
      BY <1>1, <3>1, <3>2, <3>3
  <2>4. \E j \in 1 .. k : IsMsg(j) /\ SeqAt(j) = (r + 1) - 1
    BY <1>1, <1>3, <1>10, <2>1
  <2>5. \A j \in 1 .. k : j \in 1 .. Len(log)
    BY <1>1
  <2>6. QED
    BY <1>1, <1>2, <1>5, <1>8, <2>1, <2>3, <2>4, <2>5 DEF ReadRight
<1>11. QED
  BY <1>9, <1>10

(* A child reads an event and sends nothing: the group and the queues. *)
LEMMA SilentRead ==
  ASSUME RingInv, Typed', Grows, NEW c \in Child, Reads(c), pend' = pend, pc' = pc
  PROVE  /\ LogRight' /\ PendRight' /\ GroupRight'
         /\ \A d \in Child : QueueRight(d)'
<1>1. /\ cursor[c] >= 0 /\ cursor'[c] >= 0 /\ pc[c] = "dispatch"
      /\ \A d \in Child \ {c} : cursor'[d] = cursor[d]
      /\ UNCHANGED <<log, members>>
  BY DEF Reads, RingInv, Typed
<1>2. \A d \in Child, m \in Message : Waiting(d, m)' => Waiting(d, m)
  BY DEF Waiting
<1>3. LogRight' /\ PendRight' /\ GroupRight'
  BY <1>1, <1>2, LogRightStays, PendRightStays, GroupRightStays
<1>4. QueueRight(c)'
  <2>1. QueueRight(c) /\ cursor[c] # -1
    BY <1>1 DEF RingInv, ChildRight
  <2>2. Ended(c)' <=> Ended(c)
    BY DEF Ended
  <2>3. QED
    BY <1>1, <2>1, <2>2 DEF QueueRight
<1>5. ASSUME NEW d \in Child \ {c} PROVE QueueRight(d)'
  BY <1>1, QueueRightStays DEF Ended
<1>6. QED
  BY <1>3, <1>4, <1>5

(* A child reads an event and sends message s, which has become due. *)
LEMMA SendingRead ==
  ASSUME RingInv, Typed', Grows, NEW c \in Child, Reads(c), NEW s \in Nat, Sends(c, s),
         s % NO_CHILDS = c, sent_rand_seed[c] = s, ~Due(s), Due(s)',
         \A u \in 0 .. s - 1 : \E j : IsMsg(j) /\ SeqAt(j) = u,
         \E j \in 1 .. Len(log) : IsFull(j)
  PROVE  /\ LogRight' /\ PendRight' /\ GroupRight'
         /\ \A d \in Child : QueueRight(d)'
<1>1. /\ cursor[c] >= 0 /\ cursor'[c] >= 0 /\ pc[c] = "dispatch"
      /\ \A d \in Child \ {c} : cursor'[d] = cursor[d]
      /\ UNCHANGED <<log, members, pc>>
  BY DEF Reads, Sends, RingInv, Typed
<1>2. \A d \in Child, m \in Message : ~Waiting(d, m)
  BY NoneWaiting
<1>3. pend[c] = <<>> /\ pend \in [Child -> Seq(Request)]
  BY <1>2, ReaderIdle DEF RingInv, Typed, TypeOK
<1>4. PICK new \in Message : new = [sender_id |-> c, seq_no |-> s, block |-> sent_rand_seed[c]]
  BY DEF Message
<1>5. /\ pend'[c] = Append(<<>>, MsgRequest(new))
      /\ \A d \in Child \ {c} : pend'[d] = pend[d]
  BY <1>3, <1>4 DEF Sends
<1>6. Len(pend'[c]) = 1 /\ pend'[c][1] = MsgRequest(new) /\ MsgRequest(new).type = "msg"
      /\ pend'[c] # <<>>
  <2>1. MsgRequest(new) \in Request /\ MsgRequest(new).type = "msg" /\ <<>> \in Seq(Request)
        /\ Len(<<>>) = 0
    BY ShapesOfEvents, EmptySeq
  <2>2. QED
    BY <1>5, <2>1, QueueAppend
<1>7. ASSUME NEW d \in Child, NEW m \in Message, Waiting(d, m)'
      PROVE  d = c /\ m = new
  <2>1. d = c
    BY <1>2, <1>5, <1>7 DEF Waiting
  <2>2. MsgRequest(m) = MsgRequest(new)
    BY <1>6, <1>7, <2>1 DEF Waiting
  <2>3. QED
    BY <2>1, <2>2, ShapesOfEvents
<1>8. PICK n \in Nat : n = Len(log) + 1
  BY MsgAt DEF RingInv
<1>9. Fits(new, n)'
  <2>1. new.sender_id = c /\ new.seq_no = s /\ new.block = s
    BY <1>4
  <2>2. \A j \in 1 .. n - 1 : /\ j \in 1 .. Len(log)
                              /\ IsMsg(j)' <=> IsMsg(j)
                              /\ SeqAt(j)' = SeqAt(j)
                              /\ IsFull(j)' <=> IsFull(j)
    BY <1>8, SameEvents DEF RingInv
  <2>3. \A j \in 1 .. n - 1 : IsMsg(j) => SeqAt(j) < s
    BY NotDue
  <2>4. \A u \in 0 .. s - 1 : \E j \in 1 .. n - 1 : IsMsg(j) /\ SeqAt(j) = u
    <3>1. \A j : IsMsg(j) => j \in 1 .. n - 1
      BY <1>8, MsgAt DEF RingInv
    <3>2. QED
      BY <3>1
  <2>5. \E j \in 1 .. n - 1 : IsFull(j)
    BY <1>8 DEF IsFull
  <2>6. QED
    BY <2>1, <2>2, <2>3, <2>4, <2>5 DEF Fits
<1>10. PendRight'
  <2> SUFFICES ASSUME NEW d \in Child, NEW m \in Message, Waiting(d, m)'
               PROVE  m.sender_id = d /\ Fits(m, Len(log) + 1)'
    BY DEF PendRight
  <2>1. d = c /\ m = new
    BY <1>7
  <2>2. Len(log') + 1 = n
    BY <1>1, <1>8
  <2>3. QED
    BY <1>4, <1>9, <2>1, <2>2
<1>11. LogRight' /\ GroupRight'
  BY <1>1, LogRightStays, GroupRightStays
<1>12. QueueRight(c)'
  BY <1>1, <1>6 DEF QueueRight, Ended
<1>13. ASSUME NEW d \in Child \ {c} PROVE QueueRight(d)'
  BY <1>1, <1>5, QueueRightStays DEF Ended
<1>14. QED
  BY <1>10, <1>11, <1>12, <1>13

(* Before a child has seen all the others it has received nothing. *)
LEMMA NothingBeforeFull ==
  ASSUME RingInv, NEW c \in Child, ~full_membership_seen[c]
  PROVE  expected_msg_seq_no[c] = 0
<1>1. expected_msg_seq_no[c] \in Nat /\ cursor[c] \in -1 .. Len(log) /\ Len(log) \in Nat
  BY TypedParts, MsgAt DEF RingInv, GroupTyped, CountsTyped
<1>2. ReadRight(c)
  BY DEF RingInv, ChildRight
<1> SUFFICES ASSUME expected_msg_seq_no[c] > 0 PROVE FALSE
  BY <1>1
<1>3. PICK k \in 1 .. cursor[c] : IsMsg(k)
  BY <1>2 DEF ReadRight
<1>4. PICK m \in Message : Fits(m, k)
  BY <1>3, MsgFits
<1>5. PICK j \in 1 .. k - 1 : IsFull(j)
  BY <1>4 DEF Fits
<1>6. j \in 1 .. cursor[c]
  BY <1>1
<1>7. QED
  BY <1>2, <1>5, <1>6 DEF ReadRight

(* A child reads an event: the other children are not concerned. *)
LEMMA ReadStep ==
  ASSUME RingInv, Typed', Grows, NEW c \in Child, Reads(c), pc' = pc,
         \A d \in Child \ {c} :
           /\ full_membership_seen'[d] = full_membership_seen[d]
           /\ sent_rand_seed'[d] = sent_rand_seed[d]
           /\ received_rand_seed'[d] = received_rand_seed[d]
           /\ expected_sender_id'[d] = expected_sender_id[d]
           /\ expected_msg_seq_no'[d] = expected_msg_seq_no[d],
         CountsRight(c)', ReadRight(c)',
         LogRight', PendRight', GroupRight', \A d \in Child : QueueRight(d)'
  PROVE  RingInv'
<1>1. UNCHANGED log /\ \A d \in Child \ {c} : cursor'[d] = cursor[d]
  BY DEF Reads, RingInv, Typed
<1>2. ASSUME NEW d \in Child \ {c} PROVE CountsRight(d)' /\ ReadRight(d)'
  BY <1>1, ReadRightStays DEF RingInv, ChildRight, CountsRight
<1>3. \A d \in Child : pc'[d] # "mismatch"
  BY DEF RingInv, ChildRight
<1>4. \A d \in Child : ChildRight(d)'
  BY <1>2, <1>3 DEF ChildRight
<1>5. QED
  BY <1>4 DEF RingInv

LEMMA DispatchStep ==
  ASSUME RingInv, Typed', Grows, NEW c \in Child, Dispatch(c)
  PROVE  RingInv'
<1>1. /\ full_membership_seen \in [Child -> BOOLEAN]
      /\ sent_rand_seed \in [Child -> Nat] /\ received_rand_seed \in [Child -> Nat]
      /\ expected_sender_id \in [Child -> Child]
      /\ expected_msg_seq_no \in [Child -> Nat]
  BY TypedParts DEF RingInv, CountsTyped
<1>2. PICK r \in Nat : r = expected_msg_seq_no[c]
  BY <1>1
<1>3. CountsRight(c)
  BY DEF RingInv, ChildRight
<1>4. CASE ReadOther(c)
  <2>1. UNCHANGED <<full_membership_seen, sent_rand_seed, received_rand_seed,
                    expected_sender_id, expected_msg_seq_no>>
    BY <1>4 DEF ReadOther, callback, received
  <2>2. CountsRight(c)'
    BY <1>3, <2>1 DEF CountsRight
  <2>3. ~IsMsg(cursor[c] + 1) /\ (IsFull(cursor[c] + 1) => full_membership_seen'[c])
    BY <1>4, <2>1 DEF ReadOther, IsMsg, IsFull
  <2>4. ReadRight(c)'
    BY <1>4, <2>1, <2>3, ReadRightReads DEF ReadOther
  <2>5. QED
    BY <1>4, <2>1, <2>2, <2>4, SilentRead, ReadStep DEF ReadOther
<1>5. CASE ReadFull(c)
  <2>1. /\ full_membership_seen' = [full_membership_seen EXCEPT ![c] = TRUE]
        /\ sent_rand_seed' = [sent_rand_seed EXCEPT ![c] = sent_rand_seed[c] + 1]
        /\ UNCHANGED <<received_rand_seed, expected_sender_id, expected_msg_seq_no>>
        /\ pc' = pc /\ Reads(c) /\ ~full_membership_seen[c]
    BY <1>5 DEF ReadFull, Sends, Adjusts, received
  <2>2. expected_msg_seq_no[c] = 0 /\ sent_rand_seed[c] = 0
    BY <1>1, <1>3, <2>1, NothingBeforeFull DEF CountsRight
  <2>3. CountsRight(c)'
    BY <1>1, <1>3, <2>1, <2>2 DEF CountsRight
  <2>4. ~IsMsg(cursor[c] + 1)
    BY <1>5 DEF ReadFull, IsMsg
  <2>5. ReadRight(c)'
    BY <1>1, <2>1, <2>4, ReadRightReads
  <2>6. cursor[c] + 1 \in 1 .. Len(log) /\ IsFull(cursor[c] + 1)
    <3>1. Len(log) \in Nat /\ cursor[c] \in 0 .. Len(log) - 1
      BY <2>1, MsgAt DEF RingInv, Reads
    <3>2. cursor[c] + 1 \in 1 .. Len(log)
      BY <3>1
    <3>3. QED
      BY <1>5, <3>2 DEF ReadFull, IsFull
  <2>7. LogRight' /\ PendRight' /\ GroupRight' /\ \A d \in Child : QueueRight(d)'
    <3>1. CASE c = 0
      <4>1. Sends(c, 0)
        BY <1>5, <2>2, <3>1 DEF ReadFull
      <4>2. ~Due(0) /\ Due(0)' /\ 0 % NO_CHILDS = c
        BY <1>1, <2>1, <3>1, TurnIsChild DEF Due
      <4>3. \A u \in 0 .. 0 - 1 : \E j : IsMsg(j) /\ SeqAt(j) = u
        OBVIOUS
      <4>4. QED
        BY <2>1, <2>2, <2>6, <4>1, <4>2, <4>3, SendingRead
    <3>2. CASE c # 0
      <4>1. pend' = pend
        BY <1>5, <3>2 DEF ReadFull, Adjusts
      <4>2. QED
        BY <2>1, <4>1, SilentRead
    <3>3. QED
      BY <3>1, <3>2
  <2>8. \A d \in Child \ {c} :
           /\ full_membership_seen'[d] = full_membership_seen[d]
           /\ sent_rand_seed'[d] = sent_rand_seed[d]
    BY <1>1, <2>1
  <2>9. QED
    BY <2>1, <2>3, <2>5, <2>7, <2>8, ReadStep
<1>6. ASSUME NEW m \in Message, ReadMsg(c, m) PROVE RingInv'
  <2>1. /\ m.seq_no = r /\ full_membership_seen[c] /\ Fits(m, cursor[c] + 1)
        /\ IsMsg(cursor[c] + 1) /\ SeqAt(cursor[c] + 1) = r
        /\ Reads(c)
    BY <1>2, <1>6, NextIsExpected DEF ReadMsg
  <2>2. /\ expected_sender_id' = [expected_sender_id EXCEPT ![c] = (expected_sender_id[c] + 1) % NO_CHILDS]
        /\ expected_msg_seq_no' = [expected_msg_seq_no EXCEPT ![c] = expected_msg_seq_no[c] + 1]
        /\ received_rand_seed' = [received_rand_seed EXCEPT ![c] = received_rand_seed[c] + 1]
        /\ sent_rand_seed' = [sent_rand_seed EXCEPT ![c] = sent_rand_seed[c] + 1]
        /\ UNCHANGED <<full_membership_seen, pc>>
    BY <1>6 DEF ReadMsg, Sends, Adjusts
  <2>3. received_rand_seed[c] = r /\ sent_rand_seed[c] = r + 1 /\ expected_sender_id[c] = r % NO_CHILDS
    BY <1>2, <1>3, <2>1 DEF CountsRight
  <2>4. (expected_sender_id[c] + 1) % NO_CHILDS = (r + 1) % NO_CHILDS
    BY <2>3, ModNext, RingAssumption
  <2>5. /\ expected_msg_seq_no'[c] = r + 1 /\ received_rand_seed'[c] = r + 1
        /\ sent_rand_seed'[c] = r + 2 /\ expected_sender_id'[c] = (r + 1) % NO_CHILDS
        /\ full_membership_seen'[c]
    BY <1>1, <1>2, <2>1, <2>2, <2>3, <2>4
  <2>6. CountsRight(c)'
    BY <2>5 DEF CountsRight
  <2>7. ReadRight(c)'
    <3>1. ~IsFull(cursor[c] + 1)
      BY <2>1 DEF IsFull, IsMsg
    <3>2. QED
      BY <1>2, <2>1, <2>5, <3>1, ReadRightReads
  <2>8. LogRight' /\ PendRight' /\ GroupRight' /\ \A d \in Child : QueueRight(d)'
    <3>1. CASE (r + 1) % NO_CHILDS = c
      <4>1. Sends(c, r + 1) /\ sent_rand_seed[c] = r + 1
        BY <1>2, <1>6, <2>3, <2>4, <3>1 DEF ReadMsg
      <4>2. ~Due(r + 1) /\ Due(r + 1)'
        BY <1>2, <2>5, <3>1 DEF Due
      <4>3. ASSUME NEW u \in 0 .. (r + 1) - 1 PROVE \E j : IsMsg(j) /\ SeqAt(j) = u
        <5>1. u = r \/ u \in 0 .. m.seq_no - 1
          BY <2>1
        <5>2. QED
          BY <2>1, <5>1 DEF Fits
      <4>4. \E j \in 1 .. Len(log) : IsFull(j)
        BY <2>1 DEF Fits, IsFull
      <4>5. QED
        BY <2>1, <3>1, <4>1, <4>2, <4>3, <4>4, SendingRead
    <3>2. CASE (r + 1) % NO_CHILDS # c
      <4>1. pend' = pend
        BY <1>6, <2>4, <3>2 DEF ReadMsg, Adjusts
      <4>2. QED
        BY <2>1, <2>2, <4>1, SilentRead
    <3>3. QED
      BY <3>1, <3>2
  <2>9. \A d \in Child \ {c} :
           /\ full_membership_seen'[d] = full_membership_seen[d]
           /\ sent_rand_seed'[d] = sent_rand_seed[d]
           /\ received_rand_seed'[d] = received_rand_seed[d]
           /\ expected_sender_id'[d] = expected_sender_id[d]
           /\ expected_msg_seq_no'[d] = expected_msg_seq_no[d]
    BY <1>1, <2>2
  <2>10. QED
    BY <2>1, <2>2, <2>6, <2>7, <2>8, <2>9, ReadStep
<1>7. ASSUME NEW m \in Message, ReadWrong(c, m) PROVE FALSE
  BY <1>7, NextIsExpected DEF ReadWrong
<1>8. QED
  BY <1>4, <1>5, <1>6, <1>7, DispatchCases DEF RingInv

------------------------------------------------------------------------------
(***************************************************************************)
(* The ring.                                                               *)
(***************************************************************************)

LEMMA InitRing == Init => RingInv
<1> SUFFICES ASSUME Init PROVE RingInv
  OBVIOUS
<1>1. Typed
  BY InitTyped
<1>2. /\ log = <<>> /\ Len(log) = 0 /\ members = {}
      /\ \A c \in Child : /\ pend[c] = <<>> /\ Len(pend[c]) = 0 /\ cursor[c] = -1
                          /\ pc[c] = "none" /\ full_membership_seen[c] = FALSE
                          /\ sent_rand_seed[c] = 0 /\ received_rand_seed[c] = 0
                          /\ expected_sender_id[c] = 0 /\ expected_msg_seq_no[c] = 0
  BY RingAssumption DEF Init, CpgInit, Each
<1>3. 0 % NO_CHILDS = 0
  BY TurnIsChild
<1>4. LogRight /\ PendRight /\ GroupRight
  BY <1>2 DEF LogRight, PendRight, GroupRight, Waiting
<1>5. ASSUME NEW c \in Child PROVE ChildRight(c)
  <2>1. CountsRight(c)
    BY <1>2, <1>3 DEF CountsRight
  <2>2. ReadRight(c)
    BY <1>2 DEF ReadRight
  <2>3. QueueRight(c)
    BY <1>2 DEF QueueRight, Ended
  <2>4. QED
    BY <1>2, <2>1, <2>2, <2>3 DEF ChildRight
<1>6. QED
  BY <1>1, <1>4, <1>5 DEF RingInv

LEMMA NextRing == RingInv /\ ForkOrder /\ [Next]_vars => RingInv'
<1> SUFFICES ASSUME RingInv, ForkOrder, [Next]_vars PROVE RingInv'
  OBVIOUS
<1>1. Typed' /\ Grows /\ Typed
  BY NextTyped, NextGrows DEF RingInv
<1>2. /\ pc \in [Child -> Place] /\ \A c \in Child : pc[c] # "mismatch"
      /\ forked \in Nat
  BY <1>1, TypedParts DEF RingInv, ChildRight, ControlTyped
<1>3. ASSUME UNCHANGED <<cpgVars, callback, pc>> PROVE RingInv'
  BY <1>1, <1>2, <1>3, IdleStep DEF Ended
<1>4. ASSUME UNCHANGED <<cpgVars, callback>>, NEW c \in Child, NEW place \in Place \ {"mismatch", "none"},
             Goto(c, place), ~Ended(c), place = "start" => pc[c] \in {"none", "start"}
      PROVE  RingInv'
  <2>1. /\ pc'[c] = place /\ \A d \in Child \ {c} : pc'[d] = pc[d]
    BY <1>2, <1>4 DEF Goto
  <2>2. ASSUME NEW d \in Child
        PROVE  /\ pc'[d] # "mismatch"
               /\ Ended(d) => Ended(d)'
               /\ pc'[d] \in {"none", "start"} => pc[d] \in {"none", "start"}
    BY <1>2, <1>4, <2>1 DEF Ended
  <2>3. QED
    BY <1>1, <1>4, <2>2, IdleStep
<1>5. ASSUME NEW c \in Child, ChildStep(c) \/ ApiFails(c) PROVE RingInv'
  <2>1. CASE Join(c)
    <3>1. pc'[c] = "poll" /\ \A d \in Child \ {c} : pc'[d] = pc[d]
      BY <1>2, <2>1 DEF Join, Goto
    <3>2. QED
      BY <1>1, <2>1, <3>1, AskStep DEF Join
  <2>2. CASE Poll(c)
    BY <1>4, <2>2 DEF Poll, Ended, Place
  <2>3. CASE Dispatch(c)
    BY <1>1, <2>3, DispatchStep
  <2>4. CASE DispatchEnds(c)
    BY <1>4, <2>4 DEF DispatchEnds, Ended, Place
  <2>5. CASE Leave(c)
    <3>1. pc'[c] = "exited" /\ \A d \in Child \ {c} : pc'[d] = pc[d]
      BY <1>2, <2>5 DEF Leave, Goto
    <3>2. ~Ended(c)
      BY <2>5 DEF Leave, Ended
    <3>3. QED
      BY <1>1, <2>5, <3>1, <3>2, AskStep DEF Leave
  <2>6. CASE ApiFails(c)
    <3>1. pc'[c] = "aborted" /\ \A d \in Child \ {c} : pc'[d] = pc[d]
      BY <1>2, <2>6 DEF ApiFails, Abort, Goto
    <3>2. ~Ended(c)
      BY <2>6 DEF ApiFails, Ended
    <3>3. QED
      BY <1>1, <2>6, <3>1, <3>2, AskStep DEF ApiFails, Abort
  <2>7. QED
    BY <1>5, <2>1, <2>2, <2>3, <2>4, <2>5, <2>6 DEF ChildStep
<1>6. CASE ParentStep
  <2>1. CASE ForkChild
    <3>1. forked \in Child
      BY <1>2, <2>1, RingAssumption DEF ForkChild, Child
    <3>2. pc[forked] = "none"
      BY <1>2, <3>1 DEF ForkOrder
    <3>3. QED
      BY <1>4, <2>1, <3>1, <3>2 DEF ForkChild, Ended, Place
  <2>2. CASE AllForked \/ WaitFails
    BY <1>3, <2>2 DEF AllForked, WaitFails
  <2>3. ASSUME NEW c \in Child, WaitChild(c) PROVE RingInv'
    BY <1>3, <2>3 DEF WaitChild
  <2>4. QED
    BY <1>6, <2>1, <2>2, <2>3 DEF ParentStep
<1>7. CASE ForkFails
  BY <1>3, <1>7 DEF ForkFails
<1>8. CASE UNCHANGED vars
  BY <1>3, <1>8 DEF vars
<1>9. QED
  BY <1>1, <1>5, <1>6, <1>7, <1>8, OrderStep DEF Next

(* The invariant holds of every reachable state. *)
THEOREM RingInvariant == Spec => [](RingInv /\ ControlInv)
<1>1. Init => RingInv /\ ControlInv
  BY InitRing, InitControl
<1>2. RingInv /\ ControlInv /\ [Next]_vars => (RingInv /\ ControlInv)'
  BY NextRing, NextControl DEF ControlInv
<1>3. QED
  BY <1>1, <1>2, PTL DEF Spec

(* Both random streams of a child stay in step, so that no assertion on a   *)
(* received message fails, for any number of children and whatever calls    *)
(* of the others fail.                                                      *)
THEOREM SeedsAreInSync == Spec => []SeedsInSync
<1>1. RingInv => SeedsInSync
  BY DEF RingInv, Typed, ChildRight, CountsRight, SeedsInSync
<1>2. QED
  BY RingInvariant, <1>1, PTL

------------------------------------------------------------------------------
(***************************************************************************)
(* The children implement RoundRobin.                                      *)
(***************************************************************************)

Number(e) == IF e.type = "msg" THEN {e.msg.seq_no} ELSE {}

LEMMA NumbersLog ==
  ASSUME NEW s \in Seq(Event), NEW e \in Event
  PROVE  MsgNumbers(Append(s, e)) = MsgNumbers(s) \cup Number(e)
<1> DEFINE a == Append(s, e)
<1>1. /\ Len(a) = Len(s) + 1 /\ Len(s) \in Nat /\ a[Len(s) + 1] = e
      /\ \A k \in 1 .. Len(s) : a[k] = s[k]
  BY LogAppend
<1> HIDE DEF a
<1>2. 1 .. Len(a) = (1 .. Len(s)) \cup {Len(s) + 1}
  BY <1>1
<1>3. QED
  BY <1>1, <1>2 DEF MsgNumbers, Number, a

LEMMA NumbersQueue ==
  ASSUME NEW s \in Seq(Request), NEW e \in Request
  PROVE  MsgNumbers(Append(s, e)) = MsgNumbers(s) \cup Number(e)
<1> DEFINE a == Append(s, e)
<1>1. /\ Len(a) = Len(s) + 1 /\ Len(s) \in Nat /\ a[Len(s) + 1] = e
      /\ \A k \in 1 .. Len(s) : a[k] = s[k]
  BY QueueAppend
<1> HIDE DEF a
<1>2. 1 .. Len(a) = (1 .. Len(s)) \cup {Len(s) + 1}
  BY <1>1
<1>3. QED
  BY <1>1, <1>2 DEF MsgNumbers, Number, a

LEMMA NumbersTail ==
  ASSUME NEW s \in Seq(Request), s # <<>>
  PROVE  MsgNumbers(s) = MsgNumbers(Tail(s)) \cup Number(s[1])
<1> DEFINE a == Tail(s)
<1>1. /\ Len(a) = Len(s) - 1 /\ Len(s) \in Nat \ {0}
      /\ \A k \in 1 .. Len(s) - 1 : a[k] = s[k + 1]
  BY QueueTail
<1> HIDE DEF a
<1>2. ASSUME NEW x \in MsgNumbers(s) PROVE x \in MsgNumbers(a) \cup Number(s[1])
  <2>1. PICK i \in 1 .. Len(s) : s[i].type = "msg" /\ x = s[i].msg.seq_no
    BY DEF MsgNumbers
  <2>2. CASE i = 1
    BY <2>1, <2>2 DEF Number
  <2>3. CASE i # 1
    <3>1. PICK k \in 1 .. Len(a) : k + 1 = i
      BY <1>1, <2>3
    <3>2. a[k] = s[i]
      BY <1>1, <3>1
    <3>3. QED
      BY <2>1, <3>2 DEF MsgNumbers
  <2>4. QED
    BY <2>2, <2>3
<1>3. ASSUME NEW x \in MsgNumbers(a) PROVE x \in MsgNumbers(s)
  <2>1. PICK k \in 1 .. Len(a) : a[k].type = "msg" /\ x = a[k].msg.seq_no
    BY DEF MsgNumbers
  <2>2. k + 1 \in 1 .. Len(s) /\ a[k] = s[k + 1]
    BY <1>1
  <2>3. QED
    BY <2>1, <2>2 DEF MsgNumbers
<1>4. ASSUME NEW x \in Number(s[1]) PROVE x \in MsgNumbers(s)
  <2>1. 1 \in 1 .. Len(s)
    BY <1>1
  <2>2. QED
    BY <2>1 DEF Number, MsgNumbers
<1>5. QED
  BY <1>2, <1>3, <1>4 DEF a

(* What a request, and what the daemon does to the messages sent so far. *)
LEMMA SeqsAsked ==
  ASSUME Typed, NEW p \in Child, NEW r \in Request, UNCHANGED log,
         pend' = [pend EXCEPT ![p] = Append(@, r)]
  PROVE  MessageSeqs' = MessageSeqs \cup Number(r)
<1>1. pend \in [Child -> Seq(Request)]
  BY DEF Typed, TypeOK
<1>2. /\ MsgNumbers(pend'[p]) = MsgNumbers(pend[p]) \cup Number(r)
      /\ \A d \in Child \ {p} : pend'[d] = pend[d]
  BY <1>1, NumbersQueue
<1>3. QED
  BY <1>2 DEF MessageSeqs

LEMMA SeqsOrdered ==
  ASSUME Typed, NEW p \in Child, DaemonOrders(p)
  PROVE  MessageSeqs' = MessageSeqs
<1>1. pend \in [Child -> Seq(Request)] /\ pend[p] \in Seq(Request) /\ log \in Seq(Event)
  BY DEF Typed, TypeOK
<1>2. Ordered(p) /\ \E e \in Event : log' = Append(log, e) /\ Number(e) = Number(pend[p][1])
  <2>1. \A S \in SUBSET Child : Number(Confchg(S)) = {}
    BY ShapesOfEvents DEF Number
  <2>2. Number(JoinRequest) = {} /\ Number(LeaveRequest) = {}
    BY ShapesOfEvents DEF Number
  <2>3. members \cup {p} \in SUBSET Child /\ members \ {p} \in SUBSET Child
    BY DEF Typed, TypeOK
  <2>4. CASE OrderJoin(p) \/ OrderLeave(p)
    <3>1. PICK S \in SUBSET Child : log' = Append(log, Confchg(S))
      BY <2>3, <2>4 DEF OrderJoin, OrderLeave
    <3>2. Ordered(p) /\ Number(pend[p][1]) = {}
      BY <2>2, <2>4 DEF OrderJoin, OrderLeave
    <3>3. Confchg(S) \in Event /\ Number(Confchg(S)) = {}
      BY <2>1, ShapesOfEvents
    <3>4. QED
      BY <3>1, <3>2, <3>3
  <2>5. ASSUME NEW m \in Message, OrderMsg(p, m)
        PROVE  Ordered(p) /\ \E e \in Event : log' = Append(log, e) /\ Number(e) = Number(pend[p][1])
    BY <2>5, ShapesOfEvents DEF OrderMsg
  <2>6. QED
    BY <2>4, <2>5, OrderCases
<1>3. PICK e \in Event : log' = Append(log, e) /\ Number(e) = Number(pend[p][1])
  BY <1>2
<1>4. MsgNumbers(log') = MsgNumbers(log) \cup Number(pend[p][1])
  BY <1>1, <1>3, NumbersLog
<1>5. /\ MsgNumbers(pend[p]) = MsgNumbers(pend'[p]) \cup Number(pend[p][1])
      /\ \A d \in Child \ {p} : pend'[d] = pend[d]
  BY <1>1, <1>2, NumbersTail DEF Ordered
<1>6. QED
  BY <1>4, <1>5 DEF MessageSeqs

(* A message in the log, or waiting, is one that was sent. *)
LEMMA SeqsInclude ==
  ASSUME RingInv
  PROVE  /\ \A j : IsMsg(j) => SeqAt(j) \in MessageSeqs
         /\ \A x \in MessageSeqs :
              \/ \E j : IsMsg(j) /\ SeqAt(j) = x
              \/ \E d \in Child, m \in Message : Waiting(d, m) /\ m.seq_no = x
<1>1. ASSUME NEW j, IsMsg(j) PROVE SeqAt(j) \in MessageSeqs
  BY <1>1 DEF IsMsg, SeqAt, MessageSeqs, MsgNumbers
<1>2. ASSUME NEW x \in MsgNumbers(log) PROVE \E j : IsMsg(j) /\ SeqAt(j) = x
  BY DEF IsMsg, SeqAt, MsgNumbers
<1>3. ASSUME NEW d \in Child, NEW x \in MsgNumbers(pend[d])
      PROVE  \E m \in Message : Waiting(d, m) /\ m.seq_no = x
  <2>1. PICK i \in 1 .. Len(pend[d]) : pend[d][i].type = "msg" /\ x = pend[d][i].msg.seq_no
    BY DEF MsgNumbers
  <2>2. QueueRight(d) /\ pend[d] \in Seq(Request)
    BY DEF RingInv, ChildRight, Typed, TypeOK
  <2>3. i = 1 /\ pend[d] # <<>>
    BY <2>1, <2>2 DEF QueueRight
  <2>4. pend[d][1] \in Request
    BY <2>2, <2>3, QueueTail
  <2>5. PICK m \in Message : pend[d][1] = MsgRequest(m) /\ pend[d][1].msg = m
    BY <2>1, <2>3, <2>4, KindsOfEvents, ShapesOfEvents
  <2>6. QED
    BY <2>1, <2>3, <2>5 DEF Waiting
<1>4. QED
  BY <1>1, <1>2, <1>3 DEF MessageSeqs

(* The messages sent so far are the first ones. *)
Contiguous == \E sent \in Nat : MessageSeqs = 0 .. sent - 1

LEMMA CountOfFirst ==
  ASSUME NEW n \in Nat
  PROVE  Cardinality(0 .. n - 1) = n
BY FS_Interval

(* The next message to send is the first that was not sent. *)
LEMMA NextToSend ==
  ASSUME RingInv, NEW sent \in Nat, MessageSeqs = 0 .. sent - 1,
         NEW s \in Nat, ~Due(s), \A u \in 0 .. s - 1 : \E j : IsMsg(j) /\ SeqAt(j) = u
  PROVE  s = sent
<1>1. s \notin MessageSeqs
  BY SeqsInclude, NotDue, NoneWaiting
<1>2. \A u \in 0 .. s - 1 : u \in MessageSeqs
  BY SeqsInclude
<1>3. ~(s < sent)
  BY <1>1
<1>4. ~(sent < s)
  <2> SUFFICES ASSUME sent < s PROVE FALSE
    OBVIOUS
  <2>1. sent \in 0 .. s - 1
    OBVIOUS
  <2>2. QED
    BY <1>2, <2>1
<1>5. QED
  BY <1>3, <1>4

LEMMA RingMaps ==
  ASSUME RingInv, RingInv', Contiguous, [Next]_vars
  PROVE  Contiguous' /\ [Ring!Next]_(Ring!vars)
<1>1. PICK n \in Nat : MessageSeqs = 0 .. n - 1
  BY DEF Contiguous
<1>2. Cardinality(MessageSeqs) = n
  BY <1>1, CountOfFirst
<1>3. Typed /\ expected_msg_seq_no \in [Child -> Nat]
  BY DEF RingInv, Typed, TypeOK
<1>4. ASSUME MessageSeqs' = MessageSeqs, UNCHANGED expected_msg_seq_no
      PROVE  Contiguous' /\ [Ring!Next]_(Ring!vars)
  BY <1>4 DEF Contiguous, Ring!vars
<1>5. ASSUME UNCHANGED <<cpgVars, callback>>
      PROVE  Contiguous' /\ [Ring!Next]_(Ring!vars)
  <2>1. MessageSeqs' = MessageSeqs
    BY <1>5 DEF cpgVars, MessageSeqs
  <2>2. QED
    BY <1>4, <1>5, <2>1 DEF callback, received
<1>6. ASSUME NEW c \in Child, NEW r \in {JoinRequest, LeaveRequest}, Ask(c, r),
             UNCHANGED <<log, callback>>
      PROVE  Contiguous' /\ [Ring!Next]_(Ring!vars)
  <2>1. r \in Request /\ Number(r) = {}
    BY ShapesOfEvents DEF Number
  <2>2. MessageSeqs' = MessageSeqs
    BY <1>3, <1>6, <2>1, SeqsAsked DEF Ask
  <2>3. QED
    BY <1>4, <1>6, <2>2 DEF callback, received
<1>7. ASSUME NEW c \in Child, NEW s \in Nat, Sends(c, s), UNCHANGED log, s = n
      PROVE  MessageSeqs' = 0 .. (n + 1) - 1
  <2>1. PICK m \in Message : m = [sender_id |-> c, seq_no |-> s, block |-> sent_rand_seed[c]]
    BY DEF RingInv, Typed, TypeOK, Message
  <2>2. MsgRequest(m) \in Request /\ Number(MsgRequest(m)) = {s}
    BY <2>1, ShapesOfEvents DEF Number
  <2>3. MessageSeqs' = (0 .. n - 1) \cup {n}
    BY <1>1, <1>3, <1>7, <2>1, <2>2, SeqsAsked DEF Sends
  <2>4. QED
    BY <2>3
<1>8. ASSUME NEW c \in Child, Dispatch(c)
      PROVE  Contiguous' /\ [Ring!Next]_(Ring!vars)
  <2>1. ASSUME Reads(c), pend' = pend PROVE MessageSeqs' = MessageSeqs
    BY <2>1 DEF Reads, MessageSeqs
  <2>2. CASE ReadOther(c)
    BY <1>4, <2>1, <2>2 DEF ReadOther, callback, received
  <2>3. CASE ReadFull(c)
    <3>1. CASE c # 0
      BY <1>4, <2>1, <2>3, <3>1 DEF ReadFull, Adjusts, received
    <3>2. CASE c = 0
      <4>1. ~Due(0) /\ expected_msg_seq_no[c] = 0
        BY <2>3, <3>2, NothingBeforeFull DEF ReadFull, Due
      <4>2. n = 0
        BY <1>1, <4>1, NextToSend
      <4>3. Sends(c, 0) /\ UNCHANGED <<log, expected_msg_seq_no>>
        BY <2>3, <3>2, <4>1 DEF ReadFull, Reads, received
      <4>4. MessageSeqs' = 0 .. (n + 1) - 1
        BY <1>7, <4>2, <4>3
      <4>5. Cardinality(MessageSeqs') = n + 1
        BY <4>4, CountOfFirst
      <4>6. Ring!FirstMessage
        BY <1>2, <4>2, <4>3, <4>5 DEF Ring!FirstMessage
      <4>7. QED
        BY <4>4, <4>6 DEF Contiguous, Ring!Next
    <3>3. QED
      BY <3>1, <3>2
  <2>4. ASSUME NEW m \in Message, ReadMsg(c, m)
        PROVE  Contiguous' /\ [Ring!Next]_(Ring!vars)
    <3>1. PICK r \in Nat : r = expected_msg_seq_no[c]
      BY <1>3
    <3>2. /\ m.seq_no = r /\ Fits(m, cursor[c] + 1) /\ IsMsg(cursor[c] + 1)
          /\ SeqAt(cursor[c] + 1) = r /\ Reads(c)
      BY <2>4, <3>1, NextIsExpected DEF ReadMsg
    <3>3. (expected_sender_id[c] + 1) % NO_CHILDS = (r + 1) % NO_CHILDS
      BY <3>1, ModNext, RingAssumption DEF RingInv, ChildRight, CountsRight
    <3>4. r < n
      <4>1. r \in 0 .. n - 1
        BY <1>1, <3>2, SeqsInclude
      <4>2. QED
        BY <4>1
    <3>5. /\ expected_msg_seq_no' = [expected_msg_seq_no EXCEPT ![c] = expected_msg_seq_no[c] + 1]
          /\ expected_msg_seq_no'[c] = r + 1
      BY <1>3, <2>4, <3>1 DEF ReadMsg
    <3>6. c \in Ring!Child
      BY DEF Ring!Child, Child
    <3>7. CASE (r + 1) % NO_CHILDS = c
      <4>1. Sends(c, r + 1) /\ UNCHANGED log
        BY <2>4, <3>1, <3>2, <3>3, <3>7 DEF ReadMsg, Reads
      <4>2. ~Due(r + 1)
        BY <3>1, <3>7 DEF Due
      <4>3. ASSUME NEW u \in 0 .. (r + 1) - 1 PROVE \E j : IsMsg(j) /\ SeqAt(j) = u
        <5>1. u = r \/ u \in 0 .. m.seq_no - 1
          BY <3>2
        <5>2. QED
          BY <3>2, <5>1 DEF Fits
      <4>4. n = r + 1
        BY <1>1, <4>2, <4>3, NextToSend
      <4>5. MessageSeqs' = 0 .. (n + 1) - 1
        BY <1>7, <4>1, <4>4
      <4>6. Cardinality(MessageSeqs') = n + 1
        BY <4>5, CountOfFirst
      <4>7. Ring!Receive(c)
        BY <1>2, <3>1, <3>4, <3>5, <3>7, <4>4, <4>6 DEF Ring!Receive
      <4>8. QED
        BY <3>6, <4>5, <4>7 DEF Contiguous, Ring!Next
    <3>8. CASE (r + 1) % NO_CHILDS # c
      <4>1. MessageSeqs' = MessageSeqs
        BY <2>1, <2>4, <3>2, <3>3, <3>8 DEF ReadMsg, Adjusts
      <4>2. Ring!Receive(c)
        BY <1>2, <3>1, <3>4, <3>5, <3>8, <4>1 DEF Ring!Receive
      <4>3. QED
        BY <3>6, <4>1, <4>2 DEF Contiguous, Ring!Next
    <3>9. QED
      BY <3>7, <3>8
  <2>5. ASSUME NEW m \in Message, ReadWrong(c, m) PROVE FALSE
    BY <2>5, NextIsExpected DEF ReadWrong
  <2>6. QED
    BY <1>3, <1>8, <2>2, <2>3, <2>4, <2>5, DispatchCases
<1>9. ASSUME NEW c \in Child, DaemonOrders(c)
      PROVE  Contiguous' /\ [Ring!Next]_(Ring!vars)
  BY <1>3, <1>4, <1>9, SeqsOrdered DEF DaemonOrders, callback, received
<1>10. CASE \E c \in Child : Join(c) \/ Leave(c) \/ ApiFails(c)
  BY <1>6, <1>10 DEF Join, Leave, ApiFails, Abort
<1>11. CASE \E c \in Child : Poll(c) \/ DispatchEnds(c)
  BY <1>5, <1>11 DEF Poll, DispatchEnds
<1>12. CASE ParentStep \/ ForkFails \/ UNCHANGED vars
  BY <1>5, <1>12 DEF ParentStep, ForkChild, AllForked, WaitFails, WaitChild, ForkFails, vars
<1>13. QED
  BY <1>8, <1>9, <1>10, <1>11, <1>12 DEF Next, ChildStep

(* The children implement RoundRobin: seen from outside, message after      *)
(* message is sent in turn, each as the answer to the one before, and every *)
(* child receives all of them in that order.                                *)
THEOREM Implements == Spec => RingSpec
<1>1. Init => Ring!Init /\ Contiguous
  <2> SUFFICES ASSUME Init PROVE Ring!Init /\ Contiguous
    OBVIOUS
  <2>1. log = <<>> /\ Len(log) = 0 /\ \A c \in Child : pend[c] = <<>> /\ Len(pend[c]) = 0
    BY RingAssumption DEF Init, CpgInit
  <2>2. MessageSeqs = 0 .. 0 - 1
    BY <2>1 DEF MessageSeqs, MsgNumbers
  <2>3. Cardinality(MessageSeqs) = 0
    BY <2>2, CountOfFirst
  <2>4. expected_msg_seq_no = [c \in Ring!Child |-> 0]
    BY DEF Init, Each, Ring!Child, Child
  <2>5. QED
    BY <2>2, <2>3, <2>4 DEF Ring!Init, Contiguous
<1>2. RingInv /\ RingInv' /\ Contiguous /\ [Next]_vars => Contiguous' /\ [Ring!Next]_(Ring!vars)
  BY RingMaps
<1>3. Spec => []RingInv
  BY RingInvariant, PTL
<1>4. QED
  BY <1>1, <1>2, <1>3, PTL DEF Spec, RingSpec, Ring!Spec
==============================================================================
