---------------------------- MODULE CpgLoadProofs ----------------------------
(***************************************************************************)
(* Theorems about the load generator of cpg-load.c, for any number of      *)
(* processes, any limits and any bounds on failures and refused calls.     *)
(***************************************************************************)
EXTENDS CpgLoad, FiniteSetTheorems, SequenceTheorems, TLAPS

------------------------------------------------------------------------------
(***************************************************************************)
(* Two sets with no image in common.                                       *)
(***************************************************************************)

LEMMA TwoInto ==
  ASSUME NEW A, NEW B, NEW T, IsFiniteSet(T),
         NEW f \in [A -> T], NEW g \in [B -> T],
         \A x, y \in A : f[x] = f[y] => x = y,
         \A x, y \in B : g[x] = g[y] => x = y,
         \A x \in A, y \in B : f[x] # g[y]
  PROVE  Cardinality(A) + Cardinality(B) <= Cardinality(T)
<1> DEFINE FA == {f[x] : x \in A}
           GB == {g[y] : y \in B}
<1>1. /\ FA \in SUBSET T /\ IsFiniteSet(FA)
      /\ GB \in SUBSET T /\ IsFiniteSet(GB)
  BY FS_Subset
<1>2. f \in Injection(A, FA) /\ g \in Injection(B, GB)
  BY DEF Injection, IsInjective
<1>3. FA \cap GB = {} /\ FA \cup GB \in SUBSET T
  BY <1>1
<1> HIDE DEF FA, GB
<1>4. /\ IsFiniteSet(A) /\ Cardinality(A) <= Cardinality(FA)
      /\ IsFiniteSet(B) /\ Cardinality(B) <= Cardinality(GB)
  BY <1>1, <1>2, FS_Injection
<1>5. Cardinality(FA \cup GB) = Cardinality(FA) + Cardinality(GB) - 0
  BY <1>1, <1>3, FS_Union, FS_EmptySet
<1>6. Cardinality(FA \cup GB) <= Cardinality(T) /\ IsFiniteSet(FA \cup GB)
  BY <1>3, FS_Subset
<1>7. /\ Cardinality(A) \in Nat /\ Cardinality(B) \in Nat /\ Cardinality(T) \in Nat
      /\ Cardinality(FA) \in Nat /\ Cardinality(GB) \in Nat
  BY <1>1, <1>4, FS_CardinalityType
<1>8. QED
  BY <1>4, <1>5, <1>6, <1>7

------------------------------------------------------------------------------
(***************************************************************************)
(* Types.                                                                  *)
(***************************************************************************)

Sent == [sender : Process, seq_no : Nat]
Event == [type : {"confchg"}, members : SUBSET Process] \cup [type : {"msg"}, msg : Sent]
Request == {JoinRequest} \cup [type : {"msg"}, msg : Sent]

(* The types of the group and of the counters. *)
GroupTyped ==
  /\ log \in Seq(Event)
  /\ pend \in [Process -> Seq(Request)]
  /\ members \in SUBSET Process
  /\ cursor \in [Process -> Int]
  /\ \A p \in Process : cursor[p] \in -1 .. Len(log)
CountsTyped ==
  /\ last_msg \in [Process -> Nat] /\ last_expected \in [Process -> Nat]
  /\ i \in [Process -> Nat]
  /\ result \in [Process -> {-1, 0, 1}]
  /\ echoed \in [Process -> Seq(Nat)]
  /\ pc \in [Process -> Places]

Typed == GroupTyped /\ CountsTyped

LEMMA TypedParts ==
  /\ Typed <=> GroupTyped /\ CountsTyped
  /\ Typed' <=> GroupTyped' /\ CountsTyped'
BY DEF Typed

LEMMA Shapes ==
  /\ \A S \in SUBSET Process : /\ Confchg(S) \in Event
                               /\ Confchg(S).type = "confchg" /\ Confchg(S).members = S
  /\ \A m \in Sent : /\ MsgRequest(m) \in Event /\ MsgRequest(m) \in Request
                     /\ MsgRequest(m).type = "msg" /\ MsgRequest(m).msg = m
  /\ JoinRequest \in Request /\ JoinRequest.type = "join"
<1>1. \A S \in SUBSET Process : /\ Confchg(S) \in Event
                                /\ Confchg(S).type = "confchg" /\ Confchg(S).members = S
  BY DEF Event, Confchg
<1>2. \A m \in Sent : /\ MsgRequest(m) \in Event /\ MsgRequest(m) \in Request
                      /\ MsgRequest(m).type = "msg" /\ MsgRequest(m).msg = m
  BY DEF Event, Request, MsgRequest
<1>3. JoinRequest \in Request /\ JoinRequest.type = "join"
  BY DEF Request, JoinRequest
<1>4. QED
  BY <1>1, <1>2, <1>3

LEMMA Kinds ==
  /\ \A e \in Event : e.type = "confchg" \/ (e.type = "msg" /\ e.msg \in Sent)
  /\ \A r \in Request : \/ r = JoinRequest
                        \/ r.type = "msg" /\ r.msg \in Sent /\ r \in Event
  /\ \A m \in Sent : m.sender \in Process /\ m.seq_no \in Nat
BY DEF Event, Request, Sent

LEMMA LogAppend ==
  ASSUME NEW s \in Seq(Event), NEW e \in Event
  PROVE  /\ Append(s, e) \in Seq(Event)
         /\ Len(Append(s, e)) = Len(s) + 1
         /\ Len(s) \in Nat
         /\ Append(s, e)[Len(s) + 1] = e
         /\ \A k \in 1 .. Len(s) : Append(s, e)[k] = s[k] /\ s[k] \in Event
OBVIOUS

LEMMA QueueAppend ==
  ASSUME NEW s \in Seq(Request), NEW e \in Request
  PROVE  /\ Append(s, e) \in Seq(Request)
         /\ Len(Append(s, e)) = Len(s) + 1
         /\ Len(s) \in Nat
         /\ Append(s, e)[Len(s) + 1] = e
         /\ \A k \in 1 .. Len(s) : Append(s, e)[k] = s[k] /\ s[k] \in Request
OBVIOUS

LEMMA QueueTail ==
  ASSUME NEW s \in Seq(Request), s # <<>>
  PROVE  /\ Tail(s) \in Seq(Request)
         /\ Len(Tail(s)) = Len(s) - 1
         /\ Len(s) \in Nat \ {0}
         /\ Head(s) = s[1] /\ Head(s) \in Request
         /\ \A k \in 1 .. Len(s) - 1 : Tail(s)[k] = s[k + 1]
<1>1. Tail(s) \in Seq(Request) /\ Len(Tail(s)) = Len(s) - 1 /\ Head(s) \in Request
  BY HeadTailProperties
<1>2. Len(s) \in Nat \ {0} /\ Head(s) = s[1]
  OBVIOUS
<1>3. \A k \in 1 .. Len(s) - 1 : Tail(s)[k] = s[k + 1]
  BY <1>1, HeadTailProperties
<1>4. QED
  BY <1>1, <1>2, <1>3

(* The two things the daemon can order, and the requests it leaves. *)
Ordered(p) == pend[p] # <<>> /\ pend' = [pend EXCEPT ![p] = Tail(@)]
OrderJoin(p) ==
  /\ Ordered(p) /\ pend[p][1] = JoinRequest
  /\ members' = members \cup {p}
  /\ cursor' = [cursor EXCEPT ![p] = Len(log)]
  /\ log' = Append(log, Confchg(members \cup {p}))
OrderMsg(p) ==
  /\ Ordered(p) /\ pend[p][1].type = "msg" /\ pend[p][1] \in Event
  /\ log' = Append(log, pend[p][1])
  /\ members' = members /\ cursor' = cursor

LEMMA OrderCases ==
  ASSUME Typed, NEW p \in Process, DaemonOrders(p)
  PROVE  OrderJoin(p) \/ OrderMsg(p)
<1>1. pend[p] \in Seq(Request) /\ pend[p] # <<>>
  BY DEF Typed, GroupTyped, DaemonOrders, Order
<1>2. Head(pend[p]) \in Request /\ Head(pend[p]) = pend[p][1] /\ Ordered(p)
  BY <1>1, QueueTail DEF DaemonOrders, Order, Ordered
<1>3. CASE pend[p][1] = JoinRequest
  <2>1. Head(pend[p]).type = "join"
    BY <1>2, <1>3, Shapes
  <2>2. /\ members' = members \cup {p}
        /\ cursor' = [cursor EXCEPT ![p] = Len(log)]
        /\ log' = Append(log, Confchg(members'))
    BY <2>1 DEF DaemonOrders, Order
  <2>3. QED
    BY <1>2, <1>3, <2>2 DEF OrderJoin
<1>4. CASE pend[p][1].type = "msg" /\ pend[p][1] \in Event
  <2>1. Head(pend[p]).type = "msg"
    BY <1>2, <1>4
  <2>2. log' = Append(log, Head(pend[p])) /\ members' = members /\ cursor' = cursor
    BY <2>1 DEF DaemonOrders, Order
  <2>3. QED
    BY <1>2, <1>4, <2>2 DEF OrderMsg
<1>5. QED
  BY <1>2, <1>3, <1>4, Kinds

------------------------------------------------------------------------------
(***************************************************************************)
(* The invariant of the protocol.                                          *)
(***************************************************************************)

LSeq(k) == log[k].msg.seq_no
PSeq(p, k) == pend[p][k].msg.seq_no

(* At most one burst is under way. *)
CountsRight(p) ==
  /\ last_msg[p] <= MaxSent[p]
  /\ last_expected[p] <= last_msg[p] /\ last_msg[p] - last_expected[p] <= num
  /\ max_msgs[p] # NoLimit => last_msg[p] <= max_msgs[p]

(* What main() knows at its places. *)
PlaceRight(p) ==
  /\ i[p] <= num
  /\ pc[p] = "send" => /\ ~ReachedMax(p, last_msg[p])
                       /\ last_msg[p] - last_expected[p] <= i[p]
  /\ pc[p] = "success" => ReachedMax(p, last_expected[p])
  /\ pc[p] = "dispatching" => cursor[p] >= 1

(* With -m exactly the messages before last_expected have come back, unless *)
(* a wrong one has ended the process.                                       *)
EchoRight(p) ==
  max_msgs[p] # NoLimit /\ pc[p] # "bad_message" =>
    echoed[p] = [k \in 1 .. last_expected[p] |-> k - 1]

(* The messages of p that are ordered and those that wait are numbered in   *)
(* the order they were sent, and what is still to come back begins at       *)
(* last_expected.                                                           *)
LogRight(p) ==
  \A k \in Own(p) :
    /\ LSeq(k) < last_msg[p]
    /\ k > cursor[p] => LSeq(k) >= last_expected[p]
    /\ \A j \in Own(p) : j < k => LSeq(j) < LSeq(k)
    /\ \A j \in Waiting(p) : LSeq(k) < PSeq(p, j)
PendRight(p) ==
  \A k \in Waiting(p) :
    /\ pend[p][k].msg.sender = p
    /\ last_expected[p] <= PSeq(p, k) /\ PSeq(p, k) < last_msg[p]
    /\ \A j \in Waiting(p) : j < k => PSeq(p, j) < PSeq(p, k)

ProcessRight(p) == CountsRight(p) /\ PlaceRight(p) /\ EchoRight(p) /\ LogRight(p) /\ PendRight(p)

LoadInv == Typed /\ \A p \in Process : ProcessRight(p)

LEMMA SeqsTyped ==
  ASSUME Typed, NEW p \in Process
  PROVE  /\ \A k \in Own(p) : LSeq(k) \in Nat
         /\ \A k \in Waiting(p) : PSeq(p, k) \in Nat
<1>1. ASSUME NEW k \in Own(p) PROVE LSeq(k) \in Nat
  <2>1. log[k] \in Event /\ log[k].type = "msg"
    BY DEF Typed, GroupTyped, Own
  <2>2. QED
    BY <2>1, Kinds DEF LSeq
<1>2. ASSUME NEW k \in Waiting(p) PROVE PSeq(p, k) \in Nat
  <2>1. pend[p][k] \in Request /\ pend[p][k].type = "msg"
    BY DEF Typed, GroupTyped, Waiting
  <2>2. QED
    BY <2>1, Kinds, Shapes DEF PSeq
<1>3. QED
  BY <1>1, <1>2

LEMMA InitLoad == Init => LoadInv
<1> SUFFICES ASSUME Init PROVE LoadInv
  OBVIOUS
<1>1. log = <<>> /\ log \in Seq(Event) /\ Len(log) = 0
  BY EmptySeq DEF Init, CpgInit
<1>2. pend \in [Process -> Seq(Request)] /\ cursor \in [Process -> Int]
      /\ \A p \in Process : cursor[p] = -1 /\ pend[p] = <<>> /\ Len(pend[p]) = 0
  BY EmptySeq DEF Init, CpgInit
<1>3. GroupTyped
  BY <1>1, <1>2 DEF Init, CpgInit, GroupTyped
<1>4. CountsTyped
  BY EmptySeq DEF Init, Each, CountsTyped, Places
<1>5. ASSUME NEW p \in Process PROVE ProcessRight(p)
  <2>1. /\ pc[p] = "join" /\ last_msg[p] = 0 /\ last_expected[p] = 0 /\ i[p] = 0
        /\ echoed[p] = <<>>
    BY DEF Init, Each
  <2>2. CountsRight(p) /\ PlaceRight(p)
    BY <2>1, LoadAssumption DEF CountsRight, PlaceRight, NoLimit
  <2>3. [k \in 1 .. 0 |-> k - 1] = <<>>
    OBVIOUS
  <2>4. EchoRight(p)
    BY <2>1, <2>3 DEF EchoRight
  <2>5. Own(p) = {} /\ Waiting(p) = {}
    BY <1>1, <1>2 DEF Own, Waiting
  <2>6. QED
    BY <2>2, <2>4, <2>5 DEF ProcessRight, LogRight, PendRight
<1>6. QED
  BY <1>3, <1>4, <1>5 DEF LoadInv, Typed

------------------------------------------------------------------------------
(***************************************************************************)
(* Steps that change neither the log nor the queue of a process.           *)
(***************************************************************************)

LEMMA EchoStays ==
  ASSUME NEW q \in Process, EchoRight(q),
         last_expected'[q] = last_expected[q], echoed'[q] = echoed[q],
         pc[q] = "bad_message" => pc'[q] = "bad_message"
  PROVE  EchoRight(q)'
BY DEF EchoRight

(* A step that takes nothing back for q: it may read, and may find something *)
(* wrong.                                                                    *)
LEMMA QuietStep ==
  ASSUME LoadInv, Typed', NEW q \in Process,
         log' = log, pend'[q] = pend[q],
         last_msg'[q] = last_msg[q], last_expected'[q] = last_expected[q],
         cursor'[q] >= cursor[q],
         PlaceRight(q)', EchoRight(q)'
  PROVE  ProcessRight(q)'
<1>1. CountsRight(q) /\ LogRight(q) /\ PendRight(q)
  BY DEF LoadInv, ProcessRight
<1>2. CountsRight(q)'
  BY <1>1 DEF CountsRight
<1>3. /\ Own(q)' = Own(q) /\ Waiting(q)' = Waiting(q)
      /\ \A k \in Own(q) : LSeq(k)' = LSeq(k)
      /\ \A k \in Waiting(q) : PSeq(q, k)' = PSeq(q, k)
  BY DEF Own, Waiting, LSeq, PSeq
<1>4. cursor[q] \in Int /\ cursor'[q] \in Int
  BY DEF LoadInv, Typed, GroupTyped
<1>5. LogRight(q)'
  BY <1>1, <1>3, <1>4 DEF LogRight, Own, LSeq
<1>6. PendRight(q)'
  BY <1>1, <1>3 DEF PendRight
<1>7. QED
  BY <1>2, <1>5, <1>6 DEF ProcessRight

(* Nothing happens to q. *)
SameFor(q) ==
  /\ pend'[q] = pend[q] /\ cursor'[q] = cursor[q]
  /\ last_msg'[q] = last_msg[q] /\ last_expected'[q] = last_expected[q]
  /\ i'[q] = i[q] /\ pc'[q] = pc[q] /\ echoed'[q] = echoed[q]

LEMMA SamePlace ==
  ASSUME NEW q \in Process, PlaceRight(q), SameFor(q)
  PROVE  PlaceRight(q)'
BY DEF SameFor, PlaceRight, ReachedMax

LEMMA SameStep ==
  ASSUME LoadInv, Typed', NEW q \in Process, log' = log, SameFor(q)
  PROVE  ProcessRight(q)'
<1>1. PlaceRight(q) /\ EchoRight(q) /\ cursor[q] \in Int
  BY DEF LoadInv, Typed, GroupTyped, ProcessRight
<1>2. PlaceRight(q)'
  BY <1>1, SamePlace
<1>3. EchoRight(q)'
  BY <1>1, EchoStays DEF SameFor
<1>4. QED
  BY <1>1, <1>2, <1>3, QuietStep DEF SameFor

(* The message that p expected comes back. *)
LEMMA BackStep ==
  ASSUME LoadInv, Typed', NEW p \in Process, NEW n \in Own(p),
         log' = log, pend'[p] = pend[p], last_msg'[p] = last_msg[p],
         cursor'[p] >= n, n >= cursor[p], LSeq(n) = last_expected[p],
         last_expected'[p] = last_expected[p] + 1,
         echoed'[p] = Append(echoed[p], last_expected[p]),
         pc[p] # "bad_message", PlaceRight(p)'
  PROVE  ProcessRight(p)'
<1>1. CountsRight(p) /\ EchoRight(p) /\ LogRight(p) /\ PendRight(p)
  BY DEF LoadInv, ProcessRight
<1>2. /\ last_msg[p] \in Nat /\ last_expected[p] \in Nat
      /\ cursor[p] \in Int /\ cursor'[p] \in Int /\ n \in Nat
  BY DEF LoadInv, Typed, GroupTyped, CountsTyped, Own
<1>3. CountsRight(p)'
  <2>1. last_expected[p] < last_msg[p]
    BY <1>1 DEF LogRight
  <2>2. QED
    BY <1>1, <1>2, <2>1, LoadAssumption DEF CountsRight
<1>4. EchoRight(p)'
  <2>1. Append([k \in 1 .. last_expected[p] |-> k - 1], last_expected[p])
          = [k \in 1 .. last_expected[p] + 1 |-> k - 1]
    BY <1>2
  <2>2. QED
    BY <1>1, <1>2, <2>1 DEF EchoRight
<1>5. /\ Own(p)' = Own(p) /\ Waiting(p)' = Waiting(p)
      /\ \A k \in Own(p) : LSeq(k)' = LSeq(k)
      /\ \A k \in Waiting(p) : PSeq(p, k)' = PSeq(p, k)
  BY DEF Own, Waiting, LSeq, PSeq
<1>6. \A k \in Own(p) : k > cursor'[p] => LSeq(k) >= last_expected[p] + 1
  <2> SUFFICES ASSUME NEW k \in Own(p), k > cursor'[p] PROVE LSeq(k) >= last_expected[p] + 1
    OBVIOUS
  <2>1. LSeq(n) \in Nat /\ LSeq(k) \in Nat /\ k \in Nat
    BY SeqsTyped DEF LoadInv, Own
  <2>2. LSeq(n) < LSeq(k)
    BY <1>1, <1>2, <2>1 DEF LogRight
  <2>3. QED
    BY <1>2, <2>1, <2>2
<1>7. \A k \in Waiting(p) : PSeq(p, k) >= last_expected[p] + 1
  <2> SUFFICES ASSUME NEW k \in Waiting(p) PROVE PSeq(p, k) >= last_expected[p] + 1
    OBVIOUS
  <2>1. LSeq(n) \in Nat /\ PSeq(p, k) \in Nat
    BY SeqsTyped DEF LoadInv
  <2>2. LSeq(n) < PSeq(p, k)
    BY <1>1 DEF LogRight
  <2>3. QED
    BY <1>2, <2>1, <2>2
<1>8. LogRight(p)'
  BY <1>1, <1>5, <1>6 DEF LogRight, Own, LSeq
<1>9. PendRight(p)'
  BY <1>1, <1>5, <1>7 DEF PendRight
<1>10. QED
  BY <1>3, <1>4, <1>8, <1>9 DEF ProcessRight

------------------------------------------------------------------------------
(***************************************************************************)
(* Steps that change the queue of a process.                               *)
(***************************************************************************)

LEMMA SendStep ==
  ASSUME LoadInv, Typed', NEW p \in Process, SendMsg(p)
  PROVE  ProcessRight(p)'
<1>1. CountsRight(p) /\ PlaceRight(p) /\ EchoRight(p) /\ LogRight(p) /\ PendRight(p)
  BY DEF LoadInv, ProcessRight
<1>2. /\ last_msg[p] \in Nat /\ last_expected[p] \in Nat /\ i[p] \in Nat
      /\ cursor[p] \in Int /\ pend[p] \in Seq(Request) /\ pc \in [Process -> Places]
      /\ pend \in [Process -> Seq(Request)] /\ max_msgs[p] \in Int /\ MaxSent[p] \in Nat
      /\ num \in Nat
  BY LoadAssumption DEF LoadInv, Typed, GroupTyped, CountsTyped, NoLimit
<1>3. PICK r \in Request :
         /\ r.type = "msg" /\ r.msg.sender = p /\ r.msg.seq_no = last_msg[p]
         /\ pend'[p] = Append(pend[p], r)
  <2>1. Message(p) \in Sent /\ Message(p).sender = p /\ Message(p).seq_no = last_msg[p]
    BY <1>2 DEF Message, Sent
  <2>2. PICK r \in Request : r = MsgRequest(Message(p)) /\ r.type = "msg" /\ r.msg = Message(p)
    BY <2>1, Shapes
  <2>3. pend' = [pend EXCEPT ![p] = Append(pend[p], r)]
    BY <2>2 DEF SendMsg, Ask
  <2>4. pend'[p] = Append(pend[p], r)
    BY <1>2, <2>3
  <2>5. QED
    BY <2>1, <2>2, <2>4
<1>4. PICK n \in Nat : n = Len(pend[p]) + 1
  BY <1>2
<1>5. /\ last_msg'[p] = last_msg[p] + 1 /\ last_expected'[p] = last_expected[p]
      /\ i'[p] = i[p] + 1 /\ i[p] < num /\ last_msg[p] < MaxSent[p]
      /\ log' = log /\ cursor'[p] = cursor[p] /\ echoed'[p] = echoed[p] /\ pc[p] = "send"
      /\ IF ReachedMax(p, last_msg[p] + 1) THEN pc'[p] = "dispatch" ELSE pc'[p] = "send"
  <2>1. last_msg'[p] = last_msg[p] + 1
    BY <1>2 DEF SendMsg, LoadInv, Typed, CountsTyped
  <2>2. IF ReachedMax(p, last_msg[p] + 1) THEN pc'[p] = "dispatch" ELSE pc'[p] = "send"
    BY <1>2, <2>1 DEF SendMsg, Goto
  <2>3. QED
    BY <1>2, <2>1, <2>2 DEF SendMsg, LoadInv, Typed, CountsTyped
<1>6. CountsRight(p)' /\ PlaceRight(p)'
  <2>1. /\ max_msgs[p] # NoLimit => last_msg[p] < max_msgs[p]
        /\ last_msg[p] - last_expected[p] <= i[p] /\ last_expected[p] <= last_msg[p]
    BY <1>1, <1>2, <1>5 DEF CountsRight, PlaceRight, ReachedMax
  <2>2. CountsRight(p)'
    BY <1>2, <1>5, <2>1 DEF CountsRight
  <2>3. last_msg'[p] - last_expected'[p] <= i'[p] /\ i'[p] <= num
    BY <1>2, <1>5, <2>1
  <2>4. pc'[p] = "send" => ~ReachedMax(p, last_msg[p])'
    BY <1>5 DEF ReachedMax
  <2>5. PlaceRight(p)'
    BY <1>5, <2>3, <2>4 DEF PlaceRight
  <2>6. QED
    BY <2>2, <2>5
<1>7. EchoRight(p)'
  BY <1>1, <1>5, EchoStays
<1>8. /\ Waiting(p)' = Waiting(p) \cup {n} /\ \A k \in Waiting(p) : k \in Nat /\ k < n
      /\ \A k \in Waiting(p) : pend'[p][k] = pend[p][k]
      /\ pend'[p][n] = r
  BY <1>2, <1>3, <1>4, QueueAppend DEF Waiting
<1>9. /\ Own(p)' = Own(p) /\ \A k \in Own(p) : LSeq(k)' = LSeq(k)
  BY <1>5 DEF Own, LSeq
<1>10. /\ \A k \in Waiting(p) : PSeq(p, k)' = PSeq(p, k)
       /\ PSeq(p, n)' = last_msg[p]
  BY <1>3, <1>8 DEF PSeq
<1>11. LogRight(p)'
  <2> SUFFICES ASSUME NEW k \in Own(p)
               PROVE  /\ LSeq(k) < last_msg'[p]
                      /\ k > cursor'[p] => LSeq(k) >= last_expected'[p]
                      /\ \A j \in Own(p) : j < k => LSeq(j) < LSeq(k)
                      /\ \A j \in Waiting(p)' : LSeq(k) < PSeq(p, j)'
    BY <1>9 DEF LogRight
  <2>1. LSeq(k) \in Nat
    BY SeqsTyped DEF LoadInv
  <2>2. LSeq(k) < last_msg[p]
    BY <1>1 DEF LogRight
  <2>3. \A j \in Waiting(p)' : LSeq(k) < PSeq(p, j)'
    BY <1>1, <1>8, <1>10, <2>2 DEF LogRight
  <2>4. LSeq(k) < last_msg'[p]
    BY <1>2, <1>5, <2>1, <2>2
  <2>5. QED
    BY <1>1, <1>5, <2>3, <2>4 DEF LogRight
<1>12. PendRight(p)'
  <2>1. ASSUME NEW k \in Waiting(p)
        PROVE  /\ pend'[p][k].msg.sender = p
               /\ last_expected'[p] <= PSeq(p, k)' /\ PSeq(p, k)' < last_msg'[p]
               /\ \A j \in Waiting(p)' : j < k => PSeq(p, j)' < PSeq(p, k)'
    <3>1. PSeq(p, k) \in Nat /\ k \in Nat /\ k < n
      BY <1>8, SeqsTyped DEF LoadInv
    <3>2. PSeq(p, k) < last_msg[p] /\ last_expected[p] <= PSeq(p, k) /\ pend[p][k].msg.sender = p
      BY <1>1 DEF PendRight
    <3>3. \A j \in Waiting(p)' : j < k => j \in Waiting(p)
      BY <1>4, <1>8, <3>1
    <3>4. \A j \in Waiting(p)' : j < k => PSeq(p, j)' < PSeq(p, k)'
      BY <1>1, <1>10, <3>3 DEF PendRight
    <3>5. QED
      BY <1>2, <1>5, <1>8, <1>10, <3>1, <3>2, <3>4
  <2>2. /\ pend'[p][n].msg.sender = p
        /\ last_expected'[p] <= PSeq(p, n)' /\ PSeq(p, n)' < last_msg'[p]
        /\ \A j \in Waiting(p)' : j < n => PSeq(p, j)' < PSeq(p, n)'
    <3>1. \A j \in Waiting(p)' : j < n => j \in Waiting(p)
      BY <1>4, <1>8
    <3>2. \A j \in Waiting(p)' : j < n => PSeq(p, j)' < PSeq(p, n)'
      BY <1>1, <1>10, <3>1 DEF PendRight
    <3>3. last_expected[p] <= last_msg[p]
      BY <1>1 DEF CountsRight
    <3>4. QED
      BY <1>2, <1>3, <1>5, <1>8, <1>10, <3>2, <3>3
  <2>3. QED
    BY <1>8, <2>1, <2>2 DEF PendRight
<1>13. QED
  BY <1>6, <1>7, <1>11, <1>12 DEF ProcessRight

(* A process that asks to join waits for nothing new. *)
LEMMA JoinStep ==
  ASSUME LoadInv, Typed', NEW p \in Process, Join(p)
  PROVE  ProcessRight(p)'
<1>1. CountsRight(p) /\ PlaceRight(p) /\ EchoRight(p) /\ LogRight(p) /\ PendRight(p)
  BY DEF LoadInv, ProcessRight
<1>2. /\ pend[p] \in Seq(Request) /\ pend'[p] = Append(pend[p], JoinRequest)
      /\ UNCHANGED <<log, cursor, last_msg, last_expected, i, echoed>>
      /\ pc[p] = "join" /\ pc'[p] = "loop"
  BY DEF Join, Ask, Goto, loop, LoadInv, Typed, GroupTyped, CountsTyped
<1>3. /\ CountsRight(p)' /\ PlaceRight(p)'
  BY <1>1, <1>2 DEF CountsRight, PlaceRight
<1>4. EchoRight(p)'
  BY <1>1, <1>2, EchoStays
<1>5. Waiting(p)' = Waiting(p) /\ \A k \in Waiting(p) : pend'[p][k] = pend[p][k]
  <2>1. JoinRequest.type # "msg" /\ JoinRequest \in Request
    BY Shapes
  <2>2. QED
    BY <1>2, <2>1, QueueAppend DEF Waiting
<1>6. \A k \in Waiting(p) : PSeq(p, k)' = PSeq(p, k)
  BY <1>5 DEF PSeq
<1>7. /\ Own(p)' = Own(p) /\ \A k \in Own(p) : LSeq(k)' = LSeq(k)
  BY <1>2 DEF Own, LSeq
<1>8. LogRight(p)'
  BY <1>1, <1>2, <1>5, <1>6, <1>7 DEF LogRight
<1>9. PendRight(p)'
  BY <1>1, <1>2, <1>5, <1>6 DEF PendRight
<1>10. QED
  BY <1>3, <1>4, <1>8, <1>9 DEF ProcessRight

------------------------------------------------------------------------------
(***************************************************************************)
(* Steps of the daemon.                                                    *)
(***************************************************************************)

(* What the log holds of q does not change when something else is ordered.  *)
LEMMA OtherOrdered ==
  ASSUME LoadInv, NEW q \in Process, NEW e \in Event, log' = Append(log, e),
         e.type = "msg" => e.msg.sender # q
  PROVE  Own(q)' = Own(q) /\ \A k \in Own(q) : LSeq(k)' = LSeq(k) /\ k <= Len(log)
<1>1. log \in Seq(Event)
  BY DEF LoadInv, Typed, GroupTyped
<1>2. /\ Len(log) \in Nat /\ Len(log') = Len(log) + 1 /\ log'[Len(log) + 1] = e
      /\ \A k \in 1 .. Len(log) : log'[k] = log[k]
  BY <1>1, LogAppend
<1>3. Own(q)' = Own(q)
  BY <1>2 DEF Own
<1>4. ASSUME NEW k \in Own(q) PROVE LSeq(k)' = LSeq(k) /\ k <= Len(log)
  BY <1>2 DEF Own, LSeq
<1>5. QED
  BY <1>3, <1>4

(* Another process's request, or a join of its own, is ordered: q still      *)
(* waits for the same messages.                                              *)
LEMMA BesideStep ==
  ASSUME LoadInv, Typed', NEW q \in Process, NEW e \in Event, log' = Append(log, e),
         e.type = "msg" => e.msg.sender # q,
         NEW d \in Nat,
         Waiting(q) = {k + d : k \in Waiting(q)'},
         Waiting(q)' \subseteq Nat,
         \A k \in Waiting(q)' : pend'[q][k] = pend[q][k + d],
         cursor'[q] >= cursor[q],
         UNCHANGED <<last_msg, last_expected, i, pc, echoed>>
  PROVE  ProcessRight(q)'
<1>1. CountsRight(q) /\ PlaceRight(q) /\ EchoRight(q) /\ LogRight(q) /\ PendRight(q)
  BY DEF LoadInv, ProcessRight
<1>2. cursor[q] \in Int /\ cursor'[q] \in Int
  BY DEF LoadInv, Typed, GroupTyped
<1>3. CountsRight(q)' /\ EchoRight(q)'
  BY <1>1, EchoStays DEF CountsRight
<1>4. PlaceRight(q)'
  BY <1>1, <1>2 DEF PlaceRight, ReachedMax
<1>5. Own(q)' = Own(q) /\ \A k \in Own(q) : LSeq(k)' = LSeq(k)
  BY OtherOrdered
<1>6. \A k \in Waiting(q)' : k + d \in Waiting(q) /\ PSeq(q, k)' = PSeq(q, k + d)
  BY DEF PSeq
<1>7. LogRight(q)'
  <2> SUFFICES ASSUME NEW k \in Own(q)
               PROVE  /\ LSeq(k) < last_msg[q]
                      /\ k > cursor'[q] => LSeq(k) >= last_expected[q]
                      /\ \A j \in Own(q) : j < k => LSeq(j) < LSeq(k)
                      /\ \A j \in Waiting(q)' : LSeq(k) < PSeq(q, j)'
    BY <1>5 DEF LogRight
  <2>1. k \in Int
    BY DEF Own
  <2>2. k > cursor'[q] => k > cursor[q]
    BY <1>2, <2>1
  <2>3. \A j \in Waiting(q)' : LSeq(k) < PSeq(q, j)'
    BY <1>1, <1>6 DEF LogRight
  <2>4. QED
    BY <1>1, <2>2, <2>3 DEF LogRight
<1>8. PendRight(q)'
  <2> SUFFICES ASSUME NEW k \in Waiting(q)'
               PROVE  /\ pend'[q][k].msg.sender = q
                      /\ last_expected[q] <= PSeq(q, k)' /\ PSeq(q, k)' < last_msg[q]
                      /\ \A j \in Waiting(q)' : j < k => PSeq(q, j)' < PSeq(q, k)'
    BY DEF PendRight
  <2>1. k + d \in Waiting(q) /\ PSeq(q, k)' = PSeq(q, k + d)
    BY <1>6
  <2>2. \A j \in Waiting(q)' : j < k => j + d < k + d
    OBVIOUS
  <2>3. \A j \in Waiting(q)' : j < k => PSeq(q, j)' < PSeq(q, k)'
    BY <1>1, <1>6, <2>1, <2>2 DEF PendRight
  <2>4. QED
    BY <1>1, <2>1, <2>3 DEF PendRight
<1>9. QED
  BY <1>3, <1>4, <1>7, <1>8 DEF ProcessRight

(* The oldest request of p is ordered: the others move up. *)
LEMMA MoveUp ==
  ASSUME Typed, NEW p \in Process, Ordered(p)
  PROVE  /\ \A k \in Waiting(p)' : /\ k \in Nat \ {0} /\ k + 1 \in Waiting(p)
                                   /\ pend'[p][k] = pend[p][k + 1]
         /\ \A k \in Waiting(p) : k \in Nat \ {0} /\ (k # 1 => k - 1 \in Waiting(p)')
         /\ 1 \in Waiting(p) <=> pend[p][1].type = "msg"
         /\ \A q \in Process \ {p} : pend'[q] = pend[q]
<1>1. /\ pend \in [Process -> Seq(Request)] /\ pend[p] \in Seq(Request) /\ pend[p] # <<>>
      /\ pend' = [pend EXCEPT ![p] = Tail(pend[p])]
  BY DEF Typed, GroupTyped, Ordered
<1>2. pend'[p] = Tail(pend[p]) /\ \A q \in Process \ {p} : pend'[q] = pend[q]
  BY <1>1
<1>3. PICK s \in Seq(Request) : s = pend[p]
  BY <1>1
<1>4. PICK t \in Seq(Request) : t = Tail(s)
  BY <1>1, <1>3, QueueTail
<1>5. /\ Len(s) \in Nat \ {0} /\ Len(t) = Len(s) - 1
      /\ \A k \in 1 .. Len(s) - 1 : t[k] = s[k + 1]
  BY <1>1, <1>3, <1>4, QueueTail
<1>6. /\ Waiting(p) = {k \in 1 .. Len(s) : s[k].type = "msg"}
      /\ Waiting(p)' = {k \in 1 .. Len(t) : t[k].type = "msg"}
  BY <1>2, <1>3, <1>4 DEF Waiting
<1>7. ASSUME NEW k \in Waiting(p)'
      PROVE  k \in Nat \ {0} /\ k + 1 \in Waiting(p) /\ t[k] = s[k + 1]
  BY <1>5, <1>6
<1>8. ASSUME NEW k \in Waiting(p)
      PROVE  k \in Nat \ {0} /\ (k # 1 => k - 1 \in Waiting(p)')
  <2>1. k \in 1 .. Len(s) /\ s[k].type = "msg"
    BY <1>6
  <2>2. ASSUME k # 1 PROVE k - 1 \in 1 .. Len(t) /\ t[k - 1] = s[k]
    <3>1. k - 1 \in 1 .. Len(s) - 1 /\ (k - 1) + 1 = k
      BY <1>5, <2>1, <2>2
    <3>2. QED
      BY <1>5, <3>1
  <2>3. QED
    BY <1>6, <2>1, <2>2
<1>9. 1 \in Waiting(p) <=> s[1].type = "msg"
  BY <1>5, <1>6
<1>10. QED
  BY <1>2, <1>3, <1>4, <1>7, <1>8, <1>9

(* A message of p is ordered: it takes its place behind all others of p. *)
LEMMA OrderOwn ==
  ASSUME LoadInv, Typed', NEW p \in Process, OrderMsg(p),
         UNCHANGED <<last_msg, last_expected, i, pc, echoed>>
  PROVE  ProcessRight(p)'
<1>1. CountsRight(p) /\ PlaceRight(p) /\ EchoRight(p) /\ LogRight(p) /\ PendRight(p)
  BY DEF LoadInv, ProcessRight
<1>2. log \in Seq(Event) /\ cursor[p] \in Int /\ cursor[p] <= Len(log) /\ cursor' = cursor
  BY DEF LoadInv, Typed, GroupTyped, OrderMsg
<1>3. CountsRight(p)' /\ EchoRight(p)' /\ PlaceRight(p)'
  BY <1>1, <1>2, EchoStays DEF CountsRight, PlaceRight, ReachedMax
<1>4. PICK e \in Event : e = pend[p][1] /\ e.type = "msg" /\ log' = Append(log, e)
  BY DEF OrderMsg
<1>5. PICK n \in Nat : n = Len(log) + 1
  BY <1>2
<1>6. 1 \in Waiting(p) /\ e.msg.sender = p /\ e.msg.seq_no = PSeq(p, 1)
  BY <1>1, <1>4, MoveUp DEF OrderMsg, PendRight, PSeq, LoadInv
<1>7. /\ Len(log) \in Nat /\ Len(log') = n /\ log'[n] = e
      /\ \A k \in 1 .. Len(log) : log'[k] = log[k]
  BY <1>2, <1>4, <1>5, LogAppend
<1>8. /\ Own(p)' = Own(p) \cup {n} /\ \A k \in Own(p) : k \in Nat /\ k < n
      /\ \A k \in Own(p) : LSeq(k)' = LSeq(k)
      /\ LSeq(n)' = PSeq(p, 1)
  BY <1>4, <1>5, <1>6, <1>7 DEF Own, LSeq
<1>9. \A k \in Waiting(p)' : /\ k \in Nat \ {0} /\ k + 1 \in Waiting(p)
                             /\ pend'[p][k] = pend[p][k + 1] /\ PSeq(p, k)' = PSeq(p, k + 1)
  BY MoveUp DEF OrderMsg, LoadInv, PSeq
<1>10. last_expected[p] <= PSeq(p, 1) /\ PSeq(p, 1) < last_msg[p]
  BY <1>1, <1>6 DEF PendRight
<1>11. LogRight(p)'
  <2>1. ASSUME NEW k \in Own(p)
        PROVE  /\ LSeq(k)' < last_msg[p]
               /\ k > cursor[p] => LSeq(k)' >= last_expected[p]
               /\ \A j \in Own(p)' : j < k => LSeq(j)' < LSeq(k)'
               /\ \A j \in Waiting(p)' : LSeq(k)' < PSeq(p, j)'
    <3>1. \A j \in Own(p)' : j < k => j \in Own(p)
      BY <1>5, <1>8
    <3>2. \A j \in Own(p)' : j < k => LSeq(j)' < LSeq(k)'
      BY <1>1, <1>8, <3>1 DEF LogRight
    <3>3. \A j \in Waiting(p)' : LSeq(k)' < PSeq(p, j)'
      BY <1>1, <1>8, <1>9 DEF LogRight
    <3>4. QED
      BY <1>1, <1>8, <3>2, <3>3 DEF LogRight
  <2>2. /\ LSeq(n)' < last_msg[p]
        /\ n > cursor[p] => LSeq(n)' >= last_expected[p]
        /\ \A j \in Own(p)' : j < n => LSeq(j)' < LSeq(n)'
        /\ \A j \in Waiting(p)' : LSeq(n)' < PSeq(p, j)'
    <3>1. \A j \in Own(p)' : j < n => LSeq(j)' < LSeq(n)'
      BY <1>1, <1>5, <1>6, <1>8 DEF LogRight
    <3>2. \A j \in Waiting(p)' : 1 < j + 1
      BY <1>9
    <3>3. \A j \in Waiting(p)' : LSeq(n)' < PSeq(p, j)'
      BY <1>1, <1>6, <1>8, <1>9, <3>2 DEF PendRight
    <3>4. PSeq(p, 1) \in Nat /\ last_expected[p] \in Nat
      BY <1>6, SeqsTyped DEF LoadInv, Typed, CountsTyped
    <3>5. QED
      BY <1>8, <1>10, <3>1, <3>3, <3>4
  <2>3. QED
    BY <1>2, <1>8, <2>1, <2>2 DEF LogRight
<1>12. PendRight(p)'
  <2> SUFFICES ASSUME NEW k \in Waiting(p)'
               PROVE  /\ pend'[p][k].msg.sender = p
                      /\ last_expected[p] <= PSeq(p, k)' /\ PSeq(p, k)' < last_msg[p]
                      /\ \A j \in Waiting(p)' : j < k => PSeq(p, j)' < PSeq(p, k)'
    BY DEF PendRight
  <2>1. \A j \in Waiting(p)' : j < k => j + 1 < k + 1
    BY <1>9
  <2>2. \A j \in Waiting(p)' : j < k => PSeq(p, j)' < PSeq(p, k)'
    BY <1>1, <1>9, <2>1 DEF PendRight
  <2>3. QED
    BY <1>1, <1>9, <2>2 DEF PendRight
<1>13. QED
  BY <1>3, <1>11, <1>12 DEF ProcessRight

LEMMA OrderStep ==
  ASSUME LoadInv, Typed', NEW p \in Process, DaemonOrders(p), NEW q \in Process
  PROVE  ProcessRight(q)'
<1>1. UNCHANGED <<last_msg, last_expected, i, pc, echoed>>
  BY DEF DaemonOrders, loop
<1>2. Typed /\ log \in Seq(Event) /\ cursor \in [Process -> Int] /\ cursor[q] <= Len(log)
      /\ members \in SUBSET Process /\ pend[q] \in Seq(Request)
  BY DEF LoadInv, Typed, GroupTyped
<1>3. ASSUME q # p, NEW e \in Event, log' = Append(log, e), Ordered(p),
             e.type = "msg" => e.msg.sender # q,
             cursor'[q] >= cursor[q]
      PROVE  ProcessRight(q)'
  <2>1. pend'[q] = pend[q]
    BY <1>2, <1>3, MoveUp
  <2>2. Waiting(q)' = Waiting(q) /\ Waiting(q) \subseteq Nat
    BY <2>1 DEF Waiting
  <2>3. \A k \in Waiting(q) : k + 0 = k
    BY <2>2
  <2>4. Waiting(q) = {k + 0 : k \in Waiting(q)'}
    BY <2>2, <2>3
  <2>5. \A k \in Waiting(q)' : pend'[q][k] = pend[q][k + 0]
    BY <2>1, <2>2, <2>3
  <2>6. QED
    BY <1>1, <1>3, <2>2, <2>4, <2>5, BesideStep
<1>4. CASE OrderMsg(p)
  <2>1. CASE q = p
    BY <1>1, <1>4, <2>1, OrderOwn
  <2>2. CASE q # p
    <3>1. PICK e \in Event : e = pend[p][1] /\ e.type = "msg" /\ log' = Append(log, e)
      BY <1>4 DEF OrderMsg
    <3>2. 1 \in Waiting(p)
      BY <1>2, <1>4, <3>1, MoveUp DEF OrderMsg
    <3>3. e.msg.sender = p
      BY <3>1, <3>2 DEF LoadInv, ProcessRight, PendRight
    <3>4. QED
      BY <1>2, <1>3, <1>4, <2>2, <3>1, <3>3 DEF OrderMsg
  <2>3. QED
    BY <2>1, <2>2
<1>5. CASE OrderJoin(p)
  <2>1. PICK e \in Event : e.type = "confchg" /\ log' = Append(log, e)
    BY <1>2, <1>5, Shapes DEF OrderJoin
  <2>2. cursor'[q] >= cursor[q]
    BY <1>2, <1>5 DEF OrderJoin
  <2>3. CASE q # p
    BY <1>3, <1>5, <2>1, <2>2, <2>3 DEF OrderJoin
  <2>4. CASE q = p
    <3>1. pend[p][1].type # "msg" /\ Ordered(p)
      BY <1>5, Shapes DEF OrderJoin
    <3>2. /\ \A k \in Waiting(p)' : /\ k \in Nat /\ k + 1 \in Waiting(p)
                                    /\ pend'[p][k] = pend[p][k + 1]
          /\ \A k \in Waiting(p) : k \in Nat \ {0} /\ k - 1 \in Waiting(p)'
      BY <1>2, <3>1, MoveUp
    <3>3. \A k \in Waiting(p) : k = (k - 1) + 1
      BY <3>2
    <3>4. Waiting(p) = {k + 1 : k \in Waiting(p)'}
      BY <3>2, <3>3
    <3>5. QED
      BY <1>1, <2>1, <2>2, <2>4, <3>2, <3>4, BesideStep
  <2>5. QED
    BY <2>3, <2>4
<1>6. QED
  BY <1>2, <1>4, <1>5, OrderCases

------------------------------------------------------------------------------
(***************************************************************************)
(* Steps of the callback, and all others.                                  *)
(***************************************************************************)

LEMMA HandleTyped ==
  ASSUME Typed, NEW p \in Process, NEW n \in 1 .. Len(log), Handle(p, log[n]),
         UNCHANGED <<last_msg, i, result>>
  PROVE  CountsTyped'
<1>1. CountsTyped /\ log[n] \in Event
  BY DEF Typed, GroupTyped
<1>2. PICK e \in Event : e = log[n]
  BY <1>1
<1>3. CASE e.type = "msg"
  <2>1. e.msg.seq_no \in Nat
    BY <1>3, Kinds
  <2>2. DeliverCallback(p, e.msg)
    BY <1>2, <1>3 DEF Handle
  <2>3. pc' \in [Process -> Places]
    BY <1>1, <2>2 DEF DeliverCallback, WrongMessage, Goto, CountsTyped, Places
  <2>4. last_expected' \in [Process -> Nat]
    BY <1>1, <2>2 DEF DeliverCallback, CountsTyped
  <2>5. echoed' \in [Process -> Seq(Nat)]
    <3>1. Append(echoed[p], e.msg.seq_no) \in Seq(Nat)
      BY <1>1, <2>1 DEF CountsTyped
    <3>2. echoed' = echoed \/ echoed' = [echoed EXCEPT ![p] = Append(echoed[p], e.msg.seq_no)]
      BY <2>2 DEF DeliverCallback
    <3>3. QED
      BY <1>1, <3>1, <3>2 DEF CountsTyped
  <2>6. QED
    BY <1>1, <2>3, <2>4, <2>5 DEF CountsTyped
<1>4. CASE e.type # "msg"
  BY <1>1, <1>2, <1>4 DEF Handle, Goto, CountsTyped, Places
<1>5. QED
  BY <1>3, <1>4

LEMMA HandleStep ==
  ASSUME LoadInv, Typed', NEW p \in Process, NEW n \in 1 .. Len(log), Handle(p, log[n]),
         log' = log, pend' = pend, last_msg' = last_msg, i' = i,
         cursor'[p] = n, n >= cursor[p], pc[p] # "bad_message"
  PROVE  ProcessRight(p)'
<1>1. /\ Typed /\ log[n] \in Event /\ pc \in [Process -> Places]
      /\ last_expected \in [Process -> Nat] /\ echoed \in [Process -> Seq(Nat)]
      /\ cursor[p] \in Int /\ n \in Nat /\ i[p] <= num
  <2>1. GroupTyped /\ CountsTyped /\ PlaceRight(p)
    BY DEF LoadInv, ProcessRight, Typed
  <2>2. log[n] \in Event /\ cursor[p] \in Int /\ n \in Nat
    BY <2>1 DEF GroupTyped
  <2>3. QED
    BY <2>1, <2>2 DEF LoadInv, PlaceRight, CountsTyped
<1>2. PICK e \in Event : e = log[n]
  BY <1>1
<1>3. ASSUME pc'[p] \in {"dispatching", "bad_message"} PROVE PlaceRight(p)'
  BY <1>1, <1>3 DEF PlaceRight
<1>4. ASSUME pc'[p] = "dispatching", UNCHANGED <<last_expected, echoed>>
      PROVE  ProcessRight(p)'
  <2>1. PlaceRight(p)'
    BY <1>3, <1>4
  <2>2. EchoRight(p)'
    BY <1>4, EchoStays DEF LoadInv, ProcessRight
  <2>3. QED
    BY <1>1, <1>4, <2>1, <2>2, QuietStep
<1>5. CASE e.type = "msg" /\ e.msg.sender = p
  <2>1. n \in Own(p) /\ LSeq(n) = e.msg.seq_no
    BY <1>2, <1>5 DEF Own, LSeq
  <2>2. DeliverCallback(p, e.msg)
    BY <1>2, <1>5 DEF Handle
  <2>3. CASE last_expected[p] = e.msg.seq_no
    <3>1. /\ last_expected'[p] = last_expected[p] + 1
          /\ echoed'[p] = Append(echoed[p], last_expected[p])
          /\ pc'[p] = "dispatching"
      BY <1>1, <1>5, <2>2, <2>3 DEF DeliverCallback, Goto
    <3>2. PlaceRight(p)'
      BY <1>3, <3>1
    <3>3. QED
      BY <1>1, <2>1, <2>3, <3>1, <3>2, BackStep
  <2>4. CASE last_expected[p] # e.msg.seq_no
    <3>1. /\ last_expected' = last_expected
          /\ pc'[p] = IF max_msgs[p] # NoLimit THEN "bad_message" ELSE "dispatching"
      BY <1>1, <1>5, <2>2, <2>4 DEF DeliverCallback, WrongMessage, Goto
    <3>2. PlaceRight(p)'
      BY <1>3, <3>1
    <3>3. EchoRight(p)'
      BY <3>1 DEF EchoRight
    <3>4. QED
      BY <1>1, <3>1, <3>2, <3>3, QuietStep
  <2>5. QED
    BY <2>3, <2>4
<1>6. CASE ~(e.type = "msg" /\ e.msg.sender = p)
  <2>1. pc'[p] = "dispatching" /\ UNCHANGED <<last_expected, echoed>>
    BY <1>1, <1>2, <1>6 DEF Handle, DeliverCallback, Goto
  <2>2. QED
    BY <1>4, <2>1
<1>7. QED
  BY <1>5, <1>6

LEMMA ReadTyped ==
  ASSUME Typed, NEW p \in Process, Readable(p), Advance(p), UNCHANGED <<log, pend, members>>
  PROVE  /\ GroupTyped'
         /\ cursor[p] + 1 \in 1 .. Len(log) /\ cursor'[p] = cursor[p] + 1
         /\ NextEvent(p) = log[cursor[p] + 1]
         /\ cursor[p] \in Int
         /\ \A q \in Process \ {p} : cursor'[q] = cursor[q]
<1>1. GroupTyped /\ cursor \in [Process -> Int] /\ log \in Seq(Event)
  BY DEF Typed, GroupTyped
<1>2. Len(log) \in Nat /\ cursor[p] \in 0 .. Len(log) - 1
  BY <1>1 DEF Readable
<1>3. /\ cursor' = [cursor EXCEPT ![p] = cursor[p] + 1] /\ cursor'[p] = cursor[p] + 1
      /\ cursor[p] + 1 \in 1 .. Len(log)
  BY <1>1, <1>2 DEF Advance
<1>4. GroupTyped'
  BY <1>1, <1>2, <1>3 DEF GroupTyped
<1>5. QED
  BY <1>1, <1>2, <1>3, <1>4 DEF NextEvent

LEMMA AskTyped ==
  ASSUME Typed, NEW p \in Process, NEW r \in Request, Ask(p, r),
         UNCHANGED <<log, members, cursor>>
  PROVE  GroupTyped'
<1>1. GroupTyped /\ Append(pend[p], r) \in Seq(Request)
  BY QueueAppend DEF Typed, GroupTyped
<1>2. QED
  BY <1>1 DEF GroupTyped, Ask

LEMMA OrderTyped ==
  ASSUME Typed, NEW p \in Process, DaemonOrders(p)
  PROVE  GroupTyped'
<1>1. GroupTyped /\ log \in Seq(Event)
  BY DEF Typed, GroupTyped
<1>2. ASSUME Ordered(p) PROVE pend' \in [Process -> Seq(Request)]
  BY <1>1, <1>2, QueueTail DEF GroupTyped, Ordered
<1>3. ASSUME NEW e \in Event, log' = Append(log, e)
      PROVE  log' \in Seq(Event) /\ Len(log') = Len(log) + 1 /\ Len(log) \in Nat
  BY <1>1, <1>3, LogAppend
<1>4. CASE OrderJoin(p)
  <2>1. members \cup {p} \in SUBSET Process
    BY <1>1 DEF GroupTyped
  <2>2. /\ log' \in Seq(Event) /\ Len(log') = Len(log) + 1 /\ Len(log) \in Nat
        /\ members' \in SUBSET Process
    BY <1>3, <1>4, <2>1, Shapes DEF OrderJoin
  <2>3. QED
    BY <1>1, <1>2, <1>4, <2>2 DEF OrderJoin, GroupTyped
<1>5. CASE OrderMsg(p)
  <2>1. log' \in Seq(Event) /\ Len(log') = Len(log) + 1 /\ Len(log) \in Nat
    BY <1>3, <1>5 DEF OrderMsg
  <2>2. QED
    BY <1>1, <1>2, <1>5, <2>1 DEF OrderMsg, GroupTyped
<1>6. QED
  BY <1>4, <1>5, OrderCases

LEMMA NextTyped == LoadInv /\ [Next]_vars => Typed'
<1> SUFFICES ASSUME LoadInv, [Next]_vars PROVE Typed'
  OBVIOUS
<1>0. Typed
  BY DEF LoadInv
<1>1. GroupTyped /\ CountsTyped
  BY <1>0 DEF Typed
<1>2. ASSUME UNCHANGED cpgVars PROVE GroupTyped'
  BY <1>1, <1>2 DEF GroupTyped, cpgVars
<1>3. \A p \in Process, place \in Places : Goto(p, place) => pc' \in [Process -> Places]
  BY <1>1 DEF Goto, CountsTyped
<1>4. ASSUME UNCHANGED <<last_msg, last_expected, echoed>>,
             i' \in [Process -> Nat], result' \in [Process -> {-1, 0, 1}],
             pc' \in [Process -> Places]
      PROVE  CountsTyped'
  BY <1>1, <1>4 DEF CountsTyped
<1>5. ASSUME NEW p \in Process, MainStep(p) \/ Trouble(p) PROVE Typed'
  <2>1. ASSUME UNCHANGED <<cpgVars, loop, echoed>>, pc' \in [Process -> Places] PROVE Typed'
    BY <1>1, <1>2, <1>4, <2>1, TypedParts DEF loop, CountsTyped
  <2>2. CASE Join(p)
    <3>1. GroupTyped'
      BY <1>0, <2>2, AskTyped, Shapes DEF Join
    <3>2. pc' \in [Process -> Places]
      BY <1>3, <2>2 DEF Join, Places
    <3>3. QED
      BY <1>1, <1>4, <2>2, <3>1, <3>2, TypedParts DEF Join, loop, CountsTyped
  <2>3. ASSUME Decide(p), UNCHANGED <<cpgVars, last_msg, last_expected, echoed>>,
               result' \in [Process -> {-1, 0, 1}]
        PROVE  Typed'
    <3>1. \E place \in {"success", "send", "dispatch"} : Goto(p, place)
      BY <2>3 DEF Decide
    <3>2. i' = i \/ i' = [i EXCEPT ![p] = 0]
      BY <2>3 DEF Decide
    <3>3. pc' \in [Process -> Places] /\ i' \in [Process -> Nat]
      BY <1>1, <1>3, <3>1, <3>2 DEF CountsTyped, Places
    <3>4. QED
      BY <1>2, <1>4, <2>3, <3>3, TypedParts
  <2>4. CASE Poll(p) \/ PollFails(p)
    <3>1. result' \in [Process -> {-1, 0, 1}]
      BY <1>1, <2>4 DEF Poll, PollFails, CountsTyped
    <3>2. QED
      BY <2>3, <2>4, <3>1 DEF Poll, PollFails
  <2>5. CASE SendMsg(p)
    <3>1. Message(p) \in Sent
      BY <1>1 DEF Message, Sent, CountsTyped
    <3>2. GroupTyped'
      BY <1>0, <2>5, <3>1, AskTyped, Shapes DEF SendMsg
    <3>3. pc' \in [Process -> Places]
      BY <1>1, <1>3, <2>5 DEF SendMsg, Places, CountsTyped
    <3>4. last_msg' \in [Process -> Nat] /\ i' \in [Process -> Nat]
      BY <1>1, <2>5 DEF SendMsg, CountsTyped
    <3>5. QED
      BY <1>1, <2>5, <3>2, <3>3, <3>4, TypedParts DEF SendMsg, CountsTyped
  <2>6. CASE BurstEnds(p)
    BY <1>3, <2>1, <2>6 DEF BurstEnds, Places
  <2>7. CASE NoDispatch(p)
    BY <1>3, <2>1, <2>7 DEF NoDispatch, Places
  <2>8. CASE DispatchEnds(p)
    BY <1>3, <2>1, <2>8 DEF DispatchEnds, Places
  <2>9. CASE StartupFails(p)
    BY <1>3, <2>1, <2>9 DEF StartupFails, Places
  <2>10. CASE DispatchRefused(p)
    BY <1>3, <2>1, <2>10 DEF DispatchRefused, Places
  <2>11. CASE DispatchFails(p)
    BY <1>3, <2>1, <2>11 DEF DispatchFails, Places
  <2>12. CASE SendRefused(p)
    <3>1. i' \in [Process -> Nat]
      BY <1>1, <2>12 DEF SendRefused, CountsTyped
    <3>2. QED
      BY <1>1, <1>2, <1>4, <2>12, <3>1, TypedParts DEF SendRefused, CountsTyped
  <2>13. CASE Dispatch(p)
    <3>1. /\ GroupTyped' /\ cursor[p] + 1 \in 1 .. Len(log)
          /\ NextEvent(p) = log[cursor[p] + 1]
      BY <1>0, <2>13, ReadTyped DEF Dispatch
    <3>2. CountsTyped'
      BY <1>0, <2>13, <3>1, HandleTyped DEF Dispatch
    <3>3. QED
      BY <3>1, <3>2, TypedParts
  <2>14. CASE DispatchRepeated(p)
    <3>1. cursor[p] >= 1
      BY <2>14 DEF DispatchRepeated, LoadInv, ProcessRight, PlaceRight
    <3>2. cursor[p] \in 1 .. Len(log)
      BY <1>1, <3>1 DEF GroupTyped
    <3>3. CountsTyped'
      BY <1>0, <2>14, <3>2, HandleTyped DEF DispatchRepeated
    <3>4. QED
      BY <1>2, <2>14, <3>3, TypedParts DEF DispatchRepeated
  <2>15. CASE Lose(p)
    <3>1. GroupTyped'
      BY <1>0, <2>15, ReadTyped DEF Lose
    <3>2. QED
      BY <1>1, <1>4, <2>15, <3>1, TypedParts DEF Lose, loop, CountsTyped
  <2>16. CASE DispatchDamaged(p)
    <3>1. GroupTyped' /\ cursor[p] + 1 \in 1 .. Len(log) /\ NextEvent(p) = log[cursor[p] + 1]
      BY <1>0, <2>16, ReadTyped DEF DispatchDamaged
    <3>2. PICK e \in Event : e = NextEvent(p)
      BY <1>1, <3>1 DEF GroupTyped
    <3>3. e.msg.seq_no \in Nat
      BY <2>16, <3>2, Kinds DEF DispatchDamaged
    <3>4. pc' \in [Process -> Places]
      BY <1>3, <2>16 DEF DispatchDamaged, WrongMessage, Places
    <3>5. last_expected' \in [Process -> Nat]
      <4>1. \/ last_expected' = last_expected
            \/ last_expected' = [last_expected EXCEPT ![p] = last_expected[p] + 1]
        BY <2>16 DEF DispatchDamaged
      <4>2. last_expected \in [Process -> Nat] /\ last_expected[p] + 1 \in Nat
        BY <1>1 DEF CountsTyped
      <4>3. QED
        BY <4>1, <4>2
    <3>6. echoed' \in [Process -> Seq(Nat)]
      <4>1. Append(echoed[p], e.msg.seq_no) \in Seq(Nat)
        BY <1>1, <3>3 DEF CountsTyped
      <4>2. echoed' = echoed \/ echoed' = [echoed EXCEPT ![p] = Append(echoed[p], e.msg.seq_no)]
        BY <2>16, <3>2 DEF DispatchDamaged
      <4>3. QED
        BY <1>1, <4>1, <4>2 DEF CountsTyped
    <3>7. QED
      BY <1>1, <2>16, <3>1, <3>4, <3>5, <3>6, TypedParts DEF DispatchDamaged, CountsTyped
  <2>17. QED
    BY <1>5, <2>2, <2>4, <2>5, <2>6, <2>7, <2>8, <2>9, <2>10, <2>11, <2>12, <2>13, <2>14,
       <2>15, <2>16 DEF MainStep, Trouble
<1>6. ASSUME NEW p \in Process, DaemonOrders(p) PROVE Typed'
  BY <1>0, <1>1, <1>4, <1>6, OrderTyped, TypedParts DEF DaemonOrders, loop, CountsTyped
<1>7. CASE UNCHANGED vars
  BY <1>1, <1>2, <1>4, <1>7, TypedParts DEF vars, loop, CountsTyped
<1>8. QED
  BY <1>5, <1>6, <1>7 DEF Next

(* A step of one process does not touch what belongs to another. *)
LEMMA Alone ==
  ASSUME LoadInv, NEW p \in Process, MainStep(p) \/ Trouble(p)
  PROVE  log' = log /\ \A q \in Process \ {p} : SameFor(q)
<1>1. /\ pend \in [Process -> Seq(Request)] /\ cursor \in [Process -> Int]
      /\ last_msg \in [Process -> Nat] /\ last_expected \in [Process -> Nat]
      /\ i \in [Process -> Nat] /\ echoed \in [Process -> Seq(Nat)]
      /\ pc \in [Process -> Places]
  BY DEF LoadInv, Typed, GroupTyped, CountsTyped
<1>2. \A place : Goto(p, place) => \A q \in Process \ {p} : pc'[q] = pc[q]
  BY <1>1 DEF Goto
<1>3. ASSUME log' = log,
             \A q \in Process \ {p} :
               /\ pend'[q] = pend[q] /\ cursor'[q] = cursor[q] /\ pc'[q] = pc[q]
               /\ last_msg'[q] = last_msg[q] /\ last_expected'[q] = last_expected[q]
               /\ i'[q] = i[q] /\ echoed'[q] = echoed[q]
      PROVE  log' = log /\ \A q \in Process \ {p} : SameFor(q)
  BY <1>3 DEF SameFor
<1>4. ASSUME NEW e, Handle(p, e)
      PROVE  \A q \in Process \ {p} :
               pc'[q] = pc[q] /\ last_expected'[q] = last_expected[q] /\ echoed'[q] = echoed[q]
  <2>1. CASE e.type = "msg"
    BY <1>1, <1>2, <1>4, <2>1 DEF Handle, DeliverCallback, WrongMessage
  <2>2. CASE e.type # "msg"
    BY <1>2, <1>4, <2>2 DEF Handle
  <2>3. QED
    BY <2>1, <2>2
<1>5. Advance(p) => \A q \in Process \ {p} : cursor'[q] = cursor[q]
  BY <1>1 DEF Advance
<1>6. ASSUME Decide(p)
      PROVE  \A q \in Process \ {p} : pc'[q] = pc[q] /\ i'[q] = i[q]
  BY <1>1, <1>2, <1>6 DEF Decide
<1>7. CASE Join(p)
  <2>1. \A q \in Process \ {p} : pend'[q] = pend[q]
    BY <1>1, <1>7 DEF Join, Ask
  <2>2. QED
    BY <1>2, <1>3, <1>7, <2>1 DEF Join, loop
<1>8. CASE Poll(p) \/ PollFails(p)
  BY <1>3, <1>6, <1>8 DEF Poll, PollFails, cpgVars
<1>9. CASE SendMsg(p)
  <2>1. \A q \in Process \ {p} :
          pend'[q] = pend[q] /\ last_msg'[q] = last_msg[q] /\ i'[q] = i[q]
    BY <1>1, <1>9 DEF SendMsg, Ask
  <2>2. \A q \in Process \ {p} : pc'[q] = pc[q]
    BY <1>2, <1>9 DEF SendMsg
  <2>3. QED
    BY <1>3, <1>9, <2>1, <2>2 DEF SendMsg
<1>10. CASE BurstEnds(p) \/ NoDispatch(p) \/ DispatchEnds(p)
  BY <1>2, <1>3, <1>10 DEF BurstEnds, NoDispatch, DispatchEnds, loop, cpgVars
<1>11. CASE StartupFails(p) \/ DispatchRefused(p) \/ DispatchFails(p)
  BY <1>2, <1>3, <1>11 DEF StartupFails, DispatchRefused, DispatchFails, loop, cpgVars
<1>12. CASE SendRefused(p)
  BY <1>1, <1>3, <1>12 DEF SendRefused, cpgVars
<1>13. CASE Dispatch(p)
  BY <1>3, <1>4, <1>5, <1>13 DEF Dispatch
<1>14. CASE DispatchRepeated(p)
  BY <1>3, <1>4, <1>14 DEF DispatchRepeated, cpgVars
<1>15. CASE Lose(p)
  BY <1>3, <1>5, <1>15 DEF Lose, loop
<1>16. CASE DispatchDamaged(p)
  <2>1. \A q \in Process \ {p} :
          last_expected'[q] = last_expected[q] /\ echoed'[q] = echoed[q]
    BY <1>1, <1>16 DEF DispatchDamaged
  <2>2. QED
    BY <1>2, <1>3, <1>5, <1>16, <2>1 DEF DispatchDamaged, WrongMessage
<1>17. QED
  BY <1>7, <1>8, <1>9, <1>10, <1>11, <1>12, <1>13, <1>14, <1>15, <1>16 DEF MainStep, Trouble

(* Steps of main() that neither send nor read. *)
LEMMA MainQuiet ==
  ASSUME LoadInv, Typed', NEW p \in Process,
         UNCHANGED <<cpgVars, last_msg, last_expected, echoed>>,
         pc[p] # "bad_message", PlaceRight(p)'
  PROVE  ProcessRight(p)'
<1>1. cursor[p] \in Int
  BY DEF LoadInv, Typed, GroupTyped
<1>2. EchoRight(p)'
  BY EchoStays DEF LoadInv, ProcessRight
<1>3. QED
  BY <1>1, <1>2, QuietStep DEF cpgVars

LEMMA OwnStep ==
  ASSUME LoadInv, Typed', NEW p \in Process, MainStep(p) \/ Trouble(p)
  PROVE  ProcessRight(p)'
<1>1. /\ Typed /\ pc \in [Process -> Places]
      /\ last_expected \in [Process -> Nat] /\ last_msg \in [Process -> Nat]
      /\ i \in [Process -> Nat] /\ echoed \in [Process -> Seq(Nat)]
      /\ cursor[p] \in Int /\ num \in Nat
  BY LoadAssumption DEF LoadInv, Typed, GroupTyped, CountsTyped
<1>2. CountsRight(p) /\ PlaceRight(p) /\ EchoRight(p) /\ LogRight(p) /\ PendRight(p)
  BY DEF LoadInv, ProcessRight
<1>3. \A place : Goto(p, place) => pc'[p] = place
  BY <1>1 DEF Goto
<1>4. ASSUME UNCHANGED <<cpgVars, last_msg, last_expected, i, echoed>>,
             pc[p] # "bad_message", pc'[p] \notin {"send", "success", "dispatching"}
      PROVE  ProcessRight(p)'
  <2>1. PlaceRight(p)'
    BY <1>2, <1>4 DEF PlaceRight
  <2>2. QED
    BY <1>4, <2>1, MainQuiet
<1>5. CASE Join(p)
  BY <1>5, JoinStep
<1>6. ASSUME pc[p] = "loop", Decide(p), UNCHANGED <<cpgVars, last_msg, last_expected, echoed>>
      PROVE  ProcessRight(p)'
  <2>1. CASE ReachedMax(p, last_expected[p])
    <3>1. pc'[p] = "success" /\ i' = i /\ ReachedMax(p, last_expected[p])'
      BY <1>3, <1>6, <2>1 DEF Decide, ReachedMax
    <3>2. PlaceRight(p)'
      BY <1>2, <3>1 DEF PlaceRight
    <3>3. QED
      BY <1>6, <3>2, MainQuiet
  <2>2. CASE ~ReachedMax(p, last_expected[p]) /\ last_expected[p] = last_msg[p]
    <3>1. pc'[p] = "send" /\ i'[p] = 0 /\ last_expected' = last_expected /\ last_msg' = last_msg
      BY <1>1, <1>3, <1>6, <2>2 DEF Decide
    <3>2. ~ReachedMax(p, last_msg[p])'
      BY <2>2, <3>1 DEF ReachedMax
    <3>3. last_msg'[p] - last_expected'[p] <= i'[p] /\ i'[p] <= num
      BY <1>1, <2>2, <3>1
    <3>4. PlaceRight(p)'
      BY <3>1, <3>2, <3>3 DEF PlaceRight
    <3>5. QED
      BY <1>6, <3>4, MainQuiet
  <2>3. CASE ~ReachedMax(p, last_expected[p]) /\ last_expected[p] # last_msg[p]
    BY <1>3, <1>4, <1>6, <2>3 DEF Decide
  <2>4. QED
    BY <2>1, <2>2, <2>3
<1>7. CASE Poll(p) \/ PollFails(p)
  BY <1>6, <1>7 DEF Poll, PollFails
<1>8. CASE SendMsg(p)
  BY <1>8, SendStep
<1>9. CASE BurstEnds(p) \/ NoDispatch(p) \/ DispatchEnds(p)
  BY <1>3, <1>4, <1>9 DEF BurstEnds, NoDispatch, DispatchEnds, InDispatch, loop
<1>10. CASE StartupFails(p) \/ DispatchRefused(p) \/ DispatchFails(p)
  BY <1>3, <1>4, <1>10 DEF StartupFails, DispatchRefused, DispatchFails, InDispatch, loop
<1>11. CASE SendRefused(p)
  <2>1. /\ pc'[p] = "send" /\ pc[p] = "send" /\ i'[p] = i[p] + 1 /\ i[p] < num
        /\ UNCHANGED <<cpgVars, last_msg, last_expected, echoed>>
    BY <1>1, <1>11 DEF SendRefused
  <2>2. ~ReachedMax(p, last_msg[p])'
    BY <1>2, <2>1 DEF PlaceRight, ReachedMax
  <2>3. last_msg'[p] - last_expected'[p] <= i'[p] /\ i'[p] <= num
    BY <1>1, <1>2, <2>1 DEF PlaceRight
  <2>4. PlaceRight(p)'
    BY <2>1, <2>2, <2>3 DEF PlaceRight
  <2>5. QED
    BY <2>1, <2>4, MainQuiet
<1>12. CASE Dispatch(p)
  <2>1. /\ cursor[p] + 1 \in 1 .. Len(log) /\ cursor'[p] = cursor[p] + 1
        /\ NextEvent(p) = log[cursor[p] + 1]
    BY <1>1, <1>12, ReadTyped DEF Dispatch
  <2>2. cursor'[p] = cursor[p] + 1 /\ cursor[p] + 1 >= cursor[p]
    BY <1>1, <2>1
  <2>3. pc[p] # "bad_message"
    BY <1>12 DEF Dispatch, InDispatch
  <2>4. QED
    BY <1>12, <2>1, <2>2, <2>3, HandleStep DEF Dispatch
<1>13. CASE DispatchRepeated(p)
  <2>1. cursor[p] \in 1 .. Len(log) /\ cursor'[p] = cursor[p]
    BY <1>1, <1>2, <1>13 DEF DispatchRepeated, PlaceRight, cpgVars, Typed, GroupTyped
  <2>2. cursor[p] >= cursor[p] /\ pc[p] # "bad_message"
    BY <1>1, <1>13 DEF DispatchRepeated
  <2>3. QED
    BY <1>13, <2>1, <2>2, HandleStep DEF DispatchRepeated, cpgVars
<1>14. CASE Lose(p)
  <2>1. cursor'[p] = cursor[p] + 1 /\ cursor'[p] >= cursor[p]
    BY <1>1, <1>14, ReadTyped DEF Lose
  <2>2. UNCHANGED <<log, pend, last_msg, last_expected, i, echoed, pc>>
    BY <1>14 DEF Lose, loop
  <2>3. PlaceRight(p)'
    BY <1>1, <1>2, <2>1, <2>2 DEF PlaceRight, ReachedMax
  <2>4. EchoRight(p)'
    BY <1>2, <2>2, EchoStays
  <2>5. QED
    BY <2>1, <2>2, <2>3, <2>4, QuietStep
<1>15. CASE DispatchDamaged(p)
  <2>1. /\ cursor[p] + 1 \in 1 .. Len(log) /\ cursor'[p] = cursor[p] + 1
        /\ NextEvent(p) = log[cursor[p] + 1]
    BY <1>1, <1>15, ReadTyped DEF DispatchDamaged
  <2>2. /\ pc[p] # "bad_message" /\ UNCHANGED <<log, pend, last_msg, i>>
        /\ pc'[p] = IF max_msgs[p] # NoLimit THEN "bad_message" ELSE "dispatching"
    BY <1>3, <1>15 DEF DispatchDamaged, InDispatch, WrongMessage
  <2>3. PlaceRight(p)'
    BY <1>1, <1>2, <2>1, <2>2 DEF PlaceRight
  <2>4. PICK n \in 1 .. Len(log) : n = cursor[p] + 1
    BY <2>1
  <2>5. PICK e \in Event : e = log[n] /\ e = NextEvent(p) /\ e.type = "msg"
    BY <1>1, <1>15, <2>1, <2>4 DEF DispatchDamaged, Typed, GroupTyped
  <2>6. CASE e.msg.sender = p /\ last_expected[p] = e.msg.seq_no
    <3>1. n \in Own(p) /\ LSeq(n) = last_expected[p]
      BY <2>4, <2>5, <2>6 DEF Own, LSeq
    <3>2. /\ last_expected'[p] = last_expected[p] + 1
          /\ echoed'[p] = Append(echoed[p], last_expected[p])
      BY <1>1, <1>15, <2>5, <2>6 DEF DispatchDamaged
    <3>3. cursor'[p] >= n /\ n >= cursor[p]
      BY <1>1, <2>1, <2>4
    <3>4. QED
      BY <2>2, <2>3, <3>1, <3>2, <3>3, BackStep
  <2>7. CASE ~(e.msg.sender = p /\ last_expected[p] = e.msg.seq_no)
    <3>1. UNCHANGED <<last_expected, echoed>>
      BY <1>15, <2>5, <2>7 DEF DispatchDamaged
    <3>2. EchoRight(p)'
      BY <1>2, <2>2, <3>1, EchoStays
    <3>3. cursor'[p] >= cursor[p]
      BY <1>1, <2>1
    <3>4. QED
      BY <2>2, <2>3, <3>1, <3>2, <3>3, QuietStep
  <2>8. QED
    BY <2>6, <2>7
<1>16. QED
  BY <1>5, <1>7, <1>8, <1>9, <1>10, <1>11, <1>12, <1>13, <1>14, <1>15 DEF MainStep, Trouble

LEMMA NextLoad == LoadInv /\ [Next]_vars => LoadInv'
<1> SUFFICES ASSUME LoadInv, [Next]_vars PROVE LoadInv'
  OBVIOUS
<1>1. Typed'
  BY NextTyped
<1> SUFFICES ASSUME NEW q \in Process PROVE ProcessRight(q)'
  BY <1>1 DEF LoadInv
<1>2. ASSUME NEW p \in Process, MainStep(p) \/ Trouble(p) PROVE ProcessRight(q)'
  <2>1. CASE q = p
    BY <1>1, <1>2, <2>1, OwnStep
  <2>2. CASE q # p
    BY <1>1, <1>2, <2>2, Alone, SameStep
  <2>3. QED
    BY <2>1, <2>2
<1>3. ASSUME NEW p \in Process, DaemonOrders(p) PROVE ProcessRight(q)'
  BY <1>1, <1>3, OrderStep
<1>4. CASE UNCHANGED vars
  <2>1. log' = log /\ SameFor(q)
    BY <1>4 DEF vars, cpgVars, loop, SameFor
  <2>2. QED
    BY <1>1, <2>1, SameStep
<1>5. QED
  BY <1>2, <1>3, <1>4 DEF Next

(* The numbers on the messages of a process, ordered or waiting, rise in the *)
(* order they were sent, none still to be read is below last_expected, and   *)
(* the history of what came back agrees with last_expected.                  *)
THEOREM LoadInvariant == Spec => []LoadInv
BY InitLoad, NextLoad, PTL DEF Spec

------------------------------------------------------------------------------
(***************************************************************************)
(* What follows.                                                           *)
(***************************************************************************)

LEMMA InvSuccess == LoadInv => SuccessSound
<1> SUFFICES ASSUME LoadInv, NEW p \in Process, pc[p] = "success"
             PROVE  echoed[p] = [k \in 1 .. max_msgs[p] |-> k - 1]
  BY DEF SuccessSound
<1>1. CountsRight(p) /\ PlaceRight(p) /\ EchoRight(p)
  BY DEF LoadInv, ProcessRight
<1>2. max_msgs[p] # NoLimit /\ last_expected[p] >= max_msgs[p]
  BY <1>1 DEF PlaceRight, ReachedMax
<1>3. last_expected[p] = max_msgs[p]
  BY <1>1, <1>2, LoadAssumption DEF CountsRight, LoadInv, Typed, CountsTyped, NoLimit
<1>4. QED
  BY <1>1, <1>2, <1>3 DEF EchoRight

(* A process of cpg-load.c that ends in success has received each of its     *)
(* max_msgs messages exactly once and in order, however many processes load  *)
(* the group and whatever is lost, repeated, damaged or refused.             *)
THEOREM Success == Spec => []SuccessSound
BY LoadInvariant, InvSuccess, PTL

LEMMA InvTypes == LoadInv => TypeOK
<1> SUFFICES ASSUME LoadInv, NEW p \in Process
             PROVE  /\ last_msg[p] \in 0 .. MaxSent[p]
                    /\ last_expected[p] \in 0 .. last_msg[p]
                    /\ i[p] \in 0 .. num
                    /\ result[p] \in {-1, 0, 1}
                    /\ cursor[p] \in -1 .. Len(log)
  BY DEF LoadInv, Typed, CountsTyped, TypeOK
<1>1. CountsRight(p) /\ PlaceRight(p)
  BY DEF LoadInv, ProcessRight
<1>2. QED
  BY <1>1, LoadAssumption DEF CountsRight, PlaceRight, LoadInv, Typed, GroupTyped, CountsTyped

LEMMA OwnDiffer ==
  ASSUME LoadInv, NEW p \in Process
  PROVE  /\ \A j, k \in Own(p) : LSeq(j) = LSeq(k) => j = k
         /\ \A j, k \in Waiting(p) : PSeq(p, j) = PSeq(p, k) => j = k
         /\ \A j \in Own(p), k \in Waiting(p) : LSeq(j) # PSeq(p, k)
<1>1. LogRight(p) /\ PendRight(p)
  BY DEF LoadInv, ProcessRight
<1>2. /\ \A k \in Own(p) : LSeq(k) \in Nat /\ k \in Int
      /\ \A k \in Waiting(p) : PSeq(p, k) \in Nat /\ k \in Int
  BY SeqsTyped DEF LoadInv, Own, Waiting
<1>3. ASSUME NEW j \in Own(p), NEW k \in Own(p), LSeq(j) = LSeq(k) PROVE j = k
  <2>1. ~(j < k) /\ ~(k < j)
    BY <1>1, <1>2, <1>3 DEF LogRight
  <2>2. QED
    BY <1>2, <2>1
<1>4. ASSUME NEW j \in Waiting(p), NEW k \in Waiting(p), PSeq(p, j) = PSeq(p, k) PROVE j = k
  <2>1. ~(j < k) /\ ~(k < j)
    BY <1>1, <1>2, <1>4 DEF PendRight
  <2>2. QED
    BY <1>2, <2>1
<1>5. ASSUME NEW j \in Own(p), NEW k \in Waiting(p) PROVE LSeq(j) # PSeq(p, k)
  BY <1>1, <1>2 DEF LogRight
<1>6. QED
  BY <1>3, <1>4, <1>5

(* Messages of p, some of those ordered and all that wait, are no more than  *)
(* the numbers they can have.                                                *)
LEMMA NoMoreThanNumbers ==
  ASSUME LoadInv, NEW p \in Process, NEW A \in SUBSET Own(p), NEW a \in Nat, NEW b \in Nat, a <= b,
         \A k \in A : LSeq(k) \in a .. b - 1,
         \A k \in Waiting(p) : PSeq(p, k) \in a .. b - 1
  PROVE  Cardinality(A) + Cardinality(Waiting(p)) <= b - a
<1>1. PICK W : W = Waiting(p)
  OBVIOUS
<1> DEFINE f == [k \in A |-> LSeq(k)]
           g == [k \in W |-> PSeq(p, k)]
           T == a .. b - 1
<1>2. IsFiniteSet(T) /\ Cardinality(T) = b - a
  <2>1. a \in Int /\ b - 1 \in Int
    OBVIOUS
  <2>2. /\ IsFiniteSet(a .. b - 1)
        /\ Cardinality(a .. b - 1) = IF a > b - 1 THEN 0 ELSE (b - 1) - a + 1
    BY <2>1, FS_Interval
  <2>3. (IF a > b - 1 THEN 0 ELSE (b - 1) - a + 1) = b - a
    OBVIOUS
  <2>4. QED
    BY <2>2, <2>3
<1>3. f \in [A -> T] /\ g \in [W -> T]
  BY <1>1
<1>4. /\ \A x, y \in A : f[x] = f[y] => x = y
      /\ \A x, y \in W : g[x] = g[y] => x = y
      /\ \A x \in A, y \in W : f[x] # g[y]
  BY <1>1, OwnDiffer
<1> HIDE DEF f, g, T
<1>5. Cardinality(A) + Cardinality(W) <= Cardinality(T)
  BY <1>2, <1>3, <1>4, TwoInto
<1>6. QED
  BY <1>1, <1>2, <1>5

LEMMA InvFlow == LoadInv => FlowControl
<1> SUFFICES ASSUME LoadInv, NEW p \in Process
             PROVE  /\ Cardinality(Unread(p)) + Cardinality(Waiting(p)) <= num
                    /\ max_msgs[p] # NoLimit =>
                         Cardinality(Own(p)) + Cardinality(Waiting(p)) <= max_msgs[p]
  BY InvTypes DEF FlowControl
<1>1. CountsRight(p) /\ LogRight(p) /\ PendRight(p)
  BY DEF LoadInv, ProcessRight
<1>2. last_msg[p] \in Nat /\ last_expected[p] \in Nat
  BY DEF LoadInv, Typed, CountsTyped
<1>3. /\ \A k \in Own(p) : LSeq(k) \in Nat /\ LSeq(k) < last_msg[p]
      /\ \A k \in Unread(p) : LSeq(k) >= last_expected[p]
      /\ \A k \in Waiting(p) : /\ PSeq(p, k) \in Nat /\ PSeq(p, k) < last_msg[p]
                               /\ PSeq(p, k) >= last_expected[p]
  BY <1>1, SeqsTyped DEF LoadInv, LogRight, PendRight, Unread
<1>4. Unread(p) \in SUBSET Own(p)
  BY DEF Unread
<1>5. PICK a \in Nat, b \in Nat : a = last_expected[p] /\ b = last_msg[p]
  BY <1>2
<1>6. Cardinality(Unread(p)) + Cardinality(Waiting(p)) <= b - a
  <2>1. /\ \A k \in Unread(p) : LSeq(k) \in a .. b - 1
        /\ \A k \in Waiting(p) : PSeq(p, k) \in a .. b - 1
    BY <1>3, <1>4, <1>5
  <2>2. a <= b
    BY <1>1, <1>5 DEF CountsRight
  <2>3. QED
    BY <1>4, <2>1, <2>2, NoMoreThanNumbers
<1>7. Cardinality(Own(p)) + Cardinality(Waiting(p)) <= b - 0
  <2>1. /\ \A k \in Own(p) : LSeq(k) \in 0 .. b - 1
        /\ \A k \in Waiting(p) : PSeq(p, k) \in 0 .. b - 1
    BY <1>3, <1>5
  <2>2. QED
    BY <2>1, NoMoreThanNumbers
<1>8. /\ IsFiniteSet(Own(p)) /\ IsFiniteSet(Waiting(p)) /\ IsFiniteSet(Unread(p))
  <2>1. Len(log) \in Int /\ Len(pend[p]) \in Int
    BY DEF LoadInv, Typed, GroupTyped
  <2>2. IsFiniteSet(1 .. Len(log)) /\ IsFiniteSet(1 .. Len(pend[p]))
    BY <2>1, FS_Interval
  <2>3. Own(p) \in SUBSET (1 .. Len(log)) /\ Waiting(p) \in SUBSET (1 .. Len(pend[p]))
    BY DEF Own, Waiting
  <2>4. QED
    BY <1>4, <2>2, <2>3, FS_Subset
<1>9. /\ Cardinality(Own(p)) \in Nat /\ Cardinality(Waiting(p)) \in Nat
      /\ Cardinality(Unread(p)) \in Nat
  BY <1>8, FS_CardinalityType
<1>10. b - a <= num /\ (max_msgs[p] # NoLimit => b <= max_msgs[p])
  BY <1>1, <1>5 DEF CountsRight
<1>11. num \in Int /\ max_msgs[p] \in Int
  BY LoadAssumption DEF NoLimit
<1>12. QED
  BY <1>5, <1>6, <1>7, <1>9, <1>10, <1>11

(* No process of cpg-load.c ever has more than one burst of num messages     *)
(* under way, and one with -m never sends more than max_msgs, for any number *)
(* of processes and whatever is lost, repeated, damaged or refused.          *)
THEOREM Flow == Spec => []FlowControl
BY LoadInvariant, InvFlow, PTL
==============================================================================
