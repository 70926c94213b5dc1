-------------------------- MODULE TcpListenerProofs ---------------------------
(***************************************************************************)
(* Proofs about TcpListener for any table size, any number of connections, *)
(* any limit on descriptors and messages of any length: the table and the  *)
(* descriptors stay in step, what the clients send is printed completely   *)
(* and under the right address, and no line is left open after the read of *)
(* its client.                                                             *)
(***************************************************************************)
EXTENDS TcpListener, FiniteSetTheorems, SequenceTheorems, WellFoundedInduction, TLAPS

(* The sequences of the model. *)
SeqsOK ==
  /\ poll_fds \in Seq([fd : {server_fd} \cup Fd, revents : BOOLEAN])
  /\ Len(poll_fds) <= MAX_ACTIVE_CONNECTIONS + 1
  /\ backlog \in Seq(Peer)
  /\ inbox \in [Peer -> Seq(Byte)]
  /\ printed \in [Peer -> Seq(Byte)]
  /\ sent \in [Peer -> Seq(Byte)]
  /\ unfinished \in BOOLEAN /\ last_was_cr \in BOOLEAN

(* The kernel never gives out the last descriptor, so there is a free one.   *)
SpareFd == open[FdLimit] = NoPeer

(* Descriptor f is that of a client. *)
IsClient(f) == \E s \in Slot : clients[s].active /\ clients[s].fd = f

(* Entry k of poll_fds is about a client. *)
ClientEntry(k) == IsClient(poll_fds[k].fd)

(* What poll was asked about: the server socket and, from the entry that is  *)
(* handled on, different clients that are still there.                       *)
PollRight ==
  pc \in {"poll", "event", "read"} =>
    /\ Len(poll_fds) >= 1 /\ poll_fds[1].fd = server_fd
    /\ \A k \in 2 .. Len(poll_fds) : pc = "poll" \/ k >= i => ClientEntry(k)
    /\ \A k, l \in 2 .. Len(poll_fds) : poll_fds[k].fd = poll_fds[l].fd => k = l

(* Only the program takes connections from the queue of the server socket.   *)
BacklogWaits ==
  pc = "event" /\ i = 1 /\ poll_fds[1].revents => backlog # <<>>

(* The place of the loop over the events. *)
PlaceRight ==
  /\ pc = "event" => i <= Len(poll_fds) + 1
  /\ pc = "read" => i \in 2 .. Len(poll_fds)

(* A message is left at the start of a line, or last_was_cr says it was not; *)
(* a header is wanted exactly at the start of a line.                        *)
LineRight == LineFinished /\ (pc = "read" => ~(unfinished /\ last_was_cr))

(* The inductive invariant. *)
LInv == FdIsSlot /\ SeqsOK /\ SpareFd /\ PollRight /\ BacklogWaits /\ PlaceRight
        /\ LineRight /\ RightClient

------------------------------------------------------------------------------
(* Facts about the operators. *)

(* Slots and descriptors are finite ranges of numbers. *)
LEMMA Ranges ==
  /\ Slot \subseteq Nat /\ IsFiniteSet(Slot) /\ Cardinality(Slot) = MAX_ACTIVE_CONNECTIONS
  /\ Fd \subseteq Nat \ {0} /\ FdLimit \in Fd /\ server_fd \notin Fd
  /\ \A s \in Slot : FirstFd + s \in Nat \ {0}
<1>1. IsFiniteSet(Slot) /\ Cardinality(Slot) = MAX_ACTIVE_CONNECTIONS
  BY ListenerAssumption, FS_Interval DEF Slot
<1>2. /\ Slot \subseteq Nat
      /\ \A s \in Slot : FirstFd + s \in Nat \ {0}
  BY ListenerAssumption DEF Slot, FirstFd, server_fd
<1>3. Fd \subseteq Nat \ {0} /\ FdLimit \in Fd /\ server_fd \notin Fd
  BY ListenerAssumption DEF Fd, FirstFd, server_fd
<1>4. QED
  BY <1>1, <1>2, <1>3

(* What a sequence is, and what makes one. *)
LEMMA SeqBasics ==
  ASSUME NEW S, NEW s \in Seq(S)
  PROVE  Len(s) \in Nat /\ DOMAIN s = 1 .. Len(s) /\ \A k \in 1 .. Len(s) : s[k] \in S
OBVIOUS

LEMMA FunctionIsSeq ==
  ASSUME NEW S, NEW n \in Nat, NEW f \in [1 .. n -> S]
  PROVE  f \in Seq(S) /\ Len(f) = n
OBVIOUS

LEMMA ConcatAppend ==
  ASSUME NEW S, NEW s \in Seq(S), NEW t \in Seq(S), NEW e \in S
  PROVE  s \o Append(t, e) = (s \o t) \o <<e>>
<1>1. Append(t, e) = t \o <<e>> /\ <<e>> \in Seq(S)
  OBVIOUS
<1>2. QED
  BY <1>1, ConcatAssociative

(* The same, and what the library says of concatenation, for bytes.         *)
LEMMA ByteConcat ==
  /\ \A s, t \in Seq(Byte) : \A b \in Byte : s \o Append(t, b) = (s \o t) \o <<b>>
  /\ \A s, t, u \in Seq(Byte) : (s \o t) \o u = s \o (t \o u)
  /\ \A s \in Seq(Byte) : \A k \in 1 .. Len(s) :
       SubSeq(s, 1, k) \o SubSeq(s, k + 1, Len(s)) = s
<1>1. ASSUME NEW s \in Seq(Byte), NEW t \in Seq(Byte), NEW b \in Byte
      PROVE  s \o Append(t, b) = (s \o t) \o <<b>>
  BY ConcatAppend
<1>2. ASSUME NEW s \in Seq(Byte), NEW t \in Seq(Byte), NEW u \in Seq(Byte)
      PROVE  (s \o t) \o u = s \o (t \o u)
  BY ConcatAssociative
<1>3. ASSUME NEW s \in Seq(Byte), NEW k \in 1 .. Len(s)
      PROVE  SubSeq(s, 1, k) \o SubSeq(s, k + 1, Len(s)) = s
  <2>1. 1 \in 1 .. Len(s) + 1 /\ k \in 1 - 1 .. Len(s) /\ Len(s) \in k .. Len(s)
    BY SeqBasics
  <2>2. SubSeq(s, 1, k) \o SubSeq(s, k + 1, Len(s)) = SubSeq(s, 1, Len(s))
    BY <2>1, ConcatAdjacentSubSeq
  <2>3. QED
    BY <2>2, SubSeqFull
<1>4. QED
  BY <1>1, <1>2, <1>3

LEMMA MinIsLeast ==
  ASSUME NEW S, S \subseteq Nat, S # {}
  PROVE  Min(S) \in S /\ \A x \in S : Min(S) <= x
<1>1. S \subseteq Nat
  OBVIOUS
<1>2. PICK k \in S : \A l \in S : ~(<<l, k>> \in OpToRel(<, Nat))
  BY <1>1, NatLessThanWellFounded, WFMin
<1>3. ASSUME NEW l \in S PROVE k <= l
  <2>1. k \in Nat /\ l \in Nat /\ ~(l < k)
    BY <1>1, <1>2 DEF OpToRel
  <2>2. QED
    BY <2>1
<1>4. QED
  BY <1>3 DEF Min

(* The members of F up to k. *)
UpTo(F, k) == {l \in F : l <= k}

(* Numbering the members of a finite set of naturals by how many of them are *)
(* not above is one to one, and onto the numbers up to its size.             *)
LEMMA Numbering ==
  ASSUME NEW F, F \subseteq Nat, IsFiniteSet(F)
  PROVE  LET number == [k \in F |-> Cardinality(UpTo(F, k))]
         IN  /\ number \in Injection(F, 1 .. Cardinality(F))
             /\ number \in Surjection(F, 1 .. Cardinality(F))
<1> DEFINE number == [k \in F |-> Cardinality(UpTo(F, k))]
<1>1. ASSUME NEW k \in F
      PROVE  IsFiniteSet(UpTo(F, k)) /\ number[k] \in 1 .. Cardinality(F)
  <2> k \in Nat
    OBVIOUS
  <2>1. UpTo(F, k) \in SUBSET F /\ k \in UpTo(F, k)
    BY DEF UpTo
  <2>2. IsFiniteSet(UpTo(F, k)) /\ Cardinality(UpTo(F, k)) <= Cardinality(F)
    BY <2>1, FS_Subset
  <2>3. Cardinality(UpTo(F, k)) \in Nat \ {0} /\ Cardinality(F) \in Nat
    BY <2>1, <2>2, FS_EmptySet, FS_CardinalityType
  <2>4. QED
    BY <2>2, <2>3
<1>2. ASSUME NEW k \in F, NEW l \in F, number[k] = number[l], k < l PROVE FALSE
  <2>1. k \in Nat /\ l \in Nat /\ \A q \in F : q \in Nat
    BY <1>2
  <2>2. \A q \in UpTo(F, k) : q \in UpTo(F, l)
    BY <1>2, <2>1 DEF UpTo
  <2>3. UpTo(F, l) = UpTo(F, k)
    BY <1>1, <1>2, <2>2, FS_Subset
  <2>4. QED
    BY <1>2, <2>1, <2>3 DEF UpTo
<1>3. number \in Injection(F, 1 .. Cardinality(F))
  <2>1. \A k, l \in F : number[k] = number[l] => k = l
    BY <1>2
  <2>2. number \in [F -> 1 .. Cardinality(F)]
    BY <1>1
  <2>3. QED
    BY <2>1, <2>2 DEF Injection, IsInjective
<1>4. Cardinality(F) \in Nat
  BY FS_CardinalityType
<1>5. /\ IsFiniteSet(1 .. Cardinality(F))
      /\ Cardinality(1 .. Cardinality(F)) = Cardinality(F)
  BY <1>4, FS_Interval
<1>6. QED
  BY <1>3, <1>5, FS_Injection

(* The active slots are taken one by one, each once.                         *)
LEMMA NthActiveRight ==
  /\ Cardinality(ActiveSlots) \in 0 .. MAX_ACTIVE_CONNECTIONS
  /\ \A k \in 1 .. Cardinality(ActiveSlots) : NthActive(k) \in ActiveSlots
  /\ \A k, l \in 1 .. Cardinality(ActiveSlots) : NthActive(k) = NthActive(l) => k = l
<1>1. ActiveSlots \subseteq Slot
  BY DEF ActiveSlots
<1>2. /\ ActiveSlots \subseteq Nat /\ IsFiniteSet(ActiveSlots)
      /\ Cardinality(ActiveSlots) \in 0 .. MAX_ACTIVE_CONNECTIONS
  <2>1. /\ Slot \subseteq Nat /\ IsFiniteSet(Slot)
        /\ Cardinality(Slot) = MAX_ACTIVE_CONNECTIONS
    BY Ranges
  <2>2. IsFiniteSet(ActiveSlots) /\ Cardinality(ActiveSlots) <= MAX_ACTIVE_CONNECTIONS
    BY <1>1, <2>1, FS_Subset
  <2>3. Cardinality(ActiveSlots) \in Nat
    BY <2>2, FS_CardinalityType
  <2>4. QED
    BY <1>1, <2>1, <2>2, <2>3, ListenerAssumption
<1>3. ASSUME NEW k \in 1 .. Cardinality(ActiveSlots)
      PROVE  /\ NthActive(k) \in ActiveSlots
             /\ Cardinality({t \in ActiveSlots : t <= NthActive(k)}) = k
  <2>1. \E s \in ActiveSlots : Cardinality({t \in ActiveSlots : t <= s}) = k
    <3>1. [s \in ActiveSlots |-> Cardinality(UpTo(ActiveSlots, s))]
            \in Surjection(ActiveSlots, 1 .. Cardinality(ActiveSlots))
      BY <1>2, Numbering
    <3>2. QED
      BY <3>1 DEF Surjection, UpTo
  <2>2. QED
    BY <2>1 DEF NthActive
<1>4. QED
  BY <1>2, <1>3

(* With table and descriptors in step, the first slot with the descriptor of *)
(* a client is the slot of that client.                                      *)
LEMMA ClientSlot ==
  ASSUME FdIsSlot, NEW f, IsClient(f)
  PROVE  LET s == client_fd_to_id(f)
         IN  /\ s \in Slot /\ f = FirstFd + s /\ f \in Fd
             /\ clients[s].active /\ clients[s].fd = f
             /\ clients[s].peer = open[f] /\ open[f] \in Peer
<1>1. PICK s \in Slot : clients[s].active /\ clients[s].fd = f
  BY DEF IsClient
<1>2. f = FirstFd + s /\ f \in Fd /\ open[f] # NoPeer /\ clients[s].peer = open[f]
  BY <1>1 DEF FdIsSlot
<1>3. {t \in Slot : clients[t].fd = f} = {s}
  <2>1. ASSUME NEW t \in Slot, clients[t].fd = f PROVE t = s
    <3>1. clients[t].fd \in {0, FirstFd + t} /\ f # 0
      BY <1>2, Ranges DEF FdIsSlot
    <3>2. FirstFd + t = FirstFd + s /\ t \in Nat /\ s \in Nat
      BY <1>2, <2>1, <3>1, Ranges
    <3>3. QED
      BY <3>2 DEF FirstFd, server_fd
  <2>2. QED
    BY <1>1, <2>1
<1>4. client_fd_to_id(f) = s
  BY <1>3, Ranges, MinIsLeast DEF client_fd_to_id
<1>5. open[f] \in Peer
  BY <1>2 DEF FdIsSlot, TypeOK
<1>6. QED
  BY <1>1, <1>2, <1>4, <1>5

(* The first unused slot goes with the lowest free descriptor.               *)
LEMMA LowestFree ==
  ASSUME FdIsSlot, SpareFd, ActiveSlots # Slot, NextFd < FdLimit
  PROVE  LET s == Min(Slot \ ActiveSlots)
         IN  /\ s \in Slot /\ ~clients[s].active
             /\ NextFd = FirstFd + s /\ NextFd \in Fd /\ open[NextFd] = NoPeer
<1> DEFINE s == Min(Slot \ ActiveSlots)
           free == {f \in Fd : open[f] = NoPeer}
<1>1. s \in Slot \ ActiveSlots /\ \A t \in Slot \ ActiveSlots : s <= t
  <2>1. Slot \ ActiveSlots # {} /\ Slot \ ActiveSlots \subseteq Nat
    BY Ranges DEF ActiveSlots
  <2>2. QED
    BY <2>1, MinIsLeast
<1>2. NextFd \in free /\ \A f \in free : NextFd <= f
  <2>1. free # {} /\ free \subseteq Nat
    BY Ranges DEF SpareFd
  <2>2. QED
    BY <2>1, MinIsLeast DEF NextFd
<1>3. s \in Nat /\ NextFd \in Nat /\ NextFd >= 4 /\ FdLimit \in Nat /\ FirstFd = 4
      /\ MAX_ACTIVE_CONNECTIONS \in Nat /\ s < MAX_ACTIVE_CONNECTIONS
  BY <1>1, <1>2, ListenerAssumption DEF Slot, Fd, FirstFd, server_fd
<1>4. ~(NextFd < FirstFd + s)
  <2> SUFFICES ASSUME NextFd < FirstFd + s PROVE FALSE
    OBVIOUS
  <2> DEFINE u == NextFd - 4
  <2>1. u \in Slot /\ u < s /\ NextFd = FirstFd + u
    BY <1>3 DEF Slot
  <2>2. u \in ActiveSlots
    BY <1>1, <1>3, <2>1, Ranges
  <2>3. QED
    BY <1>2, <2>1, <2>2 DEF ActiveSlots, FdIsSlot
<1>5. ~(NextFd > FirstFd + s)
  <2> SUFFICES ASSUME NextFd > FirstFd + s PROVE FALSE
    OBVIOUS
  <2>1. FirstFd + s \in Fd
    BY <1>3 DEF Fd
  <2>2. open[FirstFd + s] = NoPeer
    BY <1>1, <2>1 DEF FdIsSlot, ActiveSlots
  <2>3. QED
    BY <1>2, <1>3, <2>1, <2>2
<1>6. NextFd = FirstFd + s
  BY <1>3, <1>4, <1>5
<1>7. QED
  BY <1>1, <1>2, <1>6 DEF ActiveSlots

------------------------------------------------------------------------------
LEMMA ListenerInit == Init => LInv
<1> SUFFICES ASSUME Init PROVE LInv
  OBVIOUS
<1>1. TypeOK
  <2>1. i \in 1 .. MAX_ACTIVE_CONNECTIONS + 2
    BY ListenerAssumption DEF Init
  <2>2. DOMAIN poll_fds = {}
    BY DEF Init
  <2>3. clients \in [Slot -> [active : BOOLEAN, fd : {0} \cup Fd, peer : Peer \cup {NoPeer}]]
    BY DEF Init
  <2>4. QED
    BY <2>1, <2>2, <2>3 DEF Init, TypeOK
<1>2. FdIsSlot
  BY <1>1 DEF Init, FdIsSlot
<1>3. SeqsOK
  <2>1. \A S : <<>> \in Seq(S) /\ Len(<<>>) = 0
    OBVIOUS
  <2>2. poll_fds = <<>> /\ 0 <= MAX_ACTIVE_CONNECTIONS + 1
    BY ListenerAssumption DEF Init
  <2>3. /\ inbox \in [Peer -> Seq(Byte)] /\ printed \in [Peer -> Seq(Byte)]
        /\ sent \in [Peer -> Seq(Byte)]
    BY <2>1 DEF Init
  <2>4. QED
    BY <2>1, <2>2, <2>3 DEF Init, SeqsOK
<1>4. SpareFd /\ PollRight /\ BacklogWaits /\ PlaceRight /\ LineRight
  BY Ranges DEF Init, SpareFd, PollRight, BacklogWaits, PlaceRight, LineRight, LineFinished
<1>5. RightClient
  BY DEF Init, RightClient
<1>6. QED
  BY <1>2, <1>3, <1>4, <1>5 DEF LInv

(* Steps that touch neither the table nor the descriptors.                   *)
LEMMA TableKept ==
  ASSUME FdIsSlot, SpareFd, UNCHANGED <<clients, open>>, TypeOK'
  PROVE  FdIsSlot' /\ SpareFd' /\ \A f : IsClient(f)' = IsClient(f)
BY DEF FdIsSlot, SpareFd, IsClient

(* Steps that print no message and read none.                                *)
LEMMA MessagesKept ==
  ASSUME RightClient, UNCHANGED <<inbox, printed, sent>>
  PROVE  RightClient'
BY DEF RightClient

(* The poll loop builds the table of descriptors anew.                       *)
LEMMA LoopLInv ==
  ASSUME LInv, Loop
  PROVE  LInv'
<1> DEFINE n == Cardinality(ActiveSlots)
           F == fill_poll_fds
<1>1. /\ pc = "loop" /\ pc' = "poll"
      /\ poll_fds' = [k \in 1 .. Len(F) |-> [fd |-> F[k], revents |-> FALSE]]
      /\ UNCHANGED <<exit_app, clients, i, blocked, last_was_cr, open, backlog, inbox, sent,
                     printed, unfinished>>
  BY DEF Loop, reader, network, output
<1>2. n \in 0 .. MAX_ACTIVE_CONNECTIONS
  BY NthActiveRight
<1>3. /\ F \in Seq({server_fd} \cup Fd) /\ Len(F) = n + 1 /\ F[1] = server_fd
      /\ \A k \in 2 .. n + 1 : F[k] = clients[NthActive(k - 1)].fd
  <2> DEFINE G == [k \in 1 .. n |-> clients[NthActive(k)].fd]
  <2>1. \A k \in 1 .. n : clients[NthActive(k)].fd \in Fd
    <3>1. \A s \in ActiveSlots : clients[s].fd \in Fd
      BY DEF LInv, FdIsSlot, ActiveSlots
    <3>2. QED
      BY <3>1, NthActiveRight
  <2>2. G \in Seq({server_fd} \cup Fd) /\ Len(G) = n
    BY <1>2, <2>1
  <2>3. <<server_fd>> \in Seq({server_fd} \cup Fd) /\ Len(<<server_fd>>) = 1
    OBVIOUS
  <2>4. F = <<server_fd>> \o G
    BY DEF fill_poll_fds
  <2>5. /\ F \in Seq({server_fd} \cup Fd) /\ Len(F) = n + 1 /\ F[1] = server_fd
        /\ \A k \in 2 .. n + 1 : F[k] = G[k - 1]
    BY <1>2, <2>2, <2>3, <2>4
  <2>6. \A k \in 2 .. n + 1 : G[k - 1] = clients[NthActive(k - 1)].fd
    BY <1>2
  <2>7. QED
    BY <2>5, <2>6
<1>4. /\ poll_fds' \in Seq([fd : {server_fd} \cup Fd, revents : BOOLEAN])
      /\ Len(poll_fds') = n + 1 /\ DOMAIN poll_fds' = 1 .. n + 1
      /\ \A k \in 1 .. n + 1 : poll_fds'[k].fd = F[k]
  <2>1. n + 1 \in Nat /\ \A k \in 1 .. n + 1 : F[k] \in {server_fd} \cup Fd
    BY <1>2, <1>3
  <2>2. poll_fds' = [k \in 1 .. n + 1 |-> [fd |-> F[k], revents |-> FALSE]]
    BY <1>1, <1>3
  <2>3. \A k \in 1 .. n + 1 : [fd |-> F[k], revents |-> FALSE]
                                 \in [fd : {server_fd} \cup Fd, revents : BOOLEAN]
    BY <2>1
  <2>4. poll_fds' \in [1 .. n + 1 -> [fd : {server_fd} \cup Fd, revents : BOOLEAN]]
    BY <2>2, <2>3
  <2>5. /\ poll_fds' \in Seq([fd : {server_fd} \cup Fd, revents : BOOLEAN])
        /\ Len(poll_fds') = n + 1
    BY <2>1, <2>4, FunctionIsSeq
  <2>6. QED
    BY <2>1, <2>2, <2>5
<1>5. TypeOK'
  BY <1>1, <1>4 DEF LInv, FdIsSlot, TypeOK
<1>6. FdIsSlot' /\ SpareFd' /\ \A f : IsClient(f)' = IsClient(f)
  BY <1>1, <1>5, TableKept DEF LInv
<1>7. SeqsOK'
  BY <1>1, <1>2, <1>4, ListenerAssumption DEF LInv, SeqsOK
<1>8. PollRight'
  <2>1. \A k \in 2 .. n + 1 : /\ k - 1 \in 1 .. n /\ NthActive(k - 1) \in ActiveSlots
                              /\ poll_fds'[k].fd = clients[NthActive(k - 1)].fd
    BY <1>2, <1>3, <1>4, NthActiveRight
  <2>2. ActiveSlots \subseteq Slot
    BY DEF ActiveSlots
  <2>3. ASSUME NEW k \in 2 .. n + 1, NEW l \in 2 .. n + 1, poll_fds'[k].fd = poll_fds'[l].fd
        PROVE  k = l
    <3>1. NthActive(k - 1) = NthActive(l - 1)
      <4>1. \A s, t \in ActiveSlots : clients[s].fd = clients[t].fd => s = t
        BY Ranges DEF LInv, FdIsSlot, ActiveSlots, FirstFd, server_fd
      <4>2. QED
        BY <2>1, <2>3, <4>1
    <3>2. k - 1 = l - 1
      BY <2>1, <3>1, NthActiveRight
    <3>3. QED
      BY <3>2
  <2>4. \A k \in 2 .. n + 1 : ClientEntry(k)'
    BY <1>1, <2>1 DEF IsClient, ClientEntry, ActiveSlots
  <2>5. Len(poll_fds') >= 1 /\ poll_fds'[1].fd = server_fd
    BY <1>2, <1>3, <1>4
  <2>6. QED
    BY <1>4, <2>3, <2>4, <2>5 DEF PollRight
<1>9. BacklogWaits' /\ PlaceRight' /\ LineRight'
  BY <1>1 DEF LInv, BacklogWaits, PlaceRight, LineRight, LineFinished
<1>10. RightClient'
  BY <1>1, MessagesKept DEF LInv
<1>11. QED
  BY <1>6, <1>7, <1>8, <1>9, <1>10 DEF LInv

(* poll() answers for the entries it was asked about, and changes no other. *)
LEMMA PollReturnsLInv ==
  ASSUME LInv, PollReturns
  PROVE  LInv'
<1>1. /\ pc = "poll" /\ pc' = "event" /\ i' = 1 /\ blocked' = FALSE
      /\ poll_fds' = [k \in DOMAIN poll_fds |->
                        [fd |-> poll_fds[k].fd, revents |-> Readable(poll_fds[k].fd)]]
      /\ UNCHANGED <<exit_app, clients, last_was_cr, open, backlog, inbox, sent,
                     printed, unfinished>>
  BY DEF PollReturns, reader, network, output
<1>2. /\ poll_fds \in Seq([fd : {server_fd} \cup Fd, revents : BOOLEAN])
      /\ Len(poll_fds) \in Nat /\ DOMAIN poll_fds = 1 .. Len(poll_fds)
      /\ \A k \in 1 .. Len(poll_fds) : poll_fds[k].fd \in {server_fd} \cup Fd
  <2>1. poll_fds \in Seq([fd : {server_fd} \cup Fd, revents : BOOLEAN])
    BY DEF LInv, SeqsOK
  <2>2. /\ Len(poll_fds) \in Nat /\ DOMAIN poll_fds = 1 .. Len(poll_fds)
        /\ \A k \in 1 .. Len(poll_fds) :
             poll_fds[k] \in [fd : {server_fd} \cup Fd, revents : BOOLEAN]
    BY <2>1, SeqBasics
  <2>3. QED
    BY <2>1, <2>2
<1>3. \A f : Readable(f) \in BOOLEAN
  BY DEF Readable
<1>4. /\ poll_fds' \in Seq([fd : {server_fd} \cup Fd, revents : BOOLEAN])
      /\ Len(poll_fds') = Len(poll_fds) /\ DOMAIN poll_fds' = DOMAIN poll_fds
      /\ \A k \in 1 .. Len(poll_fds) : /\ poll_fds'[k].fd = poll_fds[k].fd
                                       /\ poll_fds'[k].revents = Readable(poll_fds[k].fd)
  BY <1>1, <1>2, <1>3
<1>5. TypeOK'
  <2>1. i' \in 1 .. MAX_ACTIVE_CONNECTIONS + 2
    BY <1>1, ListenerAssumption
  <2>2. \A k \in DOMAIN poll_fds' : poll_fds'[k].fd \in {server_fd} \cup Fd
    BY <1>2, <1>4
  <2>3. QED
    BY <1>1, <2>1, <2>2 DEF LInv, FdIsSlot, TypeOK
<1>6. FdIsSlot' /\ SpareFd' /\ \A f : IsClient(f)' = IsClient(f)
  BY <1>1, <1>5, TableKept DEF LInv
<1>7. SeqsOK'
  BY <1>1, <1>4 DEF LInv, SeqsOK
<1>8. PollRight'
  <2>1. /\ Len(poll_fds) >= 1 /\ poll_fds[1].fd = server_fd
        /\ \A k \in 2 .. Len(poll_fds) : ClientEntry(k)
        /\ \A k, l \in 2 .. Len(poll_fds) : poll_fds[k].fd = poll_fds[l].fd => k = l
    BY <1>1 DEF LInv, PollRight
  <2>2. \A k \in 2 .. Len(poll_fds) : poll_fds'[k].fd = poll_fds[k].fd
    BY <1>2, <1>4
  <2>3. \A k \in 2 .. Len(poll_fds') : ClientEntry(k)'
    BY <1>1, <1>4, <2>1, <2>2 DEF IsClient, ClientEntry
  <2>4. \A k, l \in 2 .. Len(poll_fds') : poll_fds'[k].fd = poll_fds'[l].fd => k = l
    BY <1>4, <2>1, <2>2
  <2>5. Len(poll_fds') >= 1 /\ poll_fds'[1].fd = server_fd
    BY <1>2, <1>4, <2>1
  <2>6. QED
    BY <2>3, <2>4, <2>5 DEF PollRight
<1>9. BacklogWaits'
  <2>1. poll_fds'[1].revents = (backlog # <<>>)
    <3>1. Len(poll_fds) >= 1 /\ poll_fds[1].fd = server_fd
      BY <1>1 DEF LInv, PollRight
    <3>2. poll_fds'[1].revents = Readable(server_fd)
      BY <1>2, <1>4, <3>1
    <3>3. QED
      BY <3>2 DEF Readable
  <2>2. QED
    BY <1>1, <2>1 DEF BacklogWaits
<1>10. PlaceRight' /\ LineRight'
  BY <1>1, <1>2, <1>4 DEF LInv, PlaceRight, LineRight, LineFinished
<1>11. RightClient'
  BY <1>1, MessagesKept DEF LInv
<1>12. QED
  BY <1>6, <1>7, <1>8, <1>9, <1>10, <1>11 DEF LInv

(* Steps that leave the table, the descriptors and the messages alone, and   *)
(* do not touch what poll was asked about.                                   *)
LEMMA QuietLInv ==
  ASSUME LInv,
         \/ PollBlocks \/ Signal \/ SignalInterrupts \/ Stop \/ EventsDone
         \/ NoEvent \/ AcceptFails \/ Read \/ UNCHANGED vars
  PROVE  LInv'
<1>1. UNCHANGED <<clients, poll_fds, open, backlog, inbox, sent, printed>>
  BY DEF PollBlocks, Signal, SignalInterrupts, Stop, EventsDone, NoEvent, AcceptFails, Read,
         vars, polling, reader, network, output
<1>2. i \in 1 .. MAX_ACTIVE_CONNECTIONS + 2 /\ MAX_ACTIVE_CONNECTIONS \in Nat
      /\ Len(poll_fds) \in Nat /\ Len(poll_fds) <= MAX_ACTIVE_CONNECTIONS + 1
  BY ListenerAssumption, SeqBasics DEF LInv, FdIsSlot, TypeOK, SeqsOK
<1>3. /\ pc' \in {"loop", "poll", "event", "read", "stopped", "failed"}
      /\ exit_app' \in BOOLEAN /\ blocked' \in BOOLEAN /\ last_was_cr' \in BOOLEAN
      /\ unfinished' \in BOOLEAN
      /\ i' \in 1 .. MAX_ACTIVE_CONNECTIONS + 2
      /\ pc' = "poll" => pc = "poll"
      /\ pc' \in {"event", "read"} => \/ pc = "event" /\ i' = i
                                      \/ pc = "event" /\ pc' = "event" /\ i' = i + 1
                                      \/ pc' = pc /\ i' = i
      /\ LineRight' /\ PlaceRight' /\ BacklogWaits'
  <2>1. CASE PollBlocks \/ Signal \/ UNCHANGED vars
    <3>1. /\ UNCHANGED <<pc, i, unfinished, last_was_cr, header_printed>>
          /\ exit_app' \in BOOLEAN /\ blocked' \in BOOLEAN
      BY <2>1 DEF PollBlocks, Signal, vars, polling, reader, network, output,
         LInv, FdIsSlot, TypeOK
    <3>2. LineRight' /\ PlaceRight' /\ BacklogWaits'
      BY <1>1, <3>1 DEF LInv, LineRight, LineFinished, PlaceRight, BacklogWaits
    <3>3. QED
      BY <3>1, <3>2 DEF LInv, FdIsSlot, TypeOK, SeqsOK
  <2>2. CASE SignalInterrupts \/ Stop
    BY <1>1, <2>2 DEF SignalInterrupts, Stop, PrintRecord, polling, reader, network, output,
       LInv, FdIsSlot, TypeOK, SeqsOK, LineRight, LineFinished, PlaceRight, BacklogWaits
  <2>3. CASE EventsDone \/ AcceptFails
    BY <1>1, <2>3 DEF EventsDone, AcceptFails, AtServer, AtEvent, polling, reader, network,
       output, LInv, FdIsSlot, TypeOK, SeqsOK, LineRight, LineFinished, PlaceRight, BacklogWaits
  <2>4. CASE NoEvent
    <3>1. /\ pc = "event" /\ i <= Len(poll_fds) /\ i' = i + 1
          /\ UNCHANGED <<pc, exit_app, blocked, unfinished, last_was_cr>>
      BY <2>4 DEF NoEvent, AtEvent, reader, output
    <3>2. i' \in 1 .. MAX_ACTIVE_CONNECTIONS + 2 /\ i' # 1 /\ i' <= Len(poll_fds) + 1
      BY <1>2, <3>1
    <3>3. LineRight' /\ PlaceRight' /\ BacklogWaits'
      BY <1>1, <3>1, <3>2 DEF LInv, LineRight, LineFinished, PlaceRight, BacklogWaits
    <3>4. exit_app' \in BOOLEAN /\ blocked' \in BOOLEAN /\ last_was_cr' \in BOOLEAN
          /\ unfinished' \in BOOLEAN
      BY <3>1 DEF LInv, FdIsSlot, TypeOK, SeqsOK
    <3>5. pc = "event" /\ pc' = "event" /\ i' = i + 1
      BY <3>1
    <3>6. /\ pc' \in {"loop", "poll", "event", "read", "stopped", "failed"}
          /\ pc' # "poll"
      BY <3>5
    <3>7. QED
      BY <3>2, <3>3, <3>4, <3>5, <3>6
  <2>5. CASE Read
    <3>1. /\ pc = "event" /\ pc' = "read" /\ i > 1 /\ i <= Len(poll_fds)
          /\ last_was_cr' \in BOOLEAN /\ header_printed' = FALSE
          /\ UNCHANGED <<i, exit_app, blocked, unfinished>>
      BY <2>5 DEF Read, AtEvent, polling, output
    <3>2. i \in 2 .. Len(poll_fds)
      BY <1>2, <3>1
    <3>3. LineRight' /\ PlaceRight' /\ BacklogWaits'
      BY <1>1, <3>1, <3>2 DEF LInv, SeqsOK, LineRight, LineFinished, PlaceRight, BacklogWaits
    <3>4. exit_app' \in BOOLEAN /\ blocked' \in BOOLEAN /\ unfinished' \in BOOLEAN
          /\ i' \in 1 .. MAX_ACTIVE_CONNECTIONS + 2
      BY <3>1 DEF LInv, FdIsSlot, TypeOK, SeqsOK
    <3>5. /\ pc' \in {"loop", "poll", "event", "read", "stopped", "failed"}
          /\ pc' # "poll" /\ i' = i
      BY <3>1
    <3>6. QED
      BY <3>1, <3>3, <3>4, <3>5
  <2>6. QED
    BY <2>1, <2>2, <2>3, <2>4, <2>5
<1>4. TypeOK'
  BY <1>1, <1>3 DEF LInv, FdIsSlot, TypeOK
<1>5. FdIsSlot' /\ SpareFd' /\ \A f : IsClient(f)' = IsClient(f)
  BY <1>1, <1>4, TableKept DEF LInv
<1>6. SeqsOK'
  BY <1>1, <1>3 DEF LInv, SeqsOK
<1>7. PollRight'
  <2>1. \A k \in 2 .. Len(poll_fds) : ClientEntry(k)' = ClientEntry(k)
    BY <1>1 DEF ClientEntry, IsClient
  <2>2. \A k \in 2 .. Len(poll_fds) :
          pc' \in {"poll", "event", "read"} /\ (pc' = "poll" \/ k >= i') => pc = "poll" \/ k >= i
    BY <1>2, <1>3
  <2>3. pc' \in {"poll", "event", "read"} => pc \in {"poll", "event", "read"}
    BY <1>3
  <2>4. QED
    BY <1>1, <2>1, <2>2, <2>3 DEF LInv, PollRight
<1>8. RightClient'
  BY <1>1, MessagesKept DEF LInv
<1>9. QED
  BY <1>3, <1>5, <1>6, <1>7, <1>8 DEF LInv

(* A connection that is accepted gets the lowest descriptor and with it the  *)
(* slot that stands for it.                                                  *)
LEMMA AcceptLInv ==
  ASSUME LInv, Accept
  PROVE  LInv'
<1> PICK s \in Slot : s = Min(Slot \ ActiveSlots)
  BY LowestFree DEF LInv, Accept
<1> PICK p : p = Head(backlog)
  OBVIOUS
<1> PICK f \in Fd : f = NextFd
  BY LowestFree DEF LInv, Accept
<1>1. /\ pc = "event" /\ i <= Len(poll_fds) /\ i = 1 /\ poll_fds[i].revents
      /\ f < FdLimit
      /\ open' = [open EXCEPT ![f] = p]
      /\ clients' = [clients EXCEPT ![s] = [active |-> TRUE, fd |-> f, peer |-> p]]
      /\ unfinished' = FALSE /\ backlog' = Tail(backlog) /\ i' = i + 1
      /\ UNCHANGED <<pc, exit_app, poll_fds, blocked, last_was_cr, inbox, state, sent, printed>>
  BY DEF Accept, AtServer, AtEvent, PrintRecord, add_client, reader
<1>2. ~clients[s].active /\ f = FirstFd + s /\ open[f] = NoPeer
  BY LowestFree DEF LInv, Accept
<1>3. backlog # <<>> /\ backlog \in Seq(Peer)
  BY <1>1 DEF LInv, BacklogWaits, SeqsOK
<1>4. p \in Peer /\ backlog' \in Seq(Peer)
  BY <1>1, <1>3, HeadTailProperties
<1>5. MAX_ACTIVE_CONNECTIONS \in Nat \ {0} /\ Len(poll_fds) \in Nat
      /\ Len(poll_fds) <= MAX_ACTIVE_CONNECTIONS + 1
  BY ListenerAssumption, SeqBasics DEF LInv, SeqsOK
<1>6. i' = 2 /\ i' \in 1 .. MAX_ACTIVE_CONNECTIONS + 2 /\ i' <= Len(poll_fds) + 1
  BY <1>1, <1>5
<1>7. TypeOK'
  <2>1. clients' \in [Slot -> [active : BOOLEAN, fd : {0} \cup Fd, peer : Peer \cup {NoPeer}]]
    BY <1>1, <1>4 DEF LInv, FdIsSlot, TypeOK
  <2>2. open' \in [Fd -> Peer \cup {NoPeer}]
    BY <1>1, <1>4 DEF LInv, FdIsSlot, TypeOK
  <2>3. QED
    BY <1>1, <1>6, <2>1, <2>2 DEF LInv, FdIsSlot, TypeOK
<1>8. /\ clients'[s].active /\ clients'[s].fd = f /\ clients'[s].peer = p
      /\ \A t \in Slot : t # s => clients'[t] = clients[t]
      /\ open'[f] = p /\ \A g \in Fd : g # f => open'[g] = open[g]
  BY <1>1 DEF LInv, FdIsSlot, TypeOK
<1>9. \A t \in Slot : t # s => FirstFd + t # f
  BY <1>2, Ranges DEF FirstFd, server_fd
<1>10. FdIsSlot'
  <2>1. ASSUME NEW t \in Slot
        PROVE  /\ clients'[t].active <=> FirstFd + t \in Fd /\ open'[FirstFd + t] # NoPeer
               /\ clients'[t].fd \in {0, FirstFd + t}
               /\ clients'[t].active =>
                    clients'[t].fd = FirstFd + t /\ clients'[t].peer = open'[FirstFd + t]
    <3>1. CASE t = s
      BY <1>2, <1>4, <1>8, <3>1, ListenerAssumption
    <3>2. CASE t # s
      <4>1. /\ clients'[t] = clients[t]
            /\ FirstFd + t \in Fd => open'[FirstFd + t] = open[FirstFd + t]
        BY <1>8, <1>9, <3>2
      <4>2. QED
        BY <4>1 DEF LInv, FdIsSlot
    <3>3. QED
      BY <3>1, <3>2
  <2>2. QED
    BY <1>7, <2>1 DEF FdIsSlot
<1>11. SpareFd'
  <2>1. FdLimit # f /\ FdLimit \in Fd
    BY <1>1, Ranges
  <2>2. QED
    BY <1>8, <2>1 DEF LInv, SpareFd
<1>12. SeqsOK'
  BY <1>1, <1>4 DEF LInv, SeqsOK
<1>13. PollRight'
  <2>1. \A k \in 2 .. Len(poll_fds) : ClientEntry(k)
    BY <1>1 DEF LInv, PollRight
  <2>2. ASSUME NEW k \in 2 .. Len(poll_fds) PROVE ClientEntry(k)'
    <3>1. PICK t \in Slot : clients[t].active /\ clients[t].fd = poll_fds[k].fd
      BY <2>1 DEF ClientEntry, IsClient
    <3>2. clients'[t] = clients[t]
      BY <1>2, <1>8, <3>1
    <3>3. QED
      BY <1>1, <3>1, <3>2 DEF ClientEntry, IsClient
  <2>3. QED
    BY <1>1, <2>2 DEF LInv, PollRight
<1>14. BacklogWaits' /\ PlaceRight' /\ LineRight'
  BY <1>1, <1>6 DEF BacklogWaits, PlaceRight, LineRight, LineFinished
<1>15. RightClient'
  BY <1>1, MessagesKept DEF LInv
<1>16. QED
  BY <1>10, <1>11, <1>12, <1>13, <1>14, <1>15 DEF LInv

(* A client that is gone gives its slot and its descriptor back together.    *)
LEMMA ClientGoneLInv ==
  ASSUME LInv, ClientGone
  PROVE  LInv'
<1>1. i \in 2 .. Len(poll_fds) /\ pc = "read"
  BY DEF LInv, PlaceRight, ClientGone
<1>2. ClientEntry(i)
  <2>1. i >= i
    BY DEF LInv, FdIsSlot, TypeOK
  <2>2. QED
    BY <1>1, <2>1 DEF LInv, PollRight
<1> PICK f \in Fd : f = fd
  BY <1>2, ClientSlot DEF LInv, ClientEntry, fd
<1> PICK s \in Slot : s = client_fd_to_id(fd)
  BY <1>2, ClientSlot DEF LInv, ClientEntry, fd
<1>3. clients[s].active /\ clients[s].fd = f /\ f = FirstFd + s /\ poll_fds[i].fd = f
  BY <1>2, ClientSlot DEF LInv, ClientEntry, fd
<1>4. /\ clients' = [clients EXCEPT ![s].active = FALSE]
      /\ open' = [open EXCEPT ![f] = NoPeer]
      /\ unfinished' = FALSE /\ pc' = "event" /\ i' = i + 1
      /\ UNCHANGED <<exit_app, poll_fds, blocked, last_was_cr, backlog, inbox, sent, printed>>
  BY DEF ClientGone, Drop, PrintRecord, reader, network
<1>5. MAX_ACTIVE_CONNECTIONS \in Nat \ {0} /\ Len(poll_fds) \in Nat
      /\ Len(poll_fds) <= MAX_ACTIVE_CONNECTIONS + 1
  BY ListenerAssumption, SeqBasics DEF LInv, SeqsOK
<1>6. i' # 1 /\ i' \in 1 .. MAX_ACTIVE_CONNECTIONS + 2 /\ i' <= Len(poll_fds) + 1
  BY <1>1, <1>4, <1>5
<1>7. TypeOK'
  <2>1. clients' \in [Slot -> [active : BOOLEAN, fd : {0} \cup Fd, peer : Peer \cup {NoPeer}]]
    <3>1. clients[s] \in [active : BOOLEAN, fd : {0} \cup Fd, peer : Peer \cup {NoPeer}]
      BY DEF LInv, FdIsSlot, TypeOK
    <3>2. clients' = [clients EXCEPT ![s] = [clients[s] EXCEPT !.active = FALSE]]
      BY <1>4
    <3>3. [clients[s] EXCEPT !.active = FALSE]
             \in [active : BOOLEAN, fd : {0} \cup Fd, peer : Peer \cup {NoPeer}]
      BY <3>1
    <3>4. QED
      BY <3>2, <3>3 DEF LInv, FdIsSlot, TypeOK
  <2>2. open' \in [Fd -> Peer \cup {NoPeer}]
    BY <1>4 DEF LInv, FdIsSlot, TypeOK
  <2>3. QED
    BY <1>4, <1>6, <2>1, <2>2 DEF LInv, FdIsSlot, TypeOK
<1>8. /\ ~clients'[s].active /\ clients'[s].fd = clients[s].fd
      /\ \A t \in Slot : t # s => clients'[t] = clients[t]
      /\ open'[f] = NoPeer /\ \A g \in Fd : g # f => open'[g] = open[g]
  BY <1>4 DEF LInv, FdIsSlot, TypeOK
<1>9. \A t \in Slot : t # s => FirstFd + t # f
  BY <1>3, Ranges DEF FirstFd, server_fd
<1>10. FdIsSlot'
  <2>1. ASSUME NEW t \in Slot
        PROVE  /\ clients'[t].active <=> FirstFd + t \in Fd /\ open'[FirstFd + t] # NoPeer
               /\ clients'[t].fd \in {0, FirstFd + t}
               /\ clients'[t].active =>
                    clients'[t].fd = FirstFd + t /\ clients'[t].peer = open'[FirstFd + t]
    <3>1. CASE t = s
      BY <1>3, <1>8, <3>1
    <3>2. CASE t # s
      <4>1. /\ clients'[t] = clients[t]
            /\ FirstFd + t \in Fd => open'[FirstFd + t] = open[FirstFd + t]
        BY <1>8, <1>9, <3>2
      <4>2. QED
        BY <4>1 DEF LInv, FdIsSlot
    <3>3. QED
      BY <3>1, <3>2
  <2>2. QED
    BY <1>7, <2>1 DEF FdIsSlot
<1>11. SpareFd'
  BY <1>8, Ranges DEF LInv, SpareFd
<1>12. SeqsOK'
  BY <1>4 DEF LInv, SeqsOK
<1>13. PollRight'
  <2>1. /\ Len(poll_fds) >= 1 /\ poll_fds[1].fd = server_fd
        /\ \A k \in 2 .. Len(poll_fds) : k >= i => ClientEntry(k)
        /\ \A k, l \in 2 .. Len(poll_fds) : poll_fds[k].fd = poll_fds[l].fd => k = l
    BY <1>1 DEF LInv, PollRight
  <2>2. ASSUME NEW k \in 2 .. Len(poll_fds), k >= i + 1 PROVE ClientEntry(k)'
    <3>1. k >= i /\ k # i
      BY <1>1, <1>5, <2>2
    <3>2. PICK t \in Slot : clients[t].active /\ clients[t].fd = poll_fds[k].fd
      BY <2>1, <3>1 DEF ClientEntry, IsClient
    <3>3. t # s
      BY <1>1, <1>3, <2>1, <3>1, <3>2
    <3>4. QED
      BY <1>4, <1>8, <3>2, <3>3 DEF ClientEntry, IsClient
  <2>3. QED
    BY <1>4, <2>1, <2>2 DEF PollRight
<1>14. BacklogWaits' /\ PlaceRight' /\ LineRight'
  BY <1>4, <1>6 DEF BacklogWaits, PlaceRight, LineRight, LineFinished
<1>15. RightClient'
  BY <1>4, MessagesKept DEF LInv
<1>16. QED
  BY <1>10, <1>11, <1>12, <1>13, <1>14, <1>15 DEF LInv

(* Steps after which the client table, the descriptors and what poll was     *)
(* asked about are as before, and the program is where it was.               *)
LEMMA InPlace ==
  ASSUME LInv, UNCHANGED <<pc, exit_app, blocked, i, clients, open, poll_fds>>
  PROVE  FdIsSlot' /\ SpareFd' /\ PollRight' /\ PlaceRight'
<1>1. TypeOK'
  BY DEF LInv, FdIsSlot, TypeOK
<1>2. FdIsSlot' /\ SpareFd'
  BY <1>1, TableKept DEF LInv
<1>3. PollRight' /\ PlaceRight'
  BY DEF LInv, PollRight, PlaceRight, ClientEntry, IsClient
<1>4. QED
  BY <1>2, <1>3

(* A connection too many is closed, and the loop goes on.                    *)
LEMMA RejectLInv ==
  ASSUME LInv, Reject
  PROVE  LInv'
<1>1. /\ pc = "event" /\ i <= Len(poll_fds) /\ i = 1 /\ poll_fds[i].revents
      /\ backlog' = Tail(backlog) /\ i' = i + 1
      /\ UNCHANGED <<pc, exit_app, clients, open, poll_fds, blocked, last_was_cr, inbox, sent,
                     unfinished, printed>>
  BY DEF Reject, AtServer, AtEvent, reader, output
<1>2. backlog # <<>> /\ backlog \in Seq(Peer)
  BY <1>1 DEF LInv, BacklogWaits, SeqsOK
<1>3. backlog' \in Seq(Peer)
  BY <1>1, <1>2, HeadTailProperties
<1>4. MAX_ACTIVE_CONNECTIONS \in Nat \ {0} /\ Len(poll_fds) \in Nat
      /\ Len(poll_fds) <= MAX_ACTIVE_CONNECTIONS + 1
  BY ListenerAssumption, SeqBasics DEF LInv, SeqsOK
<1>5. i' = 2 /\ i' \in 1 .. MAX_ACTIVE_CONNECTIONS + 2 /\ i' <= Len(poll_fds) + 1
  BY <1>1, <1>4
<1>6. TypeOK'
  BY <1>1, <1>5 DEF LInv, FdIsSlot, TypeOK
<1>7. FdIsSlot' /\ SpareFd'
  BY <1>1, <1>6, TableKept DEF LInv
<1>8. SeqsOK'
  BY <1>1, <1>3 DEF LInv, SeqsOK
<1>9. PollRight'
  BY <1>1, <1>5 DEF LInv, PollRight, ClientEntry, IsClient
<1>10. BacklogWaits' /\ PlaceRight' /\ LineRight'
  BY <1>1, <1>5 DEF LInv, BacklogWaits, PlaceRight, LineRight, LineFinished
<1>11. RightClient'
  BY <1>1, MessagesKept DEF LInv
<1>12. QED
  BY <1>7, <1>8, <1>9, <1>10, <1>11 DEF LInv

(* What is read is printed under the address of the client that sent it, and *)
(* a line that was begun is remembered as one that has to be ended.          *)
LEMMA RecvLInv ==
  ASSUME LInv, Recv
  PROVE  LInv'
<1>1. i \in 2 .. Len(poll_fds) /\ pc = "read"
  BY DEF LInv, PlaceRight, Recv
<1>2. ClientEntry(i)
  <2>1. i >= i
    BY DEF LInv, FdIsSlot, TypeOK
  <2>2. QED
    BY <1>1, <2>1 DEF LInv, PollRight
<1> PICK p \in Peer : p = open[fd]
  BY <1>2, ClientSlot DEF LInv, ClientEntry, fd
<1>3. clients[client_fd_to_id(fd)].peer = p
  BY <1>2, ClientSlot DEF LInv, ClientEntry, fd
<1> DEFINE all == inbox[p]
           n   == IF Len(all) < Chunk THEN Len(all) ELSE Chunk
           buf == SubSeq(all, 1, n)
           rest == SubSeq(all, n + 1, Len(all))
<1>4. /\ all # <<>>
      /\ inbox' = [inbox EXCEPT ![p] = rest]
      /\ printed' = [printed EXCEPT ![p] = IF p \in Busy THEN printed[p] ELSE printed[p] \o buf]
      /\ unfinished' = (Last(buf) # "newline")
      /\ header_printed' = unfinished' /\ last_was_cr' = ~unfinished'
      /\ UNCHANGED <<pc, exit_app, clients, poll_fds, i, blocked, open, backlog, state, sent>>
  BY <1>3 DEF Recv, Recorded, polling
<1>5. /\ all \in Seq(Byte) /\ printed[p] \in Seq(Byte)
      /\ inbox \in [Peer -> Seq(Byte)] /\ printed \in [Peer -> Seq(Byte)]
  BY DEF LInv, SeqsOK
<1>6. n \in 1 .. Len(all) /\ Len(all) \in Nat
  BY <1>4, <1>5, ListenerAssumption
<1>7. buf \in Seq(Byte) /\ rest \in Seq(Byte) /\ buf \o rest = all
  <2>1. \A k \in 1 .. Len(all) : all[k] \in Byte
    BY <1>5, SeqBasics
  <2>2. buf \in Seq(Byte) /\ rest \in Seq(Byte)
    BY <1>6, <2>1, SubSeqProperties
  <2>3. buf \o rest = all
    BY <1>5, <1>6, ByteConcat, Zenon
  <2>4. QED
    BY <2>2, <2>3
<1>8. printed[p] \o buf \in Seq(Byte)
  BY <1>5, <1>7
<1>9. inbox' \in [Peer -> Seq(Byte)] /\ printed' \in [Peer -> Seq(Byte)]
  BY <1>4, <1>5, <1>7, <1>8
<1>10. FdIsSlot' /\ SpareFd' /\ PollRight' /\ PlaceRight'
  BY <1>4, InPlace
<1>11. SeqsOK'
  BY <1>4, <1>9 DEF LInv, SeqsOK
<1>12. BacklogWaits' /\ LineRight'
  BY <1>1, <1>4 DEF BacklogWaits, LineRight, LineFinished
<1>13. RightClient'
  <2>1. ASSUME NEW q \in Peer \ Busy PROVE printed'[q] \o inbox'[q] = sent[q]
    <3>1. CASE q = p
      <4>1. printed'[p] = printed[p] \o buf /\ inbox'[p] = rest
        BY <1>4, <1>5, <3>1
      <4>2. (printed[p] \o buf) \o rest = printed[p] \o (buf \o rest)
        <5> HIDE DEF all, buf, rest
        <5>1. \A s, t, u \in Seq(Byte) : (s \o t) \o u = s \o (t \o u)
          BY ByteConcat
        <5>2. printed[p] \in Seq(Byte) /\ buf \in Seq(Byte) /\ rest \in Seq(Byte)
          BY <1>5, <1>7
        <5>3. QED
          BY <5>1, <5>2, Zenon
      <4>3. printed[p] \o all = sent[p]
        BY <3>1 DEF LInv, RightClient
      <4>4. QED
        BY <1>7, <3>1, <4>1, <4>2, <4>3
    <3>2. CASE q # p
      <4>1. printed'[q] = printed[q] /\ inbox'[q] = inbox[q]
        BY <1>4, <1>5, <3>2
      <4>2. QED
        BY <4>1 DEF LInv, RightClient
    <3>3. QED
      BY <3>1, <3>2
  <2>2. QED
    BY <1>4, <2>1 DEF RightClient
<1>14. QED
  BY <1>10, <1>11, <1>12, <1>13 DEF LInv

(* A line is not left behind: it is only open when last_was_cr is false.     *)
LEMMA ReadEndsLInv ==
  ASSUME LInv, ReadEnds
  PROVE  LInv'
<1>1. /\ pc = "read" /\ pc' = "event" /\ i' = i + 1
      /\ unfinished' = (unfinished /\ last_was_cr)
      /\ UNCHANGED <<exit_app, clients, open, poll_fds, blocked, last_was_cr, backlog, inbox,
                     sent, printed>>
  BY DEF ReadEnds, reader, network
<1>2. MAX_ACTIVE_CONNECTIONS \in Nat \ {0} /\ Len(poll_fds) \in Nat
      /\ Len(poll_fds) <= MAX_ACTIVE_CONNECTIONS + 1 /\ i \in 2 .. Len(poll_fds)
  BY <1>1, ListenerAssumption, SeqBasics DEF LInv, SeqsOK, PlaceRight
<1>3. i' # 1 /\ i' \in 1 .. MAX_ACTIVE_CONNECTIONS + 2 /\ i' <= Len(poll_fds) + 1
  BY <1>1, <1>2
<1>4. TypeOK'
  BY <1>1, <1>3 DEF LInv, FdIsSlot, TypeOK
<1>5. FdIsSlot' /\ SpareFd'
  BY <1>1, <1>4, TableKept DEF LInv
<1>6. unfinished' = FALSE
  BY <1>1 DEF LInv, LineRight, LineFinished
<1>7. SeqsOK'
  BY <1>1, <1>6 DEF LInv, SeqsOK
<1>8. PollRight'
  <2>1. \A k \in 2 .. Len(poll_fds) : k >= i' => k >= i
    BY <1>1, <1>2
  <2>2. QED
    BY <1>1, <2>1 DEF LInv, PollRight, ClientEntry, IsClient
<1>9. BacklogWaits' /\ PlaceRight' /\ LineRight'
  BY <1>1, <1>3, <1>6 DEF BacklogWaits, PlaceRight, LineRight, LineFinished
<1>10. RightClient'
  BY <1>1, MessagesKept DEF LInv
<1>11. QED
  BY <1>5, <1>7, <1>8, <1>9, <1>10 DEF LInv

(* The peers only add to their own queues.                                   *)
LEMMA PeerLInv ==
  ASSUME LInv, NEW p \in Peer, Connect(p) \/ Send(p) \/ Close(p)
  PROVE  LInv'
<1>1. UNCHANGED <<pc, exit_app, blocked, i, clients, open, poll_fds, last_was_cr,
                  header_printed, unfinished, printed>>
  BY DEF Connect, Send, Close, program, polling, reader, output
<1>2. FdIsSlot' /\ SpareFd' /\ PollRight' /\ PlaceRight'
  BY <1>1, InPlace
<1>3. backlog' \in Seq(Peer) /\ (backlog # <<>> => backlog' # <<>>)
  <2>1. backlog \in Seq(Peer)
    BY DEF LInv, SeqsOK
  <2>2. CASE Connect(p)
    <3>1. backlog' = Append(backlog, p)
      BY <2>2 DEF Connect
    <3>2. /\ Append(backlog, p) \in Seq(Peer)
          /\ Len(Append(backlog, p)) = Len(backlog) + 1 /\ Len(backlog) \in Nat
      BY <2>1
    <3>3. Append(backlog, p) # <<>>
      BY <3>2
    <3>4. QED
      BY <3>1, <3>2, <3>3
  <2>3. CASE Send(p) \/ Close(p)
    BY <2>1, <2>3 DEF Send, Close
  <2>4. QED
    BY <2>2, <2>3
<1>4. /\ inbox' \in [Peer -> Seq(Byte)] /\ sent' \in [Peer -> Seq(Byte)]
      /\ RightClient'
  <2>1. CASE Connect(p) \/ Close(p)
    <3>1. UNCHANGED <<inbox, sent>>
      BY <2>1 DEF Connect, Close
    <3>2. QED
      BY <1>1, <3>1, MessagesKept DEF LInv, SeqsOK
  <2>2. CASE Send(p)
    <3>1. PICK b \in Byte :
            /\ sent' = [sent EXCEPT ![p] = IF p \in Busy THEN sent[p] ELSE sent[p] \o <<b>>]
            /\ inbox' = [inbox EXCEPT ![p] = Append(inbox[p], b)]
      BY <2>2 DEF Send, Recorded
    <3>2. /\ inbox \in [Peer -> Seq(Byte)] /\ sent \in [Peer -> Seq(Byte)]
          /\ printed \in [Peer -> Seq(Byte)]
      BY DEF LInv, SeqsOK
    <3>3. inbox' \in [Peer -> Seq(Byte)] /\ sent' \in [Peer -> Seq(Byte)]
      <4>1. /\ inbox[p] \in Seq(Byte) /\ sent[p] \in Seq(Byte) /\ <<b>> \in Seq(Byte)
        BY <3>2
      <4>2. Append(inbox[p], b) \in Seq(Byte) /\ sent[p] \o <<b>> \in Seq(Byte)
        BY <4>1
      <4>3. QED
        BY <3>1, <3>2, <4>2
    <3>4. ASSUME NEW q \in Peer \ Busy PROVE printed[q] \o inbox'[q] = sent'[q]
      <4>1. printed[q] \o inbox[q] = sent[q]
        BY DEF LInv, RightClient
      <4>2. CASE q = p
        <5>1. inbox'[p] = Append(inbox[p], b) /\ sent'[p] = sent[p] \o <<b>>
          BY <3>1, <3>2, <4>2
        <5>2. printed[p] \in Seq(Byte) /\ inbox[p] \in Seq(Byte)
          BY <3>2
        <5>3. printed[p] \o Append(inbox[p], b) = (printed[p] \o inbox[p]) \o <<b>>
          BY <5>2, ByteConcat, Zenon
        <5>4. QED
          BY <4>1, <4>2, <5>1, <5>3
      <4>3. CASE q # p
        BY <3>1, <3>2, <4>1, <4>3
      <4>4. QED
        BY <4>2, <4>3
    <3>5. QED
      BY <1>1, <3>3, <3>4 DEF RightClient
  <2>3. QED
    BY <2>1, <2>2
<1>5. SeqsOK'
  BY <1>1, <1>3, <1>4 DEF LInv, SeqsOK
<1>6. BacklogWaits' /\ LineRight'
  BY <1>1, <1>3 DEF LInv, BacklogWaits, LineRight, LineFinished
<1>7. QED
  BY <1>2, <1>4, <1>5, <1>6 DEF LInv

LEMMA NextLInv == LInv /\ [Next]_vars => LInv'
<1> SUFFICES ASSUME LInv, [Next]_vars PROVE LInv'
  OBVIOUS
<1>1. CASE Program
  BY <1>1, LoopLInv, PollReturnsLInv, QuietLInv, AcceptLInv, RejectLInv, RecvLInv,
     ReadEndsLInv, ClientGoneLInv DEF Program
<1>2. CASE Signal \/ SignalInterrupts \/ UNCHANGED vars
  BY <1>2, QuietLInv
<1>3. ASSUME NEW p \in Peer, Connect(p) \/ Send(p) \/ Close(p) PROVE LInv'
  BY <1>3, PeerLInv
<1>4. QED
  BY <1>1, <1>2, <1>3 DEF Next

(* The listener's table, its descriptors and its output agree in every state *)
(* it can reach.                                                             *)
THEOREM ListenerInvariant == Spec => []LInv
BY ListenerInit, NextLInv, PTL DEF Spec

(* The table of clients and the descriptors of the process stay in step.     *)
THEOREM TableInStep == Spec => []FdIsSlot
<1>1. LInv => FdIsSlot
  BY DEF LInv
<1>2. QED
  BY <1>1, ListenerInvariant, PTL

(* Nothing a client sends is lost, printed twice or put under another name.  *)
THEOREM EverythingPrinted == Spec => []RightClient
<1>1. LInv => RightClient
  BY DEF LInv
<1>2. QED
  BY <1>1, ListenerInvariant, PTL

(* A line is open only while the client it belongs to is read, and there a   *)
(* header is wanted exactly when none is: between the reads, other clients,  *)
(* connections and the end of the program find the start of a line.          *)
THEOREM LinesFinished == Spec => []LineFinished
<1>1. LInv => LineFinished
  BY DEF LInv, LineRight
<1>2. QED
  BY <1>1, ListenerInvariant, PTL
===============================================================================
