------------------------------ MODULE TcpListener ------------------------------
(***************************************************************************)
(* apps/tcp-listener.c: accepts connections on one port and prints, for    *)
(* each, a line when it is made and when it is closed, and what it sends   *)
(* as lines of text.                                                       *)
(*                                                                         *)
(* The program is one thread; around it the peers connect, send and close, *)
(* and a signal may come at any moment.  A peer is one connection here.    *)
(* The kernel gives every new connection the lowest descriptor that is     *)
(* free.                                                                   *)
(*                                                                         *)
(* Operators whose name begins with Bad are mutated forms of the operator  *)
(* that follows; no specification uses them.                               *)
(***************************************************************************)
EXTENDS FiniteSets, Integers, Sequences, FiniteSetsExt, SequencesExt

CONSTANTS Peer,                     (* the connections of this run         *)
          NoPeer,
          MAX_ACTIVE_CONNECTIONS,   (* slots of the table of clients       *)
          FdLimit,                  (* first descriptor the process cannot *)
                                    (* have: its RLIMIT_NOFILE             *)
          Chunk,                    (* sizeof(buf) in read_client_msg      *)
          MaxBytes,                 (* bound: what one peer sends          *)
          Busy                      (* peers that may send for ever: the   *)
                                    (* bound is on what waits to be read   *)

server_fd == 3                      (* after stdin, stdout and stderr      *)
FirstFd == server_fd + 1

ASSUME ListenerAssumption ==
  /\ MAX_ACTIVE_CONNECTIONS \in Nat \ {0}
  /\ FdLimit \in Nat /\ FdLimit >= FirstFd
  /\ NoPeer \notin Peer
  /\ Chunk \in Nat \ {0} /\ MaxBytes \in Nat /\ Busy \subseteq Peer

Slot == 0 .. MAX_ACTIVE_CONNECTIONS - 1
Fd == FirstFd .. FdLimit

(* "c" stands for any byte that is printed (as itself or as a dot).          *)
Byte == {"c", "newline"}

VARIABLES
  (* the program *)
  pc,          (* "loop", "poll", "event", "read", "stopped" or "failed"   *)
  exit_app,    (* set by the signal handler                                *)
  clients,     (* the table                                                *)
  poll_fds,    (* what poll was asked about, and what it answered          *)
  i,           (* the entry of poll_fds exec_poll_event is at              *)
  header_printed, last_was_cr,   (* locals of read_client_msg               *)
  (* the kernel and the peers *)
  blocked,     (* poll() is waiting                                        *)
  open,        (* per descriptor: the connection it stands for             *)
  backlog,     (* connections not accepted yet                             *)
  inbox,       (* per peer: bytes not read yet                             *)
  state,       (* per peer: "new", "open" or "closed" by it                *)
  (* what is on stdout *)
  unfinished,  (* the last line has no newline yet                         *)
  printed,     (* history, per client: the bytes printed as its messages   *)
  sent         (* history, per peer: the bytes it has sent                 *)
               (* (the histories leave out the busy peers)                 *)

reader == <<header_printed, last_was_cr>>
polling == <<poll_fds, i, blocked>>
network == <<backlog, inbox, state, sent>>
output == <<unfinished, printed>>
vars == <<pc, exit_app, clients, polling, reader, open, network, output>>

Init ==
  /\ pc = "loop" /\ exit_app = FALSE
  /\ clients = [s \in Slot |-> [active |-> FALSE, fd |-> 0, peer |-> NoPeer]]
  /\ poll_fds = <<>> /\ i = 1 /\ blocked = FALSE
  /\ header_printed = FALSE /\ last_was_cr = FALSE
  /\ open = [f \in Fd |-> NoPeer]
  /\ backlog = <<>> /\ inbox = [p \in Peer |-> <<>>]
  /\ state = [p \in Peer |-> "new"] /\ sent = [p \in Peer |-> <<>>]
  /\ unfinished = FALSE /\ printed = [p \in Peer |-> <<>>]

------------------------------------------------------------------------------
(* poll() reports the server socket when a connection waits, a client when   *)
(* it has sent something or has closed.                                      *)
Readable(f) ==
  IF f = server_fd THEN backlog # <<>>
  ELSE open[f] # NoPeer /\ (inbox[open[f]] # <<>> \/ state[open[f]] = "closed")

ActiveSlots == {s \in Slot : clients[s].active}

Bad_fill_poll_fds ==
  <<server_fd>> \o [k \in 1 .. MAX_ACTIVE_CONNECTIONS |-> clients[k - 1].fd]

(* The active slot that an ascending loop over the table meets k-th. *)
NthActive(k) ==
  CHOOSE s \in ActiveSlots : Cardinality({t \in ActiveSlots : t <= s}) = k

(* The server socket first, then the active clients in the order of the table. *)
fill_poll_fds ==
  <<server_fd>> \o [k \in 1 .. Cardinality(ActiveSlots) |-> clients[NthActive(k)].fd]

Bad_client_fd_to_id(f) == i - 2

(* The first slot with that descriptor, active or not. *)
client_fd_to_id(f) == Min({s \in Slot : clients[s].fd = f})

(* The history of p with these bytes. *)
Recorded(history, p, bytes) ==
  [history EXCEPT ![p] = IF p \in Busy THEN @ ELSE @ \o bytes]

(* A record that is printed to its newline. *)
PrintRecord == unfinished' = FALSE

Bad_add_client(f, p) ==
  LET s == Max(Slot \ ActiveSlots)
  IN  clients' = [clients EXCEPT ![s] = [active |-> TRUE, fd |-> f, peer |-> p]]

add_client(f, p) ==
  LET s == Min(Slot \ ActiveSlots)
  IN  clients' = [clients EXCEPT ![s] = [active |-> TRUE, fd |-> f, peer |-> p]]

(* del_client and close. *)
Drop(f) ==
  /\ clients' = [clients EXCEPT ![client_fd_to_id(f)].active = FALSE]
  /\ open' = [open EXCEPT ![f] = NoPeer]
  /\ PrintRecord

------------------------------------------------------------------------------
(* The main loop. *)
Loop ==
  /\ pc = "loop" /\ ~exit_app
  /\ poll_fds' = [k \in 1 .. Len(fill_poll_fds) |-> [fd |-> fill_poll_fds[k], revents |-> FALSE]]
  /\ pc' = "poll"
  /\ UNCHANGED <<exit_app, clients, i, blocked, reader, open, network, output>>

PollBlocks ==
  /\ pc = "poll" /\ ~blocked
  /\ blocked' = TRUE
  /\ UNCHANGED <<pc, exit_app, clients, poll_fds, i, reader, open, network, output>>

(* Something to do, now or after a wait. *)
PollReturns ==
  /\ pc = "poll"
  /\ \E k \in DOMAIN poll_fds : Readable(poll_fds[k].fd)
  /\ poll_fds' = [k \in DOMAIN poll_fds |->
                    [fd |-> poll_fds[k].fd, revents |-> Readable(poll_fds[k].fd)]]
  /\ blocked' = FALSE /\ i' = 1
  /\ pc' = "event"
  /\ UNCHANGED <<exit_app, clients, reader, open, network, output>>

(* A signal that does not find the program waiting, or finds it just woken.  *)
Signal ==
  /\ pc \notin {"stopped", "failed"} /\ ~exit_app
  /\ blocked => \E k \in DOMAIN poll_fds : Readable(poll_fds[k].fd)
  /\ exit_app' = TRUE
  /\ UNCHANGED <<pc, clients, polling, reader, open, network, output>>

(* One that does: poll fails with EINTR and the loop is left. *)
SignalInterrupts ==
  /\ blocked
  /\ exit_app' = TRUE /\ blocked' = FALSE
  /\ pc' = "stopped" /\ PrintRecord
  /\ UNCHANGED <<clients, poll_fds, i, reader, open, network, printed>>

Stop ==
  /\ pc = "loop" /\ exit_app
  /\ pc' = "stopped" /\ PrintRecord
  /\ UNCHANGED <<exit_app, clients, polling, reader, open, network, printed>>

------------------------------------------------------------------------------
(* exec_poll_event, one entry of poll_fds at a time. *)
BadEventsDone ==
  /\ pc = "event" /\ i > Len(poll_fds)
  /\ pc' = "poll"
  /\ UNCHANGED <<exit_app, clients, polling, reader, open, network, output>>

EventsDone ==
  /\ pc = "event" /\ (i > Len(poll_fds) \/ exit_app)
  /\ pc' = "loop"
  /\ UNCHANGED <<exit_app, clients, polling, reader, open, network, output>>

AtEvent == pc = "event" /\ i <= Len(poll_fds) /\ ~exit_app

NoEvent ==
  /\ AtEvent /\ ~poll_fds[i].revents
  /\ i' = i + 1
  /\ UNCHANGED <<pc, exit_app, clients, poll_fds, blocked, reader, open, network, output>>

AtServer == AtEvent /\ i = 1 /\ poll_fds[i].revents
NextFd == Min({f \in Fd : open[f] = NoPeer})

(* accept() finds no free descriptor: the program ends. *)
AcceptFails ==
  /\ AtServer /\ NextFd >= FdLimit
  /\ pc' = "failed"
  /\ UNCHANGED <<exit_app, clients, polling, reader, open, network, output>>

Accept ==
  /\ AtServer /\ NextFd < FdLimit
  /\ ActiveSlots # Slot
  /\ open' = [open EXCEPT ![NextFd] = Head(backlog)]
  /\ add_client(NextFd, Head(backlog))
  /\ PrintRecord
  /\ backlog' = Tail(backlog) /\ i' = i + 1
  /\ UNCHANGED <<pc, exit_app, poll_fds, blocked, reader, inbox, state, sent, printed>>

(* The table is full: the new connection is closed at once, without a word.  *)
Reject ==
  /\ AtServer /\ NextFd < FdLimit
  /\ ActiveSlots = Slot
  /\ state' = [state EXCEPT ![Head(backlog)] = "closed"]
  /\ backlog' = Tail(backlog) /\ i' = i + 1
  /\ UNCHANGED <<pc, exit_app, clients, poll_fds, blocked, reader, open, inbox, sent, output>>

(* read_client_msg is entered: last_was_cr has no value yet. *)
Read ==
  /\ AtEvent /\ i > 1 /\ poll_fds[i].revents
  /\ pc' = "read"
  /\ header_printed' = FALSE
  /\ last_was_cr' \in BOOLEAN
  /\ UNCHANGED <<exit_app, clients, polling, open, network, output>>

------------------------------------------------------------------------------
(* read_client_msg: recv() until nothing is left.                            *)
fd == poll_fds[i].fd

BadRecv ==
  /\ pc = "read" /\ ~exit_app /\ inbox[open[fd]] # <<>>
  /\ LET p   == open[fd]
         n   == IF Len(inbox[p]) < Chunk THEN Len(inbox[p]) ELSE Chunk
         buf == SubSeq(inbox[p], 1, n)
         by  == clients[client_fd_to_id(fd)].peer
     IN  /\ inbox' = [inbox EXCEPT ![p] = SubSeq(@, n + 1, Len(@))]
         /\ printed' = Recorded(printed, by, buf)
         /\ unfinished' = (Last(buf) # "newline")
         /\ header_printed' = unfinished'
         /\ last_was_cr' = (last_was_cr \/ "newline" \in ToSet(buf))
  /\ UNCHANGED <<pc, exit_app, clients, polling, open, backlog, state, sent>>

(* A header starts each line; a newline ends it.                             *)
Recv ==
  /\ pc = "read" /\ ~exit_app /\ inbox[open[fd]] # <<>>
  /\ LET p   == open[fd]
         n   == IF Len(inbox[p]) < Chunk THEN Len(inbox[p]) ELSE Chunk
         buf == SubSeq(inbox[p], 1, n)
         by  == clients[client_fd_to_id(fd)].peer
     IN  /\ inbox' = [inbox EXCEPT ![p] = SubSeq(@, n + 1, Len(@))]
         /\ printed' = Recorded(printed, by, buf)
         /\ unfinished' = (Last(buf) # "newline")
         /\ header_printed' = unfinished'
         /\ last_was_cr' = ~unfinished'
  /\ UNCHANGED <<pc, exit_app, clients, polling, open, backlog, state, sent>>

(* EAGAIN, or the signal has come: the line is ended if it has to be.        *)
ReadEnds ==
  /\ pc = "read"
  /\ exit_app \/ (inbox[open[fd]] = <<>> /\ state[open[fd]] # "closed")
  /\ unfinished' = (unfinished /\ last_was_cr)
  /\ pc' = "event" /\ i' = i + 1
  /\ UNCHANGED <<exit_app, clients, poll_fds, blocked, reader, open, network, printed>>

(* recv() finds the end of the connection, in order or by a reset. *)
ClientGone ==
  /\ pc = "read" /\ ~exit_app
  /\ inbox[open[fd]] = <<>> /\ state[open[fd]] = "closed"
  /\ Drop(fd)
  /\ pc' = "event" /\ i' = i + 1
  /\ UNCHANGED <<exit_app, poll_fds, blocked, reader, network, printed>>

------------------------------------------------------------------------------
(* The peers. *)
program == <<pc, exit_app, clients, polling, reader, open, output>>

Connect(p) ==
  /\ state[p] = "new" /\ pc \notin {"stopped", "failed"}
  /\ state' = [state EXCEPT ![p] = "open"]
  /\ backlog' = Append(backlog, p)
  /\ UNCHANGED <<program, inbox, sent>>

Send(p) ==
  /\ state[p] = "open" /\ Len(IF p \in Busy THEN inbox[p] ELSE sent[p]) < MaxBytes
  /\ \E b \in Byte :
       /\ sent' = Recorded(sent, p, <<b>>)
       /\ inbox' = [inbox EXCEPT ![p] = Append(@, b)]
  /\ UNCHANGED <<program, backlog, state>>

Close(p) ==
  /\ state[p] = "open"
  /\ state' = [state EXCEPT ![p] = "closed"]
  /\ UNCHANGED <<program, backlog, inbox, sent>>

Program ==
  \/ Loop \/ PollBlocks \/ PollReturns \/ Stop \/ EventsDone \/ NoEvent
  \/ AcceptFails \/ Accept \/ Reject \/ Read \/ Recv \/ ReadEnds \/ ClientGone

Next ==
  \/ Program \/ Signal \/ SignalInterrupts
  \/ \E p \in Peer : Connect(p) \/ Send(p) \/ Close(p)

Spec == Init /\ [][Next]_vars
FairSpec == Spec /\ WF_vars(Program)

------------------------------------------------------------------------------
TypeOK ==
  /\ pc \in {"loop", "poll", "event", "read", "stopped", "failed"}
  /\ exit_app \in BOOLEAN /\ blocked \in BOOLEAN
  /\ clients \in [Slot -> [active : BOOLEAN, fd : {0} \cup Fd, peer : Peer \cup {NoPeer}]]
  /\ open \in [Fd -> Peer \cup {NoPeer}]
  /\ i \in 1 .. MAX_ACTIVE_CONNECTIONS + 2
  /\ \A k \in DOMAIN poll_fds : poll_fds[k].fd \in {server_fd} \cup Fd

(* The table and the kernel's descriptors fill up and empty in step: slot s  *)
(* is in use exactly when descriptor FirstFd + s is, for the same            *)
(* connection.  client_fd_to_id looks at unused slots too, and is right      *)
(* because of this.  (The types are part of the invariant.)                  *)
FdIsSlot ==
  /\ TypeOK
  /\ \A s \in Slot :
    /\ clients[s].active <=> FirstFd + s \in Fd /\ open[FirstFd + s] # NoPeer
    /\ clients[s].fd \in {0, FirstFd + s}
    /\ clients[s].active =>
         clients[s].fd = FirstFd + s /\ clients[s].peer = open[FirstFd + s]

(* What a client has sent is what was printed under its address and what     *)
(* is still to be read: nothing is lost, printed twice or mixed up.          *)
RightClient == \A p \in Peer \ Busy : printed[p] \o inbox[p] = sent[p]

(* A line is open only while the client it belongs to is read, although      *)
(* last_was_cr is tested without a value when nothing was received; and the  *)
(* header a client's line begins with is wanted exactly when no line is open.*)
LineFinished == IF pc = "read" THEN header_printed = unfinished ELSE ~unfinished

InTable(p) == \E s \in Slot : clients[s].active /\ clients[s].peer = p

(* Signalled, or out of descriptors.                                        *)
Ended == exit_app \/ pc = "failed"

(* The program stays for ever in one call of read_client_msg, which receives *)
(* until nothing is left, because that client never stops sending.           *)
HeldBy(q) == <>[](pc = "read" /\ open[fd] = q) /\ []<><<Send(q)>>_vars

(* Until the signal, and as long as there are descriptors, every connection  *)
(* is accepted or closed, every client is read, and a client that has closed *)
(* leaves the table.  One client that sends faster than it is read for ever  *)
(* is the only exception: it keeps the program from all the others.          *)
EveryPeerServed ==
  (\E q \in Busy : HeldBy(q)) \/
  \A p \in Peer :
    /\ (p \in ToSet(backlog)) ~> (Ended \/ p \notin ToSet(backlog))
    /\ (InTable(p) /\ inbox[p] # <<>>) ~> (Ended \/ inbox[p] = <<>>)
    /\ (InTable(p) /\ state[p] = "closed") ~> (Ended \/ ~InTable(p))

(* The signal ends the program, unless it comes between the test of exit_app *)
(* and poll(): then at the next connection or message.                       *)
SignalStops ==
  exit_app ~> (pc = "stopped" \/ (blocked /\ \A k \in DOMAIN poll_fds : ~Readable(poll_fds[k].fd)))

===============================================================================
