----------------------------- MODULE CpgCliClient -----------------------------
(***************************************************************************)
(* apps/cpg-cli-client.c: a member of a CPG group that carries out         *)
(* commands from its standard input.  One loop polls the group and the     *)
(* input; while a burst is sent or a sync is awaited, only the group.      *)
(* The input is the pipe of UsockPipe; another member of the group sends   *)
(* messages of its own.  What is sent is delivered to every member.        *)
(*                                                                         *)
(* A message is its kind and its sequence number.  Operators whose name    *)
(* begins with Bad are mutated forms of the operator that follows; no      *)
(* specification uses them.                                                *)
(***************************************************************************)
EXTENDS CpgGroup, UsockPipe, FiniteSets, SequencesExt

CONSTANTS Me, Other,     (* the client, and the other member               *)
          Scripts,       (* what the script may send: sequences of         *)
                         (* NoCommands members of Command                  *)
          DefaultSync,   (* 0xFFEEDDCC                                     *)
          OtherNumbers,  (* the numbers in messages of the other member    *)
          MaxOther,      (* bound: messages of the other member            *)
          MaxFaults      (* bound: calls that fail, damaged messages       *)

(* The name of a command and the numbers that follow it, as many as the line *)
(* has.                                                                      *)
Command == [op : {"exit", "sendstr", "sendrand", "sendrandburst", "sync", "listmem",
                  "unknown"},
            args : Seq(Nat)]

ASSUME ClientAssumption ==
  /\ Me # Other /\ Process = {Me, Other}
  /\ \A s \in Scripts : s \in Seq(Command) /\ Len(s) = NoCommands
  /\ DefaultSync \in Nat /\ OtherNumbers \subseteq Nat
  /\ MaxOther \in Nat /\ MaxFaults \in Nat

VARIABLES
  commands,        (* what the script sends                                *)
  pc,              (* where main() is, or how it ended                     *)
  ready,           (* the descriptors with POLLIN or POLLHUP in revents    *)
  buffer,          (* of stdin: lines read from the pipe, not yet returned *)
  executed,        (* history: the commands fgets returned                 *)
  wait_for_msg, wait_for_msg_seqno,
  send_rand_msgs_burst_count, send_rand_msg_seq_no, send_rand_msg_max_msg_len,
  asked,           (* used up of MaxOther                                  *)
  faults           (* used up of MaxFaults                                 *)

sync == <<wait_for_msg, wait_for_msg_seqno>>
burst == <<send_rand_msgs_burst_count, send_rand_msg_seq_no, send_rand_msg_max_msg_len>>
input == <<buffer, executed>>
vars == <<commands, cpgVars, pipeVars, pc, ready, input, sync, burst, asked, faults>>

Init ==
  /\ CpgInit /\ PipeInit
  /\ commands \in Scripts
  /\ pc = "join" /\ ready = {} /\ buffer = <<>> /\ executed = <<>>
  /\ wait_for_msg = 0 /\ wait_for_msg_seqno = 0
  /\ send_rand_msgs_burst_count = 0 /\ send_rand_msg_seq_no = 0
  /\ send_rand_msg_max_msg_len = 0
  /\ asked = 0 /\ faults = 0

Ended == {"eof", "exit", "failed", "crashed"}

Fault == faults < MaxFaults /\ faults' = faults + 1
Str == [kind |-> "STR", seq_no |-> 0]
Rand(n) == [kind |-> "RAND", seq_no |-> n]
Send(body) == Ask(Me, MsgRequest([sender |-> Me, body |-> body]))

(* A process that ends is taken out of the group by the daemon. *)
Exit(how) == pc' = how /\ ready' = {} /\ Ask(Me, LeaveRequest)

------------------------------------------------------------------------------
Join ==
  /\ pc = "join"
  /\ Ask(Me, JoinRequest)
  /\ pc' = "poll"
  /\ UNCHANGED <<commands, log, members, cursor, pipeVars, ready, input, sync, burst,
                 asked, faults>>

StartupFails ==
  /\ pc = "join" /\ Fault
  /\ pc' = "failed"
  /\ UNCHANGED <<commands, cpgVars, pipeVars, ready, input, sync, burst, asked>>

Blocked == wait_for_msg = 1 \/ send_rand_msgs_burst_count > 0
StdinReadable == pipe # <<>> \/ EndOfInput

BadPoll ==
  /\ pc = "poll"
  /\ ready' = {f \in {"group", "stdin"} :
                 (f = "group" /\ Readable(Me)) \/ (f = "stdin" /\ StdinReadable)}
  /\ ready' # {}
  /\ pc' = "group"
  /\ UNCHANGED <<commands, cpgVars, pipeVars, input, sync, burst, asked, faults>>

(* poll() has no timeout, and does not know of the lines in the buffer.      *)
Poll ==
  /\ pc = "poll"
  /\ ready' = {f \in {"group", "stdin"} :
                 \/ f = "group" /\ Readable(Me)
                 \/ f = "stdin" /\ ~Blocked /\ StdinReadable}
  /\ ready' # {}
  /\ pc' = "group"
  /\ UNCHANGED <<commands, cpgVars, pipeVars, input, sync, burst, asked, faults>>

(* poll() fails, or cpg_dispatch with something else than CS_ERR_TRY_AGAIN.  *)
LoopFails ==
  /\ pc = "poll" \/ (pc = "group" /\ "group" \in ready)
  /\ Fault /\ Exit("failed")
  /\ UNCHANGED <<commands, log, members, cursor, pipeVars, input, sync, burst, asked>>

BadDeliverCallbackAny(events) ==
  IF wait_for_msg = 1 /\ \E e \in events : e.type = "msg" /\ e.msg.body.kind = "RAND"
  THEN wait_for_msg' = 0 /\ wait_for_msg_seqno' = 0
  ELSE UNCHANGED sync

Ends(e) == e.type = "msg" /\ e.msg.body = Rand(wait_for_msg_seqno)

(* What the callback does with some events: any member's random message with *)
(* that number ends the sync; the rest is only printed.                      *)
DeliverCallback(events) ==
  IF \E e \in events : Ends(e)
  THEN wait_for_msg' = 0 /\ wait_for_msg_seqno' = 0
  ELSE UNCHANGED sync

Events(p, n) == {log[k] : k \in cursor[p] + 1 .. n}
GoOn == pc' = IF "stdin" \in ready THEN "stdin" ELSE "burst"

(* cpg_dispatch with CS_DISPATCH_ALL: everything that has come so far.       *)
Dispatch ==
  /\ pc = "group"
  /\ IF "group" \in ready
     THEN /\ cursor' = [cursor EXCEPT ![Me] = Len(log)]
          /\ DeliverCallback(Events(Me, Len(log)))
     ELSE UNCHANGED <<cursor, sync>>
  /\ GoOn
  /\ UNCHANGED <<commands, log, pend, members, pipeVars, ready, input, burst, asked, faults>>

(* The length or the checksum of one message is wrong: exit(2).              *)
DispatchDamaged ==
  /\ pc = "group" /\ "group" \in ready
  /\ \E n \in cursor[Me] + 1 .. Len(log) :
       /\ log[n].type = "msg"
       /\ cursor' = [cursor EXCEPT ![Me] = n]
       /\ DeliverCallback(Events(Me, n))
  /\ Fault /\ Exit("failed")
  /\ UNCHANGED <<commands, log, members, pipeVars, input, burst, asked>>

(* CS_ERR_TRY_AGAIN is ignored. *)
DispatchRefused ==
  /\ pc = "group" /\ "group" \in ready /\ Fault
  /\ GoOn
  /\ UNCHANGED <<commands, cpgVars, pipeVars, ready, input, sync, burst, asked>>

------------------------------------------------------------------------------
(* process_cli_cmd *)

(* fgets returns the next line: from the buffer, which it fills with all     *)
(* that is in the pipe when it is empty.                                     *)
Incoming == IF buffer # <<>> THEN buffer ELSE pipe
Line == commands[Head(Incoming)]

Fgets ==
  /\ buffer' = Tail(Incoming)
  /\ pipe' = IF buffer # <<>> THEN pipe ELSE <<>>
  /\ executed' = Append(executed, Head(Incoming))
  /\ UNCHANGED <<script, conns, adapter, first_input, cut, deaths>>

Read(op) == pc = "stdin" /\ Incoming # <<>> /\ Line.op = op

BadCommandDone == pc' = "poll" /\ ready' = {}
CommandDone == pc' = "burst" /\ UNCHANGED ready

EndOfFile ==
  /\ pc = "stdin" /\ Incoming = <<>>
  /\ Exit("eof")
  /\ UNCHANGED <<commands, log, members, cursor, pipeVars, input, sync, burst, asked, faults>>

CommandExit ==
  /\ Read("exit") /\ Fgets /\ Exit("exit")
  /\ UNCHANGED <<commands, log, members, cursor, sync, burst, asked, faults>>

CommandSendstr ==
  /\ Read("sendstr") /\ Fgets /\ CommandDone
  /\ Send(Str)
  /\ UNCHANGED <<commands, log, members, cursor, sync, burst, asked, faults>>

(* Too few numbers, or max_msg_len < 3: a message and nothing sent.          *)
RandRefused(c) == Len(c.args) < 2 \/ c.args[2] < 3

CommandSendrand ==
  /\ Read("sendrand") /\ Fgets /\ CommandDone
  /\ IF RandRefused(Line) THEN UNCHANGED pend ELSE Send(Rand(Line.args[1]))
  /\ UNCHANGED <<commands, log, members, cursor, sync, burst, asked, faults>>

Arg(n, old) == IF Len(Line.args) >= n THEN Line.args[n] ELSE old

(* Each number is stored before the next one is looked for: a line that is   *)
(* refused has set those before the fault.                                   *)
CommandSendrandburst ==
  /\ Read("sendrandburst") /\ Fgets /\ CommandDone
  /\ send_rand_msgs_burst_count' = Arg(1, send_rand_msgs_burst_count)
  /\ send_rand_msg_seq_no' = Arg(2, send_rand_msg_seq_no)
  /\ send_rand_msg_max_msg_len' = Arg(3, send_rand_msg_max_msg_len)
  /\ UNCHANGED <<commands, cpgVars, sync, asked, faults>>

SyncNumber(c) == IF c.args = <<>> THEN DefaultSync ELSE c.args[1]

CommandSync ==
  /\ Read("sync") /\ Fgets /\ CommandDone
  /\ wait_for_msg_seqno' = SyncNumber(Line)
  /\ Send(Rand(SyncNumber(Line)))
  /\ wait_for_msg' = 1
  /\ UNCHANGED <<commands, log, members, cursor, burst, asked, faults>>

(* listmem prints the members; an unknown command is only reported.          *)
CommandPrints ==
  /\ (Read("listmem") \/ Read("unknown")) /\ Fgets /\ CommandDone
  /\ UNCHANGED <<commands, cpgVars, sync, burst, asked, faults>>

(* cpg_mcast_joined or cpg_iteration_* fails: errx(1).                       *)
CommandFails ==
  /\ \/ \E op \in {"sendstr", "sync", "listmem"} : Read(op)
     \/ Read("sendrand") /\ ~RandRefused(Line)
  /\ Fault /\ Fgets /\ Exit("failed")
  /\ UNCHANGED <<commands, log, members, cursor, sync, burst, asked>>

------------------------------------------------------------------------------
BackToPoll == pc' = "poll" /\ ready' = {}

BurstNothing ==
  /\ pc = "burst" /\ send_rand_msgs_burst_count = 0
  /\ BackToPoll
  /\ UNCHANGED <<commands, cpgVars, pipeVars, input, sync, burst, asked, faults>>

(* One message for each round of the loop. *)
BurstSend ==
  /\ pc = "burst" /\ send_rand_msgs_burst_count > 0 /\ send_rand_msg_max_msg_len > 0
  /\ send_rand_msgs_burst_count' = send_rand_msgs_burst_count - 1
  /\ Send(Rand(send_rand_msg_seq_no))
  /\ send_rand_msg_seq_no' = send_rand_msg_seq_no + 1
  /\ BackToPoll
  /\ UNCHANGED <<commands, log, members, cursor, pipeVars, input, sync,
                 send_rand_msg_max_msg_len, asked, faults>>

(* rand() % 0 in send_msg. *)
BurstCrash ==
  /\ pc = "burst" /\ send_rand_msgs_burst_count > 0 /\ send_rand_msg_max_msg_len = 0
  /\ send_rand_msgs_burst_count' = send_rand_msgs_burst_count - 1
  /\ Exit("crashed")
  /\ UNCHANGED <<commands, log, members, cursor, pipeVars, input, sync,
                 send_rand_msg_seq_no, send_rand_msg_max_msg_len, asked, faults>>

(* cpg_mcast_joined fails: errx(1). *)
BurstFails ==
  /\ pc = "burst" /\ send_rand_msgs_burst_count > 0 /\ send_rand_msg_max_msg_len > 0
  /\ Fault /\ Exit("failed")
  /\ send_rand_msgs_burst_count' = send_rand_msgs_burst_count - 1
  /\ UNCHANGED <<commands, log, members, cursor, pipeVars, input, sync,
                 send_rand_msg_seq_no, send_rand_msg_max_msg_len, asked>>

------------------------------------------------------------------------------
(* cpg_cli_client_wait_for_start: the log of the client has a configuration  *)
(* change, or 40 looks did not find one.                                     *)
Started == \E k \in 1 .. cursor[Me] : log[k].type = "confchg" /\ Me \in log[k].members

ScriptStarts ==
  /\ sending = 0
  /\ sending' \in (IF Started THEN {1, NoCommands + 1} ELSE {NoCommands + 1})
  /\ UNCHANGED <<sender, delivered, conns, adapter, first_input, pipe, cut, deaths>>

(* The script has asked the client to stop and kills its ssh at once, or the *)
(* client has ended and the ssh with it.                                     *)
SshEnds == (sending = NoCommands + 2 \/ pc \in Ended) /\ CutOff

OtherAsks ==
  /\ asked < MaxOther /\ asked' = asked + 1
  /\ \E n \in OtherNumbers : Ask(Other, MsgRequest([sender |-> Other, body |-> Rand(n)]))
  /\ UNCHANGED <<commands, log, members, cursor, pipeVars, pc, ready, input, sync, burst, faults>>

PipeStep ==
  /\ ScriptStep \/ AdapterStep \/ ScriptStarts \/ SshEnds
  /\ UNCHANGED <<commands, cpgVars, pc, ready, input, sync, burst, asked, faults>>

DaemonOrders(p) ==
  /\ Order(p)
  /\ UNCHANGED <<commands, pipeVars, pc, ready, input, sync, burst, asked, faults>>

MainStep ==
  \/ Join \/ Poll \/ Dispatch
  \/ EndOfFile \/ CommandExit \/ CommandSendstr \/ CommandSendrand
  \/ CommandSendrandburst \/ CommandSync \/ CommandPrints
  \/ BurstNothing \/ BurstSend \/ BurstCrash

Trouble ==
  \/ StartupFails \/ LoopFails \/ DispatchDamaged \/ DispatchRefused
  \/ CommandFails \/ BurstFails

Next ==
  \/ MainStep \/ Trouble \/ OtherAsks \/ PipeStep
  \/ \E p \in Process : DaemonOrders(p)

AdapterMoves ==
  /\ AdapterStep
  /\ UNCHANGED <<commands, cpgVars, pc, ready, input, sync, burst, asked, faults>>

(* The client and the adapter run, and the daemon orders what it is asked;   *)
(* the script, the other member and ssh need not do anything.                *)
Fairness ==
  /\ WF_vars(MainStep) /\ WF_vars(AdapterMoves)
  /\ \A p \in Process : WF_vars(DaemonOrders(p))

Spec == Init /\ [][Next]_vars
FairSpec == Spec /\ Fairness
------------------------------------------------------------------------------
TypeOK ==
  /\ pc \in {"join", "poll", "group", "stdin", "burst"} \cup Ended
  /\ ready \subseteq {"group", "stdin"}
  /\ wait_for_msg \in {0, 1} /\ wait_for_msg_seqno \in Nat
  /\ send_rand_msgs_burst_count \in Nat /\ send_rand_msg_seq_no \in Nat
  /\ send_rand_msg_max_msg_len \in Nat
  /\ adapter \in {"accept", "read", "ended", "aborted"}
  /\ Len(conns) <= Backlog + 1
  /\ \A p \in Process : cursor[p] \in -1 .. Len(log)

(* Every command, wherever it is between the script and fgets.               *)
OnTheWay == executed \o buffer \o pipe \o FlattenSeq([c \in 1 .. Len(conns) |-> conns[c].data])

(* The client carries out the commands in the order in which the script sent *)
(* them, each at most once; and as long as no sender died before it wrote,   *)
(* ssh still carries the pipe and the client has not failed or been told to  *)
(* exit, no command whose sender ended with 0 is missing, not even when the  *)
(* client ends because its input ended.  (The types are part of the          *)
(* invariant.)                                                               *)
CommandsInOrder ==
  /\ TypeOK
  /\ \A j, k \in 1 .. Len(OnTheWay) : j < k => OnTheWay[j] < OnTheWay[k]
  /\ (deaths = 0 /\ ~cut /\ pc \notin Ended \ {"eof"}) =>
       delivered \ {NoCommands + 1} \subseteq ToSet(OnTheWay)

(* What a command stands for in the group. *)
Expansion(c) ==
  CASE c.op = "sendstr" -> <<Str>>
    [] c.op = "sendrand" /\ ~RandRefused(c) -> <<Rand(c.args[1])>>
    [] c.op = "sync" -> <<Rand(SyncNumber(c))>>
    [] c.op = "sendrandburst" /\ Len(c.args) = 3 ->
         [k \in 1 .. c.args[1] |-> Rand(c.args[2] + k - 1)]
    [] OTHER -> <<>>

Sent(upTo) == FlattenSeq([k \in 1 .. upTo |-> Expansion(commands[executed[k]])])
Refused(c) == c.op = "sendrandburst" /\ (Len(c.args) < 3 \/ c.args[3] < 3)

Mine(entry) == entry.type = "msg" /\ entry.msg.sender = Me
Bodies(s) == [k \in 1 .. Len(s) |-> s[k].msg.body]
Requests == SelectSeq(log \o pend[Me], Mine)

(* The messages of the client reach the group, in whatever order its         *)
(* commands arrived during bursts and syncs, as if each command had been     *)
(* carried out to its end before the next one: bursts are never mixed with   *)
(* other messages, nothing is sent twice or left out.  A burst the client    *)
(* refuses with an error message is not covered: it is sent nevertheless.    *)
StreamAsCommanded ==
  (pc \notin Ended /\ \A k \in ToSet(executed) : ~Refused(commands[k])) =>
    Bodies(Requests) =
      LET all == Sent(Len(executed))
      IN  SubSeq(all, 1, Len(all) - send_rand_msgs_burst_count)

(* A command that is refused with an error message ("sendrand expects ...")  *)
(* sends nothing: with it as the last command, the group has been asked to   *)
(* carry no more than what the commands before it stand for.                 *)
RefusedSendsNothing ==
  \A k \in DOMAIN executed :
    (k = Len(executed) /\ Refused(commands[executed[k]])) =>
      Len(Requests) <= Len(Sent(k - 1))

Arrived == SelectSeq(SubSeq(log, 1, cursor[Me]), Mine)

(* A sync is a barrier: when the next command is read, every message that    *)
(* the client sent before the sync has been delivered to it, if nobody else  *)
(* uses the number of the sync.                                              *)
SyncIsBarrier ==
  \A k \in DOMAIN executed :
    LET c == commands[executed[k]]
        number == SyncNumber(c)
    IN  ( /\ c.op = "sync" /\ k < Len(executed) /\ number \notin OtherNumbers
          /\ \A j \in 1 .. k : ~Refused(commands[executed[j]])
          /\ \A j \in 1 .. Len(Sent(k)) - 1 : Sent(k)[j] # Rand(number) )
        => Len(Arrived) >= Len(Sent(k))

(* Whatever the other member does, the client comes back to its input: a     *)
(* burst is sent to its end though poll() then waits for the group alone,    *)
(* and a sync ends.                                                          *)
NeverBlockedForever == Blocked ~> (~Blocked \/ pc \in Ended)

(* The empty connection of cpg_cli_client_exit ends the client, whatever     *)
(* burst or sync it is in and however many lines wait in the buffer of stdin *)
(* (that these are carried out first is in CommandsInOrder).                 *)
ExitIsHeard == (NoCommands + 1 \in delivered) ~> (pc \in Ended)
===============================================================================
