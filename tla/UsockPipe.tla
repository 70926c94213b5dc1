------------------------------- MODULE UsockPipe -------------------------------
(***************************************************************************)
(* How a test script talks to a program that is already running            *)
(* (tests/inc/cpg-cli-client.sh): each command goes through a process of   *)
(* its own, apps/stdin-to-usock.c, into a socket; at the other end         *)
(* apps/usock-to-stdout.c serves one connection after another and writes   *)
(* what it receives into the pipe, continued by ssh, that is the standard  *)
(* input of the program.  A connection that brings nothing means the end.  *)
(*                                                                         *)
(* A command is its position in the list the script sends, 1, 2, ...       *)
(* Operators whose name begins with Bad are mutated forms of the operator  *)
(* that follows; no specification uses them.                               *)
(***************************************************************************)
EXTENDS Integers, Sequences

CONSTANTS NoCommands,    (* commands the script sends before it stops       *)
          Backlog,       (* connections that can wait for accept()          *)
          MaxDeaths      (* bound: senders that die before they write       *)

ASSUME PipeAssumption ==
  NoCommands \in Nat /\ Backlog \in Nat \ {0} /\ MaxDeaths \in Nat

VARIABLES
  sending,       (* the command the script is at: 0 while it waits for the  *)
                 (* program to start, NoCommands + 1 for the empty one that *)
                 (* asks it to stop, NoCommands + 2 when that is done       *)
  sender,        (* its stdin-to-usock: "none" or "connected"               *)
  delivered,     (* history: the commands whose sender exited with 0        *)
  conns,         (* connections not served to their end, oldest first:      *)
                 (* the commands in them and whether the sender is gone     *)
  adapter,       (* usock-to-stdout: "accept", "read", "ended", "aborted"   *)
  first_input,   (* of read_write_loop                                      *)
  pipe,          (* commands in the pipe                                    *)
  cut,           (* the pipe has no reader any more                         *)
  deaths         (* used up of MaxDeaths                                    *)

script == <<sending, sender, delivered>>
pipeVars == <<script, conns, adapter, first_input, pipe, cut, deaths>>

PipeInit ==
  /\ sending = 0 /\ sender = "none" /\ delivered = {}
  /\ conns = <<>> /\ adapter = "accept" /\ first_input = TRUE
  /\ pipe = <<>> /\ cut = FALSE /\ deaths = 0

AtCommand == sending \in 1 .. NoCommands + 1

(* The last sender has an empty standard input: cpg_cli_client_exit.         *)
Input(k) == IF k <= NoCommands THEN <<k>> ELSE <<>>

AdapterGone == adapter \in {"ended", "aborted"}

(* While the adapter is in read_write_loop the first connection is taken.    *)
Queued == IF adapter = "read" THEN Len(conns) - 1 ELSE Len(conns)

(* A script that is told of a failure goes on (in a command substitution) or *)
(* stops, and then only asks the program to stop.                            *)
GoOnAfterFailure == sending' \in {sending + 1, NoCommands + 1} \ {sending}

------------------------------------------------------------------------------
(* stdin-to-usock. *)
Connect ==
  /\ sender = "none" /\ AtCommand
  /\ ~AdapterGone /\ Queued < Backlog
  /\ conns' = Append(conns, [data |-> <<>>, closed |-> FALSE])
  /\ sender' = "connected"
  /\ UNCHANGED <<sending, delivered, adapter, first_input, pipe, cut, deaths>>

(* There is no socket any more, or it is closed before everything is sent.   *)
SenderFails ==
  /\ AtCommand /\ AdapterGone
  /\ sender' = "none" /\ GoOnAfterFailure
  /\ UNCHANGED <<delivered, conns, adapter, first_input, pipe, cut, deaths>>

Close(data) ==
  conns' = [conns EXCEPT ![Len(conns)] = [data |-> data, closed |-> TRUE]]

(* The sender writes what it has, ends with 0, and the script goes on.       *)
SendAll ==
  /\ sender = "connected" /\ ~AdapterGone
  /\ Close(Input(sending))
  /\ delivered' = delivered \cup {sending}
  /\ sending' = sending + 1 /\ sender' = "none"
  /\ UNCHANGED <<adapter, first_input, pipe, cut, deaths>>

(* A sender that is killed before it writes. *)
SenderDies ==
  /\ sender = "connected" /\ ~AdapterGone /\ deaths < MaxDeaths
  /\ Close(<<>>)
  /\ deaths' = deaths + 1
  /\ sender' = "none" /\ GoOnAfterFailure
  /\ UNCHANGED <<delivered, adapter, first_input, pipe, cut>>

------------------------------------------------------------------------------
(* usock-to-stdout. *)
Accept ==
  /\ adapter = "accept" /\ conns # <<>>
  /\ adapter' = "read" /\ first_input' = TRUE
  /\ UNCHANGED <<script, conns, pipe, cut, deaths>>

BadRecv ==
  /\ adapter = "read" /\ Head(conns).data # <<>>
  /\ IF cut THEN adapter' = "aborted" /\ conns' = <<>> /\ UNCHANGED <<first_input, pipe>>
     ELSE /\ pipe' = pipe \o Head(conns).data
          /\ conns' = [conns EXCEPT ![1].data = <<>>]
          /\ UNCHANGED <<first_input, adapter>>
  /\ UNCHANGED <<script, cut, deaths>>

(* recv() and fwrite(); without a reader the write fails and the assertion   *)
(* around it ends the adapter, and with it the connections that wait.        *)
Recv ==
  /\ adapter = "read" /\ Head(conns).data # <<>>
  /\ IF cut THEN adapter' = "aborted" /\ conns' = <<>> /\ UNCHANGED <<first_input, pipe>>
     ELSE /\ pipe' = pipe \o Head(conns).data
          /\ conns' = [conns EXCEPT ![1].data = <<>>]
          /\ first_input' = FALSE /\ UNCHANGED adapter
  /\ UNCHANGED <<script, cut, deaths>>

BadConnectionEnds ==
  /\ adapter = "read" /\ Head(conns) = [data |-> <<>>, closed |-> TRUE]
  /\ adapter' = "accept" /\ conns' = Tail(conns)
  /\ UNCHANGED <<script, first_input, pipe, cut, deaths>>

(* recv() returns 0.  After a connection that brought nothing main() returns *)
(* and the connections that wait are lost with the socket.                   *)
ConnectionEnds ==
  /\ adapter = "read" /\ Head(conns) = [data |-> <<>>, closed |-> TRUE]
  /\ IF first_input THEN adapter' = "ended" /\ conns' = <<>>
                    ELSE adapter' = "accept" /\ conns' = Tail(conns)
  /\ UNCHANGED <<script, first_input, pipe, cut, deaths>>

(* The ssh that carries the pipe ends, with a part of what is in it.         *)
CutOff ==
  /\ ~cut /\ cut' = TRUE
  /\ \E n \in 0 .. Len(pipe) : pipe' = SubSeq(pipe, 1, n)
  /\ UNCHANGED <<script, conns, adapter, first_input, deaths>>

ScriptStep == Connect \/ SenderFails \/ SendAll \/ SenderDies
AdapterStep == Accept \/ Recv \/ ConnectionEnds

(* What the reader of the pipe sees. *)
EndOfInput == (AdapterGone \/ cut) /\ pipe = <<>>
================================================================================
