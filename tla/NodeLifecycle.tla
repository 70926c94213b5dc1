----------------------------- MODULE NodeLifecycle -----------------------------
(***************************************************************************)
(* tests/inc/common.sh: what every test does to the nodes.  It puts the    *)
(* nodes' own corosync.conf aside, writes one of its own and starts the    *)
(* daemon; its exit trap stops the daemons and puts the file back.  Tests  *)
(* follow one another on the same nodes, and what one leaves the next      *)
(* finds.                                                                  *)
(*                                                                         *)
(* Any command on a node goes through ssh and can fail.  The script can be *)
(* killed at any point, and its alarm, an asynchronous process, sends it   *)
(* SIGALRM when it takes too long: bash then runs the trap, and a second   *)
(* SIGALRM ends the trap too.                                              *)
(*                                                                         *)
(* Operators whose name begins with Bad are mutated forms of the operator  *)
(* that follows; no specification uses them.                               *)
(***************************************************************************)
EXTENDS FiniteSets, Integers

CONSTANTS Nodes,         (* $nodes_ip: 1 .. Nodes                          *)
          MaxRetries     (* looks of start_corosync_wait_for_start, 20     *)

ASSUME NodesAssumption == Nodes \in Nat \ {0} /\ MaxRetries \in Nat \ {0}

Node == 1 .. Nodes

VARIABLES
  (* the test: where it is, on which node, and its no_retries *)
  pc, node, no_retries,
  alarm,     (* "sleeping" for test_max_runtime, "ringing" or "gone"       *)
  (* per node *)
  conf,      (* corosync.conf: "none", "original" or "generated"           *)
  bck,       (* corosync.conf.bck, likewise                                *)
  daemon,    (* "down", "starting", "up" or "hung"                         *)
  pidfile,   (* there is a /var/run/corosync.pid                           *)
  (* history *)
  misread,   (* per node: a probe of configure_corosync has failed         *)
  clean      (* this test's trap has met no failure and no slow daemon     *)

place == <<pc, node, no_retries>>
files == <<conf, bck>>
daemons == <<daemon, pidfile>>
history == <<misread, clean>>
vars == <<place, alarm, files, daemons, history>>

Running == {"configure", "back_up", "generate", "start", "wait", "body"}
Trapped == {"trap", "trap_stop", "trap_restore", "trap_end"}

Init ==
  /\ pc = "configure" /\ node = 1 /\ no_retries = 0 /\ alarm = "sleeping"
  /\ conf = [n \in Node |-> "original"] /\ bck = [n \in Node |-> "none"]
  /\ daemon = [n \in Node |-> "down"] /\ pidfile = [n \in Node |-> FALSE]
  /\ misread = [n \in Node |-> FALSE] /\ clean = TRUE

Goto(where) == pc' = where /\ UNCHANGED <<node, no_retries>>

(* set -e: a command that fails takes the test to its trap. *)
Fail == Goto("trap")

------------------------------------------------------------------------------
(* configure_corosync, first its two probes.  One that fails says that the   *)
(* file is not there.                                                        *)
Probe(n, there) == {there, FALSE}

BadConfigure ==
  /\ pc = "configure"
  /\ \E seen \in Probe(node, conf[node] # "none") :
       /\ misread' = [misread EXCEPT ![node] = @ \/ seen # (conf[node] # "none")]
       /\ Goto(IF seen THEN "back_up" ELSE "generate")
  /\ UNCHANGED <<alarm, files, daemons, clean>>

Configure ==
  /\ pc = "configure"
  /\ \E seen \in Probe(node, conf[node] # "none"), kept \in Probe(node, bck[node] # "none") :
       /\ misread' = [misread EXCEPT ![node] =
                        @ \/ seen # (conf[node] # "none") \/ kept # (bck[node] # "none")]
       /\ Goto(IF seen /\ ~kept THEN "back_up" ELSE "generate")
  /\ UNCHANGED <<alarm, files, daemons, clean>>

BackUp ==
  /\ pc = "back_up"
  /\ \/ /\ bck' = [bck EXCEPT ![node] = conf[node]]
        /\ conf' = [conf EXCEPT ![node] = "none"]
        /\ Goto("generate")
     \/ Fail /\ UNCHANGED files
  /\ UNCHANGED <<alarm, daemons, history>>

(* A failure may leave a part of the new file. *)
generate_corosync_conf ==
  /\ pc = "generate"
  /\ \/ conf' = [conf EXCEPT ![node] = "generated"] /\ (Goto("start") \/ Fail)
     \/ Fail /\ UNCHANGED conf
  /\ UNCHANGED <<alarm, bck, daemons, history>>

(* A daemon that is there already stays; whether corosync then says so       *)
(* depends on how far it got.                                                *)
start_corosync ==
  /\ pc = "start"
  /\ \/ /\ daemon' = [daemon EXCEPT ![node] = IF @ = "down" THEN "starting" ELSE @]
        /\ pc' = "wait" /\ no_retries' = 0 /\ UNCHANGED node
     \/ Fail /\ UNCHANGED daemon
  /\ UNCHANGED <<alarm, files, pidfile, history>>

Started ==
  IF node < Nodes
  THEN pc' = "configure" /\ node' = node + 1 /\ UNCHANGED no_retries
  ELSE Goto("body")

(* start_corosync_wait_for_start: one look more than the retries, and the    *)
(* number of retries alone decides.                                          *)
WaitForStart ==
  /\ pc = "wait"
  /\ \/ daemon[node] = "up" /\ (IF no_retries < MaxRetries THEN Started ELSE Fail)
     \/ IF no_retries < MaxRetries
        THEN no_retries' = no_retries + 1 /\ UNCHANGED <<pc, node>>
        ELSE Fail
  /\ UNCHANGED <<alarm, files, daemons, history>>

BadBodyStops ==
  /\ pc = "body"
  /\ \E n \in Node : daemon[n] = "up" /\ daemon' = [daemon EXCEPT ![n] = "down"]
  /\ alarm' = "gone"
  /\ UNCHANGED <<place, pidfile, files, history>>

(* What tests do with a daemon: stop_corosync, and kill_corosync, which      *)
(* leaves the pid file.                                                      *)
BodyStops ==
  /\ pc = "body"
  /\ \E n \in Node :
       /\ daemon[n] = "up"
       /\ daemon' = [daemon EXCEPT ![n] = "down"]
       /\ pidfile' \in {pidfile, [pidfile EXCEPT ![n] = FALSE]}
  /\ UNCHANGED <<place, alarm, files, history>>

(* exit, or a command that fails. *)
BodyEnds ==
  /\ pc = "body" /\ Fail
  /\ UNCHANGED <<alarm, files, daemons, history>>

------------------------------------------------------------------------------
(* exit_trap.  SIGINT does not reach the alarm, which is asynchronous; pkill *)
(* ends its sleep, and with the first sleep it ends itself.                  *)
TrapStart ==
  /\ pc = "trap"
  /\ alarm' = IF alarm = "sleeping" THEN "gone" ELSE alarm
  /\ pc' = "trap_stop" /\ node' = 1 /\ clean' = TRUE
  /\ UNCHANGED <<no_retries, files, daemons, misread>>

(* stop_corosync || kill_corosync || true, when there is a pid file, which a *)
(* daemon that was killed leaves behind.  No pid file is found for a daemon  *)
(* that is starting, and when the probe fails; the rest may fail as well.    *)
TrapStop ==
  /\ pc = "trap_stop"
  /\ \/ /\ pidfile[node]
        /\ daemon' = [daemon EXCEPT ![node] = "down"]
        /\ pidfile' \in {pidfile, [pidfile EXCEPT ![node] = FALSE]}
        /\ UNCHANGED clean
     \/ /\ UNCHANGED daemons
        /\ clean' = (clean /\ daemon[node] = "down")
  /\ Goto("trap_restore")
  /\ UNCHANGED <<alarm, files, misread>>

BadNextNode ==
  IF node + 1 < Nodes
  THEN pc' = "trap_stop" /\ node' = node + 1 /\ UNCHANGED no_retries
  ELSE Goto("trap_end")

NextNode ==
  IF node < Nodes
  THEN pc' = "trap_stop" /\ node' = node + 1 /\ UNCHANGED no_retries
  ELSE Goto("trap_end")

(* The file is put back when there is one, if neither the probe nor the mv    *)
(* fails.  Then what else the test used on the node is stopped; a failure of  *)
(* that or of the mv ends the trap there.                                     *)
TrapRestore ==
  /\ pc = "trap_restore"
  /\ \/ /\ bck[node] # "none"
        /\ conf' = [conf EXCEPT ![node] = bck[node]] /\ bck' = [bck EXCEPT ![node] = "none"]
     \/ UNCHANGED files
  /\ \/ NextNode /\ clean' = (clean /\ bck'[node] = "none")
     \/ Goto("over") /\ clean' = FALSE
  /\ UNCHANGED <<alarm, daemons, misread>>

(* pkill -P of the test's own children, the alarm among them. *)
TrapEnd ==
  /\ pc = "trap_end"
  /\ Goto("over") /\ alarm' = "gone"
  /\ UNCHANGED <<files, daemons, history>>

------------------------------------------------------------------------------
(* SIGALRM: bash runs the trap, and once the trap runs, dies. *)
Alarmed ==
  \/ pc \in Running /\ Goto("trap") /\ UNCHANGED clean
  \/ pc \in Trapped /\ Goto("over") /\ clean' = FALSE

AlarmRings ==
  /\ alarm = "sleeping" /\ alarm' = "ringing"
  /\ Alarmed
  /\ UNCHANGED <<files, daemons, misread>>

(* After ten seconds, or at once when the trap has ended its sleep. *)
AlarmRingsAgain ==
  /\ alarm = "ringing" /\ Alarmed
  /\ UNCHANGED <<alarm, files, daemons, misread>>

Killed ==
  /\ pc # "over"
  /\ Goto("over") /\ clean' = FALSE
  /\ UNCHANGED <<alarm, files, daemons, misread>>

(* The next test has an alarm of its own. *)
NextTest ==
  /\ pc = "over"
  /\ pc' = "configure" /\ node' = 1 /\ no_retries' = 0 /\ alarm' = "sleeping"
  /\ UNCHANGED <<files, daemons, history>>

DaemonChanges ==
  /\ \E n \in Node :
       \/ /\ daemon[n] = "starting"
          /\ \/ daemon' = [daemon EXCEPT ![n] = "up"] /\ pidfile' = [pidfile EXCEPT ![n] = TRUE]
             \/ daemon' = [daemon EXCEPT ![n] = "down"] /\ UNCHANGED pidfile
       \/ daemon[n] = "up" /\ daemon' = [daemon EXCEPT ![n] = "hung"] /\ UNCHANGED pidfile
  /\ UNCHANGED <<place, alarm, files, history>>

Trap == TrapStart \/ TrapStop \/ TrapRestore \/ TrapEnd

Test ==
  \/ Configure \/ BackUp \/ generate_corosync_conf \/ start_corosync \/ WaitForStart
  \/ BodyStops \/ BodyEnds

Next ==
  \/ Test \/ Trap \/ AlarmRings \/ AlarmRingsAgain \/ Killed \/ NextTest \/ DaemonChanges

Spec == Init /\ [][Next]_vars

(* Nothing is assumed of what a test does before its trap but the alarm. *)
FairSpec == Spec /\ WF_vars(Trap) /\ WF_vars(AlarmRings)

------------------------------------------------------------------------------
TypeOK ==
  /\ pc \in Running \cup Trapped \cup {"over"} /\ node \in Node
  /\ no_retries \in 0 .. MaxRetries /\ alarm \in {"sleeping", "ringing", "gone"}
  /\ conf \in [Node -> {"none", "original", "generated"}]
  /\ bck \in [Node -> {"none", "original", "generated"}]
  /\ daemon \in [Node -> {"down", "starting", "up", "hung"}]
  /\ pidfile \in [Node -> BOOLEAN] /\ misread \in [Node -> BOOLEAN] /\ clean \in BOOLEAN

(* Wherever tests are killed, timed out or fail, and however many follow,    *)
(* the node's own file is in its place or put aside, never both overwritten. *)
(* Only a probe of configure_corosync that failed can lose it.  (The types   *)
(* are part of the invariant.)                                               *)
OriginalKept ==
  /\ TypeOK
  /\ \A n \in Node : misread[n] \/ "original" \in {conf[n], bck[n]}

(* A trap that was not interrupted and met no failure leaves the nodes as    *)
(* the first test found them, also after tests that left a mess.             *)
TrapRestores ==
  pc = "over" /\ clean =>
    \A n \in Node : /\ daemon[n] = "down" /\ bck[n] = "none"
                    /\ misread[n] \/ conf[n] = "original"

(* Every test comes to its end, what ever it waits for: its alarm takes it   *)
(* to the trap, and the trap ends.                                           *)
TestEnds == (pc # "over") ~> (pc = "over")

===============================================================================
