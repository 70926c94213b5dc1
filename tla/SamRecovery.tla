----------------------------- MODULE SamRecovery -----------------------------
(***************************************************************************)
(* The SAM tests running: the process that executes the steps of SamTests, *)
(* and libsam, which in sam_register forks the instance and stays behind   *)
(* as its supervisor.  A supervisor warns an instance that lets the        *)
(* interval pass, kills it an interval later, and forks the next one; an   *)
(* instance that ends while it is stopped ends the supervisor too, with    *)
(* its exit code.  libsam and the map of corosync are not part of the      *)
(* repository; they are modelled from what the nine tests rely on.         *)
(*                                                                         *)
(* Time passes (Tick) when nobody has anything to do.  Every behaviour has *)
(* at most one kind of fault: a call that answers what the program does    *)
(* not want (refuse), a supervisor that never acts on its time limit       *)
(* (deaf), or a process that is scheduled up to Slack ticks late (late).   *)
(***************************************************************************)
EXTENDS SamTests

CONSTANTS Tests,     (* the tests that may be run, a subset of 1 .. 9      *)
          Faults,    (* the kinds of fault that may happen                 *)
          Slack,     (* bound: ticks an instance loses to a late schedule  *)
          Horizon    (* bound: the largest time stamp, larger ones are it  *)

None == -1

ASSUME SamAssumption ==
  /\ Tests \subseteq 1..9 /\ Faults \subseteq {"none", "refuse", "deaf", "late"}
  /\ Crashes \in Nat /\ LastCheck \in Nat /\ Slack \in Nat /\ Horizon \in Nat

VARIABLES
  test, fault,   (* fixed: which test runs, which fault may happen         *)
  kid,           (* the child of main() that runs                          *)
  lib,           (* libsam: what the calls of this process are allowed     *)
  proc,          (* the process: where it is, what it has in memory        *)
  sup,           (* its supervisor                                         *)
  cmap,          (* keys of the map: votes, and per child state, recovery, *)
                 (* last_updated                                           *)
  wrong,         (* the fault has happened                                 *)
  late,          (* used up of Slack by this instance                      *)
  ended,         (* history: how the supervised instances ended            *)
  result         (* exit code of the test, None while it runs              *)

vars == <<test, fault, kid, lib, proc, sup, cmap, wrong, late, ended, result>>
fixed == <<test, fault>>
outcome == <<kid, late, ended, result>>

(* A process as fork() leaves it, and a supervisor before sam_initialize.    *)
Fresh == [alive |-> TRUE, code |-> 0, killed |-> FALSE, pc |-> 1, nap |-> 0,
          count |-> 0, thread |-> None, clock |-> 0, stamp |-> 0, caught |-> {},
          callback |-> FALSE, due |-> FALSE, starts |-> 0, checks |-> 0]
NoSupervisor == [iid |-> 0, interval |-> 0, policy |-> "none", left |-> 0, warned |-> FALSE,
                 signal |-> "TERM", marked |-> FALSE, data |-> NoData]

Init ==
  /\ test \in Tests /\ fault \in Faults
  /\ kid = 1 /\ lib = "none" /\ proc = Fresh /\ sup = NoSupervisor
  /\ cmap = [votes |-> 1, state |-> [k \in 1..3 |-> "absent"],
             recovery |-> [k \in 1..3 |-> "absent"], updated |-> 0]
  /\ wrong = FALSE /\ late = 0 /\ ended = <<>> /\ result = None
-------------------------------------------------------------------------------
Program == IF sup.iid = 0 THEN Before(test, kid) ELSE Instance(test, kid, sup.iid)
Now == Program[proc.pc]

Running == result = None /\ proc.alive /\ proc.nap = 0
At(op) == Running /\ Now.op = op

WithMap == test \in {8, 9}
Quorate == cmap.votes = 1
NeedsQuorum == sup.policy = "quorum_restart"

(* The states of libsam in which a call is allowed.                          *)
Legal(op) ==
  CASE op = "initialize" -> {"none"}
    [] op = "register" -> {"initialized"}
    [] op = "start" -> {"registered", "starting"}
    [] op \in {"stop", "hc"} -> {"started"}
    [] op \in {"callback", "mark_failed"} -> {"registered", "started"}
    [] op \in {"getsize", "store", "restore", "warn", "finalize"} ->
         {"initialized", "registered", "starting", "started"}
    [] OTHER -> {"none", "initialized", "registered", "starting", "started", "finalized"}

(* What a step compares, when the call itself succeeds.                      *)
Holds(s) ==
  CASE s.op = "getsize" -> sup.data.size = s.arg
    [] s.op = "restore" -> sup.data.val = s.arg.val
    [] s.op = "votes_are" -> cmap.votes = s.arg
    [] s.op = "state" -> cmap.state[s.arg.kid] = s.arg.is
    [] s.op = "recovery" -> cmap.recovery[s.arg.kid] = s.arg.is
    [] s.op = "stamped" -> cmap.updated - proc.stamp \in 1..2
    [] OTHER -> TRUE

(* The possible answers: NULL is refused before anything is looked at, a     *)
(* buffer must have room, and restoring from an empty store copies nothing,  *)
(* so that the program compares what happened to be in its variable.         *)
Answers(s) ==
  IF s.op \in {"getsize_null", "restore_null"} THEN {"invalid"}
  ELSE IF lib \notin Legal(s.op) THEN {"bad"}
  ELSE IF s.op = "restore" /\ sup.data = NoData THEN {"ok", "differs"}
  ELSE IF s.op = "restore" /\ sup.data.size > s.arg.size THEN {"invalid"}
  ELSE IF Holds(s) THEN {"ok"} ELSE {"differs"}

NoCall == {"exit", "sleep", "await", "catch", "thread", "raise"}

(* The call was allowed and answered what the program wants.                 *)
Succeeds(op) == At(op) /\ Now.want = "ok" /\ "ok" \in Answers(Now)
Stepped == [proc EXCEPT !.pc = @ + 1]

KeyState(state) == [cmap EXCEPT !.state[kid] = IF WithMap THEN state ELSE @]

(* The process exits.  The children of tests 8 and 9 call sam_finalize       *)
(* first, which stops the supervision.                                       *)
Leave(code) ==
  LET final == FinalizesAtEnd(test) /\ lib \in Legal("finalize") IN
  /\ proc' = [proc EXCEPT !.alive = FALSE, !.code = code]
  /\ lib' = IF final THEN "finalized" ELSE lib
  /\ cmap' = IF final /\ lib = "started" THEN KeyState("stopped") ELSE cmap

(* A signal nobody catches ends the process; the handler of test 2 counts,   *)
(* that of test 6 also stores the count; sleep() is interrupted.             *)
Signalled(signal) ==
  IF signal \in proc.caught
  THEN proc' = [proc EXCEPT !.count = @ + 1, !.nap = 0]
  ELSE proc' = [proc EXCEPT !.alive = FALSE, !.killed = TRUE]
StoredByHandler(signal) ==
  IF test = 6 /\ signal \in proc.caught THEN Data(4, proc.count + 1) ELSE sup.data
-------------------------------------------------------------------------------
(* Calls of libsam.                                                          *)

SamInitialize ==
  /\ Succeeds("initialize")
  /\ lib' = "initialized" /\ proc' = Stepped
  /\ sup' = [sup EXCEPT !.interval = Now.arg.interval, !.policy = Now.arg.policy]
  /\ UNCHANGED <<fixed, outcome, cmap, wrong>>

(* The instance is a copy of the process; the next one will be one as well.  *)
Forked == [sup EXCEPT !.iid = @ + 1, !.warned = FALSE]
SamRegister ==
  /\ Succeeds("register")
  /\ lib' = "registered" /\ proc' = Fresh /\ sup' = Forked
  /\ cmap' = [KeyState("stopped") EXCEPT
                !.recovery[kid] = IF WithMap THEN sup.policy ELSE @]
  /\ UNCHANGED <<fixed, outcome, wrong>>

(* With a quorum policy sam_start asks for supervision and then blocks.      *)
SamStartAsks ==
  /\ Succeeds("start") /\ NeedsQuorum /\ lib = "registered"
  /\ lib' = "starting"
  /\ UNCHANGED <<fixed, outcome, proc, sup, cmap, wrong>>

SamStart ==
  /\ Succeeds("start")
  /\ NeedsQuorum => lib = "starting" /\ Quorate
  /\ lib' = "started" /\ proc' = [Stepped EXCEPT !.starts = @ + 1]
  /\ sup' = [sup EXCEPT !.left = sup.interval]
  /\ cmap' = [KeyState("running") EXCEPT !.updated = proc.clock]
  /\ UNCHANGED <<fixed, outcome, wrong>>

SamStop ==
  /\ Succeeds("stop")
  /\ lib' = "registered" /\ proc' = Stepped /\ cmap' = KeyState("stopped")
  /\ UNCHANGED <<fixed, outcome, sup, wrong>>

SamHcSend ==
  /\ Succeeds("hc")
  /\ sup' = [sup EXCEPT !.left = sup.interval]
  /\ cmap' = [cmap EXCEPT !.updated = proc.clock]
  /\ proc' = [Stepped EXCEPT !.checks = @ + 1]
  /\ UNCHANGED <<fixed, outcome, lib, wrong>>

SamFinalize ==
  /\ Succeeds("finalize")
  /\ lib' = "finalized" /\ proc' = Stepped
  /\ UNCHANGED <<fixed, outcome, sup, cmap, wrong>>

SamHcCallbackRegister ==
  /\ Succeeds("callback")
  /\ proc' = [Stepped EXCEPT !.callback = TRUE]
  /\ UNCHANGED <<fixed, outcome, lib, sup, cmap, wrong>>

SamWarnSignalSet ==
  /\ Succeeds("warn")
  /\ sup' = [sup EXCEPT !.signal = Now.arg] /\ proc' = Stepped
  /\ UNCHANGED <<fixed, outcome, lib, cmap, wrong>>

SamMarkFailed ==
  /\ Succeeds("mark_failed")
  /\ sup' = [sup EXCEPT !.marked = TRUE] /\ proc' = Stepped
  /\ cmap' = KeyState("failed")
  /\ UNCHANGED <<fixed, outcome, lib, wrong>>

SamDataStore ==
  /\ Succeeds("store")
  /\ sup' = [sup EXCEPT !.data = Now.arg] /\ proc' = Stepped
  /\ UNCHANGED <<fixed, outcome, lib, cmap, wrong>>

(* cmap_set_uint32 of quorum.expected_votes                                  *)
SetVotes ==
  /\ Succeeds("votes")
  /\ cmap' = [cmap EXCEPT !.votes = Now.arg] /\ proc' = Stepped
  /\ UNCHANGED <<fixed, outcome, lib, sup, wrong>>

(* Calls that only look.                                                     *)
Look ==
  /\ \E op \in {"getsize", "restore", "cmap", "votes_are", "state", "recovery", "stamped"} :
       Succeeds(op)
  /\ proc' = Stepped
  /\ UNCHANGED <<fixed, outcome, lib, sup, cmap, wrong>>

(* The first of the two readings of last_updated.                            *)
Stamp ==
  /\ Succeeds("stamp")
  /\ proc' = [Stepped EXCEPT !.stamp = cmap.updated]
  /\ UNCHANGED <<fixed, outcome, lib, sup, cmap, wrong>>

(* A call that must not succeed does not.                                    *)
RefusedAsWanted ==
  /\ Running /\ Now.op \notin NoCall /\ Now.want # "ok" /\ Now.want \in Answers(Now)
  /\ proc' = Stepped
  /\ UNCHANGED <<fixed, outcome, lib, sup, cmap, wrong>>

(* The answer is not the one the program wants: it says so and ends.         *)
Disappointed ==
  /\ Running /\ Now.op \notin NoCall
  /\ \/ Answers(Now) # {Now.want} /\ wrong' = wrong
     \/ fault = "refuse" /\ ~wrong /\ wrong' = TRUE
  /\ Leave(Now.fail)
  /\ UNCHANGED <<fixed, outcome, sup>>
-------------------------------------------------------------------------------
(* What the process does by itself.                                          *)

Exits == At("exit") /\ Leave(Now.arg) /\ UNCHANGED <<fixed, outcome, sup, wrong>>

(* signal(), pthread_create() and the beginning of sleep().                  *)
GoesOn ==
  /\ \/ At("catch") /\ proc' = [Stepped EXCEPT !.caught = {Now.arg}]
     \/ At("thread") /\ proc' = [Stepped EXCEPT !.thread = Now.arg]
     \/ At("sleep") /\ proc' = [Stepped EXCEPT !.nap = Now.arg]
  /\ UNCHANGED <<fixed, outcome, lib, sup, cmap, wrong>>

AwaitSignal ==
  /\ At("await") /\ proc.count > 0
  /\ proc' = Stepped
  /\ UNCHANGED <<fixed, outcome, lib, sup, cmap, wrong>>

Raise ==
  /\ At("raise")
  /\ proc' = [proc EXCEPT !.alive = FALSE, !.killed = TRUE]
  /\ UNCHANGED <<fixed, outcome, lib, sup, cmap, wrong>>

(* The thread of test 7 calls exit(0) while main() is in sam_start.          *)
ThreadExits ==
  /\ result = None /\ proc.alive /\ proc.thread = 0
  /\ proc' = [proc EXCEPT !.alive = FALSE]
  /\ UNCHANGED <<fixed, outcome, lib, sup, cmap, wrong>>

(* test5_hc_cb: the count is stored; when it is LastCheck or cannot be       *)
(* stored the callback fails, and libsam sends no more health checks.        *)
HcCallback ==
  LET n == proc.count + 1
      healthy(stored) == stored /\ n < LastCheck
  IN
  /\ result = None /\ proc.alive /\ proc.due /\ lib = "started"
  /\ \E stored \in BOOLEAN :
       /\ ~stored => fault = "refuse" /\ ~wrong
       /\ wrong' = (wrong \/ ~stored)
       /\ proc' = [proc EXCEPT !.count = n, !.due = FALSE, !.callback = healthy(stored),
                               !.checks = @ + IF healthy(stored) THEN 1 ELSE 0]
       /\ sup' = [sup EXCEPT !.left = IF healthy(stored) THEN sup.interval ELSE @,
                             !.data = IF stored THEN Data(4, n) ELSE @]
  /\ UNCHANGED <<fixed, outcome, lib, cmap>>

ProcessStep ==
  \/ SamInitialize \/ SamRegister \/ SamStartAsks \/ SamStart \/ SamStop \/ SamHcSend
  \/ SamFinalize \/ SamHcCallbackRegister \/ SamWarnSignalSet \/ SamMarkFailed
  \/ SamDataStore \/ SetVotes \/ Look \/ Stamp \/ RefusedAsWanted \/ Disappointed
  \/ Exits \/ GoesOn \/ AwaitSignal \/ Raise \/ ThreadExits \/ HcCallback
-------------------------------------------------------------------------------
(* The supervisor.                                                           *)

(* The instance has let the interval pass, lost the quorum or was marked.    *)
Doomed ==
  /\ result = None /\ proc.alive /\ sup.iid > 0
  /\ \/ sup.marked
     \/ lib = "started" /\ sup.interval > 0 /\ sup.left = 0
     \/ lib = "started" /\ NeedsQuorum /\ ~Quorate

Warn ==
  /\ Doomed /\ fault # "deaf" /\ ~sup.warned
  /\ Signalled(sup.signal)
  /\ sup' = [sup EXCEPT !.warned = TRUE, !.left = sup.interval,
                        !.data = StoredByHandler(sup.signal)]
  /\ UNCHANGED <<fixed, outcome, lib, cmap, wrong>>

Kill ==
  /\ Doomed /\ fault # "deaf" /\ sup.warned
  /\ proc' = [proc EXCEPT !.alive = FALSE, !.killed = TRUE]
  /\ UNCHANGED <<fixed, outcome, lib, sup, cmap, wrong>>

Supervised == lib \in {"starting", "started"}
HowEnded == [killed |-> proc.killed, code |-> proc.code,
             starts |-> proc.starts, checks |-> proc.checks]

(* An instance that ends under supervision is replaced.                      *)
Restart ==
  /\ result = None /\ ~proc.alive
  /\ Supervised /\ sup.policy # "quit" /\ ~sup.marked
  /\ lib' = "registered" /\ proc' = Fresh /\ sup' = Forked
  /\ cmap' = KeyState("stopped") /\ late' = 0
  /\ ended' = Append(ended, HowEnded)
  /\ UNCHANGED <<fixed, kid, result, wrong>>

(* Otherwise the supervisor, or a process never supervised, ends with the    *)
(* exit code of the instance: 0 when a signal ended it.  main() forks the    *)
(* next child after the status 0, and else ends with the status.             *)
Quit ==
  LET status == IF proc.killed THEN 0 ELSE proc.code
      failed == sup.marked \/ Supervised
      last == status # 0 \/ kid = LastKid(test)
  IN
  /\ result = None /\ ~proc.alive
  /\ ~Supervised \/ sup.policy = "quit" \/ sup.marked
  /\ cmap' = IF failed THEN KeyState("failed") ELSE cmap
  /\ ended' = Append(ended, HowEnded)
  /\ IF last THEN result' = status /\ UNCHANGED <<kid, lib, proc, sup>>
     ELSE /\ kid' = kid + 1 /\ result' = None
          /\ lib' = "none" /\ proc' = Fresh /\ sup' = NoSupervisor
  /\ late' = 0
  /\ UNCHANGED <<fixed, wrong>>

SupervisorStep == Warn \/ Kill \/ Restart \/ Quit
-------------------------------------------------------------------------------
(* Nobody can do anything at this moment: the process sleeps, waits for a    *)
(* signal or for the quorum.                                                 *)
Waiting ==
  /\ proc.alive /\ ~proc.due /\ proc.thread # 0
  /\ \/ proc.nap > 0
     \/ Now.op = "await" /\ proc.count = 0
     \/ Now.op = "start" /\ lib = "starting" /\ ~Quorate

Less(n) == IF n > 0 THEN n - 1 ELSE n
Tick ==
  /\ result = None /\ proc.alive /\ sup.iid > 0
  /\ Doomed => fault = "deaf"
  /\ \/ Waiting /\ late' = late
     \/ ~Waiting /\ fault = "late" /\ late < Slack /\ late' = late + 1
  /\ proc' = [proc EXCEPT !.nap = Less(@), !.thread = Less(@),
                          !.clock = IF @ < Horizon THEN @ + 1 ELSE @,
                          !.due = proc.callback /\ lib = "started"]
  /\ sup' = [sup EXCEPT !.left = IF lib = "started" \/ sup.marked THEN Less(@) ELSE @]
  /\ wrong' = (wrong \/ Doomed)
  /\ UNCHANGED <<fixed, kid, lib, cmap, ended, result>>

Finished == result # None /\ UNCHANGED vars

Next == ProcessStep \/ SupervisorStep \/ Tick \/ Finished
Spec == Init /\ [][Next]_vars

(* The scheduler and the clock go on: what can happen now or later does.     *)
FairSpec == Spec /\ WF_vars(Next)
-------------------------------------------------------------------------------
(* Type invariant; a program ends before its steps are used up, and data and *)
(* counters are what the programs can make of them.                          *)
TypeOK ==
  /\ test \in Tests /\ fault \in Faults /\ kid \in 1..LastKid(test)
  /\ lib \in Legal("none")
  /\ proc.pc \in 1..Len(Program) /\ proc.nap \in Nat /\ proc.count \in 0..LastCheck
  /\ proc.clock \in 0..Horizon /\ proc.thread \in None..5
  /\ sup.iid \in Nat /\ sup.left \in 0..sup.interval
  /\ late \in 0..Slack /\ result \in {None} \cup 0..2

(* How the instances of each test end when nothing goes wrong: killed by the *)
(* supervisor (or by themselves, test 3) or left with an exit code, after so *)
(* many starts and health checks.  It is the story the code tells, which is  *)
(* not always that of its comments (sam-test1.c:57, sam-test7.c:129).        *)
Killed(starts, checks) ==
  [killed |-> TRUE, code |-> 0, starts |-> starts, checks |-> checks]
Left(code, starts, checks) ==
  [killed |-> FALSE, code |-> code, starts |-> starts, checks |-> checks]
Story ==
  CASE test = 1 -> <<Killed(1, 10), Killed(2, 10), Left(0, 1, 0)>>
    [] test = 2 -> <<Killed(1, 1)>>
    [] test = 3 -> [n \in 1..Crashes + 1 |->
                      IF n <= Crashes THEN Killed(1, 0) ELSE Left(0, 0, 0)]
    [] test = 4 -> <<Left(1, 1, 0), Left(1, 1, 0), Left(0, 0, 0)>>
    [] test = 5 -> <<Killed(1, LastCheck - 1), Left(0, 0, 0)>>
    [] test = 6 -> <<Killed(1, 1), Killed(1, 1), Left(0, 0, 0)>>
    [] test = 7 -> <<Left(0, 0, 0), Killed(1, 0), Left(0, 0, 0)>>
    [] test = 8 -> <<Left(0, 2, 2), Killed(2, 0), Left(0, 0, 0)>>
    [] test = 9 -> <<Killed(1, 0), Killed(1, 0), Killed(0, 0), Left(0, 0, 0)>>

(* With a libsam that does what it should, every test passes, and only after *)
(* each instance has gone through the calls of its program and ended where   *)
(* the program leaves or counts on being killed: the sleeps of a program and *)
(* the interval of its supervisor fit.                                       *)
(* Tests 2, 3, 4, 7 and 9 do so on a late machine too; tests 1, 5, 6 and 8   *)
(* may then be killed too early.  (The types are part of the invariant.)     *)
PassesAsProgrammed ==
  /\ TypeOK
  /\ result # None /\ (fault = "none" \/ (fault = "late" /\ test \in {2, 3, 4, 7, 9}))
    => result = 0 /\ ended = Story

(* A wrong answer or a kill that does not come makes these tests fail,       *)
(* whatever instance meets it: the restart of an instance that ended because *)
(* of it does not cover it up.                                               *)
FailureShows ==
  wrong /\ result # None /\ test \in {2, 3, 4, 8, 9} => result # 0

(* Every test ends, although instances wait without a limit for a signal, a  *)
(* kill or the quorum.  Only tests 2 and 6 wait forever for a supervisor     *)
(* that never warns.                                                         *)
TestEnds == (fault = "deaf" /\ test \in {2, 6}) \/ <>(result # None)
===============================================================================
