------------------------------- MODULE SamTests -------------------------------
(***************************************************************************)
(* What the programs apps/sam-test1.c .. sam-test9.c do, as sequences of   *)
(* steps.  A step is a call with the answer the program wants and the exit *)
(* code when it gets another one; SamRecovery executes them.               *)
(*                                                                         *)
(* Before(t, kid) is what child kid of test t does up to sam_register;     *)
(* Instance(t, kid, i) what the instance with instance_id i does then.     *)
(* main() of tests 8 and 9 forks LastKid(t) children one after the other,  *)
(* the other programs have one process, kid 1.                             *)
(*                                                                         *)
(* Time is in ticks of half the health check interval: 1 s, in sam-test5   *)
(* 50 ms.  Operators whose name begins with Bad are mutated forms of the   *)
(* operator that follows; no specification uses them.                      *)
(***************************************************************************)
EXTENDS Integers, Sequences

CONSTANTS Crashes,    (* instances of sam-test3 that crash: 99             *)
          LastCheck   (* the count test5_hc_cb stops at: 11                *)

With(op, arg) == [op |-> op, arg |-> arg, want |-> "ok", fail |-> 1]
Do(op) == With(op, 0)
Refused(op, answer) == [Do(op) EXCEPT !.want = answer]
FailWith(code, steps) == [n \in DOMAIN steps |-> [steps[n] EXCEPT !.fail = code]]

(* exit(code), or return from main()                                         *)
Exit(code) == With("exit", code)
Sleep(ticks) == With("sleep", ticks)
Initialize(interval, policy) ==
  With("initialize", [interval |-> interval, policy |-> policy])

(* Stored bytes are their number and what stands for their values.           *)
Data(size, val) == [size |-> size, val |-> val]
NoData == Data(0, 0)
GetSize(size) == With("getsize", size)
Store(data) == With("store", data)
Restore(room, val) == With("restore", Data(room, val))
StateIs(kid, state) == With("state", [kid |-> kid, is |-> state])
RecoveryIs(kid, policy) == With("recovery", [kid |-> kid, is |-> policy])
-------------------------------------------------------------------------------
(* sam-test1: two instances that must be killed; the third tries the calls   *)
(* that must not succeed.                                                    *)
HealthChecks == [n \in 1..20 |-> IF n % 2 = 1 THEN Sleep(1) ELSE Do("hc")]
BadTest1(i) ==
  IF i \in {1, 2}
  THEN <<Do("start")>> \o HealthChecks \o <<Sleep(3), Do("start"), Sleep(3), Exit(0)>>
  ELSE <<Exit(0)>>
Test1(i) ==
  CASE i \in {1, 2} ->
         <<Do("start")>> \o HealthChecks \o (IF i = 2 THEN <<Do("stop")>> ELSE <<>>)
         \o <<Sleep(3), Do("start"), Sleep(3), Exit(0)>>
    [] i = 3 ->
         <<Refused("initialize", "bad"), Do("start"), Do("stop"), Do("finalize"),
           Refused("finalize", "bad"), Refused("initialize", "bad"),
           Refused("start", "bad"), Refused("stop", "bad"), Refused("register", "bad"),
           Refused("hc", "bad"), Refused("callback", "bad"), Exit(0)>>
    [] OTHER -> <<Exit(1)>>

(* sam-test2: policy quit, the warning is caught, then the kill is awaited.  *)
Test2(i) ==
  (IF i = 1 THEN <<With("catch", "TERM"), Do("start"), Sleep(1), Do("hc"), Do("await"), Sleep(3)>>
            ELSE <<>>) \o <<Exit(1)>>

(* sam-test3: no time limit, the instances kill themselves.                  *)
Test3(i) == IF i <= Crashes THEN <<Do("start"), Do("raise"), Exit(1)>> ELSE <<Exit(0)>>

(* sam-test4: the data kept by the supervisor.  The bytes are i + 5 first    *)
(* and i - 5 later.                                                          *)
Plus == 5
Minus == -5
Test4Before ==
  <<Refused("getsize", "bad"), Refused("getsize_null", "invalid"), Refused("store", "bad"),
    Refused("restore", "bad"), Initialize(0, "restart"), GetSize(0),
    Refused("restore_null", "invalid"), Store(Data(128, Plus)), GetSize(128),
    [Restore(127, Plus) EXCEPT !.want = "invalid"], Restore(128, Plus),
    Store(NoData), GetSize(0), Store(Data(128, Plus)), Do("register")>>
BadTest4(i) ==
  CASE i = 1 -> <<Do("start"), GetSize(128), Restore(128, Plus), Store(Data(121, Minus)), Exit(1)>>
    [] i = 2 -> <<Do("start"), GetSize(121), Restore(128, Minus), Store(NoData), Exit(1)>>
    [] OTHER -> <<Exit(0)>>
Test4(i) ==
  CASE i = 1 -> <<Do("start"), GetSize(128), Restore(128, Plus), Store(Data(121, Minus)), Exit(1)>>
    [] i = 2 -> <<Do("start"), GetSize(121), Restore(128, Minus), Store(NoData), Exit(1)>>
    [] i = 3 -> <<GetSize(0), Exit(0)>>
    [] OTHER -> <<Exit(0)>>

(* sam-test5: health checks by callback; the second instance wants to find   *)
(* the count at which the callback gave up.                                  *)
Test5(i) ==
  CASE i = 1 -> <<Do("callback"), Do("start"), Sleep(40), Exit(1)>>
    [] i = 2 -> <<Restore(4, LastCheck), Exit(0)>>
    [] OTHER -> <<Exit(1)>>

(* sam-test6: another warning signal, counted by its handler.                *)
UntilWarned == <<With("catch", "USR1"), Do("start"), Sleep(1), Do("hc"), Do("await")>>
Test6(i) ==
  CASE i = 1 -> <<With("warn", "USR1")>> \o UntilWarned \o <<Sleep(3), Exit(1)>>
    [] i = 2 -> <<Restore(4, 1), With("warn", "KILL")>> \o UntilWarned \o <<Exit(1)>>
    [] i = 3 -> <<Restore(4, 1), Exit(0)>>
    [] OTHER -> <<Exit(1)>>

(* sam-test7: sam_start waits for the quorum; a thread ends the first        *)
(* instance, the loss of the quorum the second.                              *)
Test7Before ==
  <<Do("cmap"), Do("cmap"), With("votes_are", 1)>>
  \o FailWith(2, <<With("votes", 2), Initialize(2, "quorum_restart"), Do("register")>>)
BadTest7(i) ==
  FailWith(2, CASE i = 1 -> <<Do("start"), Exit(2)>>
                [] OTHER -> <<Exit(0)>>)
Test7(i) ==
  FailWith(2,
    CASE i = 1 -> <<With("thread", 5), Do("start"), Exit(2)>>
      [] i = 2 -> <<With("votes", 1), Do("start"), With("votes", 2), Sleep(3), Exit(2)>>
      [] i = 3 -> <<Exit(0)>>
      [] OTHER -> <<Exit(2)>>)

(* sam-test8: the keys of a supervised process in the map.  Child 1 ends     *)
(* well, child 2 must be killed, child 3 looks at the state child 2 left.    *)
Test8Third == <<StateIs(2, "failed"), Exit(0)>>
Test8Before(kid) ==
  <<Do("cmap")>>
  \o FailWith(2, (IF kid = 2 THEN <<StateIs(2, "absent")>> ELSE <<>>)
                 \o (IF kid = 3 THEN Test8Third
                                ELSE <<Initialize(2, "quit"), Do("register")>>))
Test8HealthChecks ==
  <<Do("hc"), Do("stamp"), Sleep(1), Do("hc"), Sleep(1), Do("stamped"), Do("stop"),
    StateIs(1, "stopped"), Exit(0)>>
Test8(kid) ==
  LET is(state) == StateIs(kid, state) IN
  FailWith(2,
    <<RecoveryIs(kid, "quit"), is("stopped"), Do("start"), is("running"), Do("stop"),
      is("stopped"), Sleep(5), is("stopped"), Do("start"), is("running")>>
    \o IF kid = 2 THEN <<Sleep(5), Exit(2)>> ELSE Test8HealthChecks)

(* sam-test9: the same with policy restart; the third instance is marked as  *)
(* failed.                                                                   *)
Test9Second == <<StateIs(1, "failed"), Exit(0)>>
Test9Before(kid) ==
  <<Do("cmap")>>
  \o FailWith(2, IF kid = 2 THEN Test9Second
                 ELSE <<Initialize(2, "restart"), Do("register")>>)
Test9(i) ==
  FailWith(2,
    CASE i < 3 -> <<RecoveryIs(1, "restart"), StateIs(1, "stopped"), Do("start"),
                    StateIs(1, "running"), Sleep(10), Exit(2)>>
      [] i = 3 -> <<Do("mark_failed"), Sleep(10), Exit(2)>>
      [] OTHER -> <<Exit(2)>>)
-------------------------------------------------------------------------------
Before(t, kid) ==
  CASE t = 3 -> <<Initialize(0, "restart"), Do("register")>>
    [] t = 4 -> Test4Before
    [] t = 7 -> Test7Before
    [] t = 8 -> Test8Before(kid)
    [] t = 9 -> Test9Before(kid)
    [] OTHER -> <<Initialize(2, IF t = 2 THEN "quit" ELSE "restart"), Do("register")>>

Instance(t, kid, i) ==
  CASE t = 1 -> Test1(i) [] t = 2 -> Test2(i) [] t = 3 -> Test3(i)
    [] t = 4 -> Test4(i) [] t = 5 -> Test5(i) [] t = 6 -> Test6(i)
    [] t = 7 -> Test7(i) [] t = 8 -> Test8(kid) [] t = 9 -> Test9(i)

LastKid(t) == CASE t = 8 -> 3 [] t = 9 -> 2 [] OTHER -> 1

(* main() of tests 8 and 9 calls sam_finalize before a child returns.        *)
FinalizesAtEnd(t) == t \in {8, 9}
===============================================================================
