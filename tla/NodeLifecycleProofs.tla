-------------------------- MODULE NodeLifecycleProofs --------------------------
(* The nodes' own configuration is kept, for any number of nodes and retries.  *)
EXTENDS NodeLifecycle, TLAPS

(* Where the original is: put aside, or in place with nothing put aside. *)
Safe(n) == bck[n] = "original" \/ (bck[n] = "none" /\ conf[n] = "original")

(* OriginalKept is not inductive: the node's file is moved because of what two *)
(* probes have said before, and written over because of what they said or      *)
(* because of the move.                                                        *)
KeptInv ==
  /\ \A n \in Node : misread[n] \/ Safe(n)
  /\ pc = "back_up" => misread[node] \/ bck[node] = "none"
  /\ pc = "generate" => misread[node] \/ bck[node] = "original"

(* It holds at first ... *)
LEMMA KeptInit == Init => TypeOK /\ KeptInv
  BY NodesAssumption DEF Init, KeptInv, TypeOK, Safe, Node, Running, Trapped

(* Every variable keeps its type. *)
LEMMA TypesStep == TypeOK /\ [Next]_vars => TypeOK'
<1> SUFFICES ASSUME TypeOK, [Next]_vars PROVE TypeOK'
  OBVIOUS
<1> USE NodesAssumption DEF TypeOK, Node, Running, Trapped, place, files, daemons, history
<1>1. CASE Configure
  BY <1>1 DEF Configure, Probe, Goto
<1>2. CASE BackUp
  BY <1>2 DEF BackUp, Goto, Fail
<1>3. CASE generate_corosync_conf
  BY <1>3 DEF generate_corosync_conf, Goto, Fail
<1>4. CASE start_corosync
  BY <1>4 DEF start_corosync, Goto, Fail
<1>5. CASE WaitForStart
  BY <1>5 DEF WaitForStart, Started, Goto, Fail
<1>6. CASE BodyStops
  BY <1>6 DEF BodyStops
<1>7. CASE BodyEnds
  BY <1>7 DEF BodyEnds, Goto, Fail
<1>8. CASE TrapStart
  BY <1>8 DEF TrapStart
<1>9. CASE TrapStop
  BY <1>9 DEF TrapStop, Goto
<1>10. CASE TrapRestore
  <2>1. NextNode \/ Goto("over")
    BY <1>10 DEF TrapRestore
  <2>2. /\ node' \in Node /\ no_retries' = no_retries
        /\ pc' \in {"trap_stop", "trap_end", "over"}
    BY <2>1 DEF NextNode, Goto
  <2>3. clean' \in BOOLEAN
    BY <1>10 DEF TrapRestore
  <2>4. /\ conf' \in [Node -> {"none", "original", "generated"}]
        /\ bck' \in [Node -> {"none", "original", "generated"}]
    BY <1>10 DEF TrapRestore
  <2>5. UNCHANGED <<alarm, daemon, pidfile, misread>>
    BY <1>10 DEF TrapRestore
  <2> QED
    BY <2>2, <2>3, <2>4, <2>5
<1>11. CASE TrapEnd
  BY <1>11 DEF TrapEnd, Goto
<1>12. CASE AlarmRings
  BY <1>12 DEF AlarmRings, Alarmed, Goto
<1>13. CASE AlarmRingsAgain
  BY <1>13 DEF AlarmRingsAgain, Alarmed, Goto
<1>14. CASE Killed
  BY <1>14 DEF Killed, Goto
<1>15. CASE NextTest
  BY <1>15 DEF NextTest
<1>16. CASE DaemonChanges
  BY <1>16 DEF DaemonChanges
<1>17. CASE UNCHANGED vars
  BY <1>17 DEF vars
<1> QED
  BY <1>1, <1>2, <1>3, <1>4, <1>5, <1>6, <1>7, <1>8, <1>9,
     <1>10, <1>11, <1>12, <1>13, <1>14, <1>15, <1>16, <1>17
     DEF Next, Test, Trap

(* ... and every step keeps it: of the test, its trap, its alarm, its death. *)
LEMMA KeptStep == TypeOK /\ KeptInv /\ [Next]_vars => KeptInv'
<1> SUFFICES ASSUME TypeOK, KeptInv, [Next]_vars PROVE KeptInv'
  OBVIOUS
<1>0. /\ node \in Node
      /\ conf \in [Node -> {"none", "original", "generated"}]
      /\ bck \in [Node -> {"none", "original", "generated"}]
      /\ misread \in [Node -> BOOLEAN]
  BY DEF TypeOK
<1>a. node' \in Node
  BY TypesStep DEF TypeOK
<1> USE NodesAssumption, <1>0, <1>a DEF KeptInv, Safe, place, files, daemons, history
<1>1. CASE Configure
  <2>1. PICK seen \in Probe(node, conf[node] # "none"), kept \in Probe(node, bck[node] # "none") :
          /\ misread' = [misread EXCEPT ![node] =
                           @ \/ seen # (conf[node] # "none") \/ kept # (bck[node] # "none")]
          /\ Goto(IF seen /\ ~kept THEN "back_up" ELSE "generate")
    BY <1>1 DEF Configure
  <2>2. UNCHANGED <<alarm, conf, bck, daemon, pidfile, clean, node, no_retries>>
    BY <1>1, <2>1 DEF Configure, Goto, files, daemons
  <2>3. pc' = (IF seen /\ ~kept THEN "back_up" ELSE "generate")
    BY <2>1 DEF Goto
  <2>4. misread'[node] \/ (seen = (conf[node] # "none") /\ kept = (bck[node] # "none"))
    BY <2>1
  <2>5. misread' \in [Node -> BOOLEAN] /\ \A n \in Node : misread[n] => misread'[n]
    BY <2>1
  <2> QED
    BY <2>2, <2>3, <2>4, <2>5
<1>2. CASE BackUp
  BY <1>2 DEF BackUp, Goto, Fail
<1>3. CASE generate_corosync_conf
  BY <1>3 DEF generate_corosync_conf, Goto, Fail
<1>4. CASE start_corosync
  BY <1>4 DEF start_corosync, Goto, Fail
<1>5. CASE WaitForStart
  BY <1>5 DEF WaitForStart, Started, Goto, Fail
<1>6. CASE BodyStops
  BY <1>6 DEF BodyStops
<1>7. CASE BodyEnds
  BY <1>7 DEF BodyEnds, Goto, Fail
<1>8. CASE TrapStart
  BY <1>8 DEF TrapStart
<1>9. CASE TrapStop
  BY <1>9 DEF TrapStop, Goto
<1>10. CASE TrapRestore
  BY <1>10 DEF TrapRestore, NextNode, Goto
<1>11. CASE TrapEnd
  BY <1>11 DEF TrapEnd, Goto
<1>12. CASE AlarmRings
  BY <1>12 DEF AlarmRings, Alarmed, Goto, Running, Trapped
<1>13. CASE AlarmRingsAgain
  BY <1>13 DEF AlarmRingsAgain, Alarmed, Goto, Running, Trapped
<1>14. CASE Killed
  BY <1>14 DEF Killed, Goto
<1>15. CASE NextTest
  BY <1>15 DEF NextTest
<1>16. CASE DaemonChanges
  BY <1>16 DEF DaemonChanges
<1>17. CASE UNCHANGED vars
  BY <1>17 DEF vars
<1> QED
  BY <1>1, <1>2, <1>3, <1>4, <1>5, <1>6, <1>7, <1>8, <1>9,
     <1>10, <1>11, <1>12, <1>13, <1>14, <1>15, <1>16, <1>17
     DEF Next, Test, Trap

(* Whatever happens to the tests, a node's own corosync.conf is in its place or *)
(* put aside, unless a probe of configure_corosync has failed there.            *)
THEOREM OriginalIsKept == Spec => []OriginalKept
<1>1. TypeOK /\ KeptInv => OriginalKept
  BY DEF KeptInv, Safe, OriginalKept
<1> QED
  BY KeptInit, TypesStep, KeptStep, <1>1, PTL DEF Spec
------------------------------------------------------------------------------
(* A node as the first test found it. *)
Restored(n) ==
  daemon[n] = "down" /\ bck[n] = "none" /\ (misread[n] \/ conf[n] = "original")

(* How far a trap that has met no failure has got. *)
TrapInv ==
  clean =>
    /\ pc \in {"trap_stop", "trap_restore"} => \A n \in Node : n < node => Restored(n)
    /\ pc = "trap_restore" => daemon[node] = "down"
    /\ pc \in {"trap_end", "over"} => \A n \in Node : Restored(n)

LEMMA TrapStepInv == TypeOK /\ KeptInv /\ TrapInv /\ [Next]_vars => TrapInv'
<1> SUFFICES ASSUME TypeOK, KeptInv, TrapInv, [Next]_vars PROVE TrapInv'
  OBVIOUS
<1>0. /\ node \in 1 .. Nodes /\ Nodes \in Nat
      /\ conf \in [Node -> {"none", "original", "generated"}]
      /\ bck \in [Node -> {"none", "original", "generated"}]
      /\ daemon \in [Node -> {"down", "starting", "up", "hung"}]
      /\ clean \in BOOLEAN
  BY NodesAssumption DEF TypeOK, Node
<1>a. \A n \in Node : misread[n] \/ Safe(n)
  BY DEF KeptInv
<1> USE <1>0 DEF TrapInv, Restored, Node, Running, Trapped, place, files, daemons, history
<1>1. CASE Configure
  BY <1>1 DEF Configure, Probe, Goto
<1>2. CASE BackUp
  BY <1>2 DEF BackUp, Goto, Fail
<1>3. CASE generate_corosync_conf
  BY <1>3 DEF generate_corosync_conf, Goto, Fail
<1>4. CASE start_corosync
  BY <1>4 DEF start_corosync, Goto, Fail
<1>5. CASE WaitForStart
  BY <1>5 DEF WaitForStart, Started, Goto, Fail
<1>6. CASE BodyStops
  BY <1>6 DEF BodyStops
<1>7. CASE BodyEnds
  BY <1>7 DEF BodyEnds, Goto, Fail
<1>8. CASE TrapStart
  BY <1>8 DEF TrapStart
<1>9. CASE TrapStop
  BY <1>9 DEF TrapStop, Goto
<1>10. CASE TrapRestore
  <2>1. CASE clean' = FALSE
    BY <2>1
  <2>2. CASE clean' # FALSE
    <3>1. /\ pc = "trap_restore" /\ UNCHANGED <<daemon, misread>>
          /\ NextNode /\ clean /\ bck'[node] = "none"
      BY <1>10, <2>2 DEF TrapRestore
    <3>2. /\ bck'[node] = "none" /\ conf' \in [Node -> {"none", "original", "generated"}]
          /\ \A n \in Node : n # node => conf'[n] = conf[n] /\ bck'[n] = bck[n]
          /\ \/ bck[node] # "none" /\ conf'[node] = bck[node]
             \/ bck[node] = "none" /\ conf'[node] = conf[node]
      <4>1. CASE bck[node] # "none" /\ conf' = [conf EXCEPT ![node] = bck[node]]
                                   /\ bck' = [bck EXCEPT ![node] = "none"]
        <5>1. bck'[node] = "none" /\ conf'[node] = bck[node]
          BY <4>1
        <5>2. conf' \in [Node -> {"none", "original", "generated"}]
          BY <4>1
        <5>3. \A n \in Node : n # node => conf'[n] = conf[n] /\ bck'[n] = bck[n]
          BY <4>1
        <5> QED
          BY <4>1, <5>1, <5>2, <5>3
      <4>2. CASE bck[node] = "none" /\ conf' = conf /\ bck' = bck
        BY <4>2
      <4> QED
        BY <1>10, <2>2, <4>1, <4>2 DEF TrapRestore
    <3>3. misread'[node] \/ conf'[node] = "original"
      <4>1. misread' = misread /\ (misread[node] \/ Safe(node))
        BY <3>1, <1>a
      <4> QED
        BY <3>2, <4>1 DEF Safe
    <3>4. daemon'[node] = "down"
      <4>1. clean
        BY <3>1
      <4> QED
        BY <3>1, <4>1
    <3>5. ASSUME NEW n \in Node, n <= node PROVE Restored(n)'
      <4>1. CASE n = node
        BY <3>2, <3>3, <3>4, <4>1
      <4>2. CASE n # node
        <5>1. n < node
          BY <3>5, <4>2
        <5>2. Restored(n)
          BY <3>1, <5>1
        <5> QED
          BY <3>1, <3>2, <4>2, <5>2
      <4> QED
        BY <4>1, <4>2
    <3>6. CASE node < Nodes
      BY <3>1, <3>5, <3>6 DEF NextNode
    <3>7. CASE ~(node < Nodes)
      BY <3>1, <3>5, <3>7 DEF NextNode, Goto
    <3> QED
      BY <3>6, <3>7
  <2> QED
    BY <2>1, <2>2
<1>11. CASE TrapEnd
  BY <1>11 DEF TrapEnd, Goto
<1>12. CASE AlarmRings
  BY <1>12 DEF AlarmRings, Alarmed, Goto
<1>13. CASE AlarmRingsAgain
  BY <1>13 DEF AlarmRingsAgain, Alarmed, Goto
<1>14. CASE Killed
  BY <1>14 DEF Killed, Goto
<1>15. CASE NextTest
  BY <1>15 DEF NextTest
<1>16. CASE DaemonChanges
  BY <1>16 DEF DaemonChanges
<1>17. CASE UNCHANGED vars
  BY <1>17 DEF vars
<1> QED
  BY <1>1, <1>2, <1>3, <1>4, <1>5, <1>6, <1>7, <1>8, <1>9,
     <1>10, <1>11, <1>12, <1>13, <1>14, <1>15, <1>16, <1>17
     DEF Next, Test, Trap

(* A trap that runs to its end without a failure leaves every node as the first *)
(* test found it.                                                               *)
THEOREM CleanTrapRestores == Spec => []TrapRestores
<1>1. Init => TrapInv
  BY DEF Init, TrapInv
<1>2. TrapInv => TrapRestores
  BY DEF TrapInv, TrapRestores, Restored
<1> QED
  BY KeptInit, TypesStep, KeptStep, TrapStepInv, <1>1, <1>2, PTL DEF Spec
===============================================================================
