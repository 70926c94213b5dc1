---------------------------- MODULE TrackAndChange ----------------------------
(***************************************************************************)
(* apps/confdb-track-and-change.c: a load of changes in corosync's map.    *)
(*                                                                         *)
(* The program forks no_childs processes.  Each has two keys of its own, a *)
(* number and a string, changes them once and then answers: when the last  *)
(* change it made has been notified to it, it makes a burst of new ones.   *)
(* The parent waits for its children, and passes SIGINT on to them until   *)
(* the pipe of each is hung up.                                            *)
(*                                                                         *)
(* Corosync is external: it takes or refuses a request, and queues one     *)
(* notification for each change of a value.  Children are told of all keys *)
(* below "testconfdb." and return at once for a key that is not theirs:    *)
(* only the notifications of own keys are in the queues here.  All letters *)
(* of a string move together, so a string is its first letter.             *)
(*                                                                         *)
(* Operators whose name begins with Bad are mutated forms of the operator  *)
(* that follows; no specification uses them.                               *)
(***************************************************************************)
EXTENDS FiniteSets, Integers, Sequences, SequencesExt

CONSTANTS Options,       (* command lines: no_childs of -c, burst_count of *)
                         (* -n, and the keys that -u and -s ask for        *)
          MaxChilds,     (* bound: the largest no_childs                   *)
          Wrap,          (* per key: how many values it has, 2^32 numbers  *)
                         (* and 26 letters                                 *)
          MaxRetries     (* tries to connect, 30                           *)

AnyKey == {"uint", "str"}

ASSUME LoadAssumption ==
  /\ Options # {} /\ MaxChilds \in Nat
  /\ \A o \in Options :
       o.no_childs \in 1 .. MaxChilds /\ o.burst_count \in Nat \ {0} /\ o.keys \subseteq AnyKey
  /\ Wrap \in [AnyKey -> Nat \ {0, 1}]
  /\ MaxRetries \in Nat \ {0}

VARIABLES
  options,    (* the command line                                           *)
  (* the children *)
  pc,         (* "none", "start", "set", "track", "first", "dispatch",      *)
              (* "burst" or "ended"                                         *)
  retries,    (* tries to connect                                           *)
  at,         (* the entry of Keys that "set" and "first" are at            *)
  expected,   (* expected_msgs_uint and expected_msgs_str                   *)
  burst,      (* the burst that is being made: its key, the changes left,   *)
              (* and the last value (str_val)                               *)
  sigint,     (* SIGINT is pending                                          *)
  (* the parent *)
  parent,     (* "fork", "sleep", "wait", in the signal handler "signal" or *)
              (* "poll", "finished" or "dead"                               *)
  forked,     (* children made                                              *)
  waits,      (* calls of wait() that have returned                         *)
  reaped,     (* the children they were for                                 *)
  pipes,      (* child_pipes: the children not known to be hung up          *)
  pfds,       (* the children poll() is asked about, in order               *)
  (* corosync *)
  service,    (* "up" or "gone"                                             *)
  store,      (* the values                                                 *)
  queue,      (* per child: the notifications it has not taken              *)
  (* history, per child and key *)
  made,       (* changes taken by corosync, modulo Wrap                     *)
  refused     (* changes of bursts that were refused                        *)

no_childs == options.no_childs
burst_count == options.burst_count

(* The keys in the order in which a child sets and first changes them. *)
Keys == (IF "uint" \in options.keys THEN <<"uint">> ELSE <<>>)
        \o (IF "str" \in options.keys THEN <<"str">> ELSE <<>>)

(* All there could be, of which options.no_childs are made. *)
Child == 1 .. MaxChilds

children == <<retries, at, expected, burst>>
parental == <<parent, forked, waits, reaped, pipes, pfds>>
map == <<store, queue, made, refused>>
vars == <<options, pc, children, sigint, parental, service, map>>

PerKey(x) == [c \in Child |-> [k \in AnyKey |-> x]]
Zero == [k \in AnyKey |-> 0]
NoBurst == [key |-> "none", left |-> 0, value |-> 0]

Init ==
  /\ options \in Options
  /\ pc = [c \in Child |-> "none"] /\ retries = [c \in Child |-> 0]
  /\ at = [c \in Child |-> 1] /\ expected = PerKey(0)
  /\ burst = [c \in Child |-> NoBurst]
  /\ sigint = [c \in Child |-> FALSE]
  /\ parent = "fork" /\ forked = 0 /\ waits = 0 /\ reaped = {}
  /\ pipes = 1 .. no_childs /\ pfds = <<>>
  /\ service = "up" /\ store = PerKey(0) /\ queue = [c \in Child |-> <<>>]
  /\ made = PerKey(0) /\ refused = PerKey(0)

------------------------------------------------------------------------------
(* Corosync. *)
Start(c, k) == c % Wrap[k]

(* A value set to what it was is not notified. *)
Store(c, k, v) ==
  /\ store' = [store EXCEPT ![c][k] = v]
  /\ queue' = IF v = store[c][k] THEN queue
              ELSE [queue EXCEPT ![c] = Append(@, [key |-> k, value |-> v])]
  /\ made' = [made EXCEPT ![c][k] = (@ + 1) % Wrap[k]]
  /\ UNCHANGED refused

CorosyncStops ==
  /\ service = "up" /\ service' = "gone"
  /\ UNCHANGED <<pc, children, sigint, parental, map>>

------------------------------------------------------------------------------
(* A child. *)
Goto(c, where) == pc' = [pc EXCEPT ![c] = where]
Living(c) == pc[c] \notin {"none", "ended"}

(* The process and its connection are gone, and what was in them; its keys    *)
(* stay in the map.                                                           *)
End(c) ==
  /\ Goto(c, "ended")
  /\ retries' = [retries EXCEPT ![c] = 0] /\ at' = [at EXCEPT ![c] = 1]
  /\ expected' = [expected EXCEPT ![c] = Zero] /\ burst' = [burst EXCEPT ![c] = NoBurst]
  /\ queue' = [queue EXCEPT ![c] = <<>>]
  /\ made' = [made EXCEPT ![c] = Zero] /\ refused' = [refused EXCEPT ![c] = Zero]
  /\ UNCHANGED <<parental, service, store>>

(* SIGINT ends a child, with the default action or by its handler.            *)
Interrupted(c) ==
  /\ Living(c) /\ sigint[c]
  /\ sigint' = [sigint EXCEPT ![c] = FALSE]
  /\ End(c)

Connect(c) ==
  /\ pc[c] = "start" /\ service = "up"
  /\ Goto(c, IF Keys = <<>> THEN "track" ELSE "set") /\ retries' = [retries EXCEPT ![c] = 0]
  /\ UNCHANGED <<at, expected, burst, sigint, parental, service, map>>

(* CS_ERR_TRY_AGAIN, but not for the last time. *)
ConnectLater(c) ==
  /\ pc[c] = "start" /\ retries[c] + 1 < MaxRetries
  /\ retries' = [retries EXCEPT ![c] = @ + 1]
  /\ UNCHANGED <<pc, at, expected, burst, sigint, parental, service, map>>

(* The key its next request is about, in "set" and in "first". *)
Key(c) == Keys[at[c]]
KeyDone(c, where) ==
  IF at[c] < Len(Keys)
  THEN at' = [at EXCEPT ![c] = @ + 1] /\ UNCHANGED pc
  ELSE at' = [at EXCEPT ![c] = 1] /\ Goto(c, where)

(* The key gets its first value; no one is told yet. *)
SetKey(c) ==
  /\ pc[c] = "set" /\ service = "up"
  /\ store' = [store EXCEPT ![c][Key(c)] = Start(c, Key(c))]
  /\ KeyDone(c, "track")
  /\ UNCHANGED <<retries, expected, burst, sigint, parental, service, queue, made, refused>>

Track(c) ==
  /\ pc[c] = "track" /\ service = "up"
  /\ Goto(c, IF Keys = <<>> THEN "dispatch" ELSE "first")
  /\ UNCHANGED <<children, sigint, parental, service, map>>

(* A request of the start fails, the connection after its last retry or with  *)
(* another error: the assertion ends the child.                               *)
RequestFails(c) ==
  /\ pc[c] \in {"start", "set", "track", "first"}
  /\ End(c) /\ UNCHANGED sigint

Bad_inc_str(k, v) == (v + 1) % (Wrap[k] - 1)

(* inc_str, and what cmap_inc does to a number. *)
inc_str(k, v) == (v + 1) % Wrap[k]

FirstChange(c) ==
  /\ pc[c] = "first" /\ service = "up"
  /\ Store(c, Key(c), inc_str(Key(c), store[c][Key(c)]))
  /\ expected' = [expected EXCEPT ![c][Key(c)] = 1]
  /\ KeyDone(c, "dispatch")
  /\ UNCHANGED <<retries, burst, sigint, parental, service>>

BadNotify(c) ==
  /\ pc[c] = "dispatch" /\ queue[c] # <<>>
  /\ LET n == Head(queue[c])
         left == expected[c][n.key] - 1
     IN  /\ expected' = [expected EXCEPT ![c][n.key] = left]
         /\ IF left <= 1
            THEN /\ burst' = [burst EXCEPT ![c] =
                                [key |-> n.key, left |-> burst_count, value |-> n.value]]
                 /\ Goto(c, "burst")
            ELSE UNCHANGED <<burst, pc>>
  /\ queue' = [queue EXCEPT ![c] = Tail(@)]
  /\ UNCHANGED <<retries, at, sigint, parental, service, store, made, refused>>

(* A notification of one of its keys: the last one expected starts a burst.   *)
Notify(c) ==
  /\ pc[c] = "dispatch" /\ queue[c] # <<>>
  /\ LET n == Head(queue[c])
         left == expected[c][n.key] - 1
     IN  /\ expected' = [expected EXCEPT ![c][n.key] = left]
         /\ IF left = 0
            THEN /\ burst' = [burst EXCEPT ![c] =
                                [key |-> n.key, left |-> burst_count, value |-> n.value]]
                 /\ Goto(c, "burst")
            ELSE UNCHANGED <<burst, pc>>
  /\ queue' = [queue EXCEPT ![c] = Tail(@)]
  /\ UNCHANGED <<retries, at, sigint, parental, service, store, made, refused>>

(* The next value of a burst: corosync counts numbers up itself, strings are  *)
(* counted by the child from the one it was notified of.                      *)
NextValue(c) ==
  LET k == burst[c].key
  IN  inc_str(k, IF k = "uint" THEN store[c][k] ELSE burst[c].value)

InBurst(c) == pc[c] = "burst" /\ burst[c].left > 0

BurstChange(c) ==
  /\ InBurst(c) /\ service = "up"
  /\ Store(c, burst[c].key, NextValue(c))
  /\ burst' = [burst EXCEPT ![c].left = @ - 1, ![c].value = NextValue(c)]
  /\ UNCHANGED <<pc, retries, at, expected, sigint, parental, service>>

(* The result of the call is not looked at. *)
BurstRefused(c) ==
  /\ InBurst(c)
  /\ refused' = [refused EXCEPT ![c][burst[c].key] = @ + 1]
  /\ burst' = [burst EXCEPT ![c].left = @ - 1, ![c].value = NextValue(c)]
  /\ UNCHANGED <<pc, retries, at, expected, sigint, parental, service, store, queue, made>>

BadBurstEnds(c) ==
  /\ pc[c] = "burst" /\ burst[c].left = 0
  /\ expected' = [expected EXCEPT ![c][burst[c].key] = burst_count + 1]
  /\ burst' = [burst EXCEPT ![c] = NoBurst]
  /\ Goto(c, "dispatch")
  /\ UNCHANGED <<retries, at, sigint, parental, service, map>>

BurstEnds(c) ==
  /\ pc[c] = "burst" /\ burst[c].left = 0
  /\ expected' = [expected EXCEPT ![c][burst[c].key] = burst_count]
  /\ burst' = [burst EXCEPT ![c] = NoBurst]
  /\ Goto(c, "dispatch")
  /\ UNCHANGED <<retries, at, sigint, parental, service, map>>

(* The dispatch loop is left on an error. *)
DispatchEnds(c) ==
  /\ pc[c] = "dispatch" /\ service = "gone"
  /\ End(c) /\ UNCHANGED sigint

ChildStep(c) ==
  \/ Interrupted(c) \/ Connect(c) \/ ConnectLater(c) \/ SetKey(c) \/ Track(c)
  \/ RequestFails(c) \/ FirstChange(c) \/ Notify(c) \/ BurstChange(c)
  \/ BurstRefused(c) \/ BurstEnds(c) \/ DispatchEnds(c)

------------------------------------------------------------------------------
(* The parent. *)
Fork ==
  /\ parent = "fork" /\ forked < no_childs
  /\ forked' = forked + 1
  /\ Goto(forked', "start")
  /\ UNCHANGED <<children, sigint, parent, waits, reaped, pipes, pfds, service, map>>

(* The assertion ends the parent; the children made so far go on. *)
ForkFails ==
  /\ parent = "fork" /\ forked < no_childs
  /\ parent' = "dead"
  /\ UNCHANGED <<pc, children, sigint, forked, waits, reaped, pipes, pfds, service, map>>

ForksDone ==
  /\ parent = "fork" /\ forked = no_childs
  /\ parent' = "sleep"
  /\ UNCHANGED <<pc, children, sigint, forked, waits, reaped, pipes, pfds, service, map>>

(* After the second in which SIGINT has its default action. *)
Wakes ==
  /\ parent = "sleep"
  /\ parent' = "wait"
  /\ UNCHANGED <<pc, children, sigint, forked, waits, reaped, pipes, pfds, service, map>>

Wait ==
  /\ parent = "wait" /\ waits < no_childs
  /\ \E c \in Child \ reaped : pc[c] = "ended" /\ reaped' = reaped \cup {c}
  /\ waits' = waits + 1
  /\ UNCHANGED <<pc, children, sigint, parent, forked, pipes, pfds, service, map>>

Finish ==
  /\ parent = "wait" /\ waits = no_childs
  /\ parent' = "finished"
  /\ UNCHANGED <<pc, children, sigint, forked, waits, reaped, pipes, pfds, service, map>>

(* sigint_handler_parent, from the top of its loop to poll(). *)
HandlerSignals ==
  /\ parent = "signal"
  /\ sigint' = [c \in Child |-> sigint[c] \/ (c \in pipes /\ Living(c))]
  /\ pfds' = SetToSortSeq(pipes, <)
  /\ parent' = IF pipes = {} THEN "wait" ELSE "poll"
  /\ UNCHANGED <<pc, children, forked, waits, reaped, pipes, service, map>>

HungUp == {j \in DOMAIN pfds : pc[pfds[j]] = "ended"}

BadHandlerPolls ==
  /\ parent = "poll"
  /\ LET res == Cardinality(HungUp)
     IN  pipes' = pipes \ {pfds[j] : j \in {h \in HungUp : h < res}}
  /\ parent' = "signal"
  /\ UNCHANGED <<pc, children, sigint, forked, waits, reaped, pfds, service, map>>

(* poll() returns after 100 ms or with res descriptors hung up, and the first *)
(* res entries are looked at, whichever they are.                             *)
HandlerPolls ==
  /\ parent = "poll"
  /\ LET res == Cardinality(HungUp)
     IN  pipes' = pipes \ {pfds[j] : j \in {h \in HungUp : h <= res}}
  /\ parent' = "signal"
  /\ UNCHANGED <<pc, children, sigint, forked, waits, reaped, pfds, service, map>>

ParentStep ==
  \/ Fork \/ ForkFails \/ ForksDone \/ Wakes \/ Wait \/ Finish
  \/ HandlerSignals \/ HandlerPolls

------------------------------------------------------------------------------
(* killall, or the user: SIGINT to one process.  To the parent, one that      *)
(* finds no pipe left changes nothing and is left out; so is one that comes   *)
(* during its handler, because it waits for the end of it.                    *)
InterruptChild(c) ==
  /\ Living(c) /\ ~sigint[c]
  /\ sigint' = [sigint EXCEPT ![c] = TRUE]
  /\ UNCHANGED <<pc, children, parental, service, map>>

InterruptParent ==
  /\ \/ parent \in {"fork", "sleep"} /\ parent' = "dead"
     \/ parent = "wait" /\ pipes # {} /\ parent' = "signal"
  /\ UNCHANGED <<pc, children, sigint, forked, waits, reaped, pipes, pfds, service, map>>

Next ==
  /\ \/ ParentStep \/ InterruptParent \/ CorosyncStops
     \/ \E c \in Child : ChildStep(c) \/ InterruptChild(c)
  /\ UNCHANGED options

Spec == Init /\ [][Next]_vars

FairSpec ==
  /\ Spec /\ WF_vars(ParentStep /\ UNCHANGED options)
  /\ \A c \in Child : /\ WF_vars(ChildStep(c) /\ UNCHANGED options)
                      /\ WF_vars(Interrupted(c) /\ UNCHANGED options)

------------------------------------------------------------------------------
TypeOK ==
  /\ pc \in [Child -> {"none", "start", "set", "track", "first", "dispatch", "burst", "ended"}]
  /\ parent \in {"fork", "sleep", "wait", "signal", "poll", "finished", "dead"}
  /\ \A c \in Child, k \in AnyKey :
       /\ store[c][k] \in 0 .. Wrap[k] - 1
       /\ expected[c][k] \in 0 .. burst_count /\ refused[c][k] \in 0 .. burst_count
  /\ reaped \subseteq Child /\ pipes \subseteq Child /\ service \in {"up", "gone"}

UnderWay(c, k) == Cardinality({j \in DOMAIN queue[c] : queue[c][j].key = k})

(* The notifications of a key that are under way are those the child still    *)
(* counts on: bursts never overlap, and at most burst_count notifications of  *)
(* a key wait in corosync.  Each refused change is one that will not come (a  *)
(* string may then lose one more, when it jumps round to the value it has):   *)
(* the count never reaches zero again.  (The types are part of the            *)
(* invariant.)                                                                *)
BurstsCounted ==
  /\ TypeOK
  /\ \A c \in Child, k \in AnyKey :
    LET owed == IF burst[c].key = k THEN burst_count - burst[c].left ELSE expected[c][k]
    IN  IF refused[c][k] = 0 THEN UnderWay(c, k) = owed
        ELSE UnderWay(c, k) <= owed - refused[c][k]

(* Every change moves the value by one, also over the end of a burst and over *)
(* the wrap of a letter: a string is continued from the newest value, which   *)
(* is the one the last notification carries.                                  *)
ValuesFollow ==
  \A c \in Child, k \in AnyKey :
    pc[c] \in {"first", "dispatch", "burst"} /\ k \in options.keys /\ (refused[c][k] = 0 \/ k = "uint") =>
      store[c][k] = (Start(c, k) + made[c][k]) % Wrap[k]

(* As long as no change of a key was refused, a child that dispatches comes   *)
(* to the next burst of that key: no notification is waited for in vain, and  *)
(* one key does not keep the other waiting.                                   *)
LoadGoesOn ==
  \A c \in Child, k \in AnyKey :
    (pc[c] = "dispatch" /\ k \in options.keys /\ refused[c][k] = 0 /\ service = "up")
      ~> (burst[c].key = k \/ pc[c] = "ended" \/ service = "gone")

AllEnded == parent \in {"finished", "dead"} /\ \A c \in Child : ~Living(c)

(* SIGINT to the parent, once it has its handler, ends everything, and so     *)
(* does the end of corosync.                                                  *)
EndsWhenTold ==
  /\ (parent = "signal") ~> (parent = "finished" /\ AllEnded)
  /\ (service = "gone") ~> AllEnded

===============================================================================
