# A TLA+ verification project for csts

csts (the Corosync Simple Test Suite) is a set of programs and shell scripts
that test the cluster engine corosync. This directory holds TLA+ models of the
parts of csts that have behaviour of their own, TLC configurations that check
them on small instances, and theorems about them checked by TLAPS. Corosync
itself, libcpg and the kernel are not part of the repository; where a model
needs them they are modelled from the way the code under `src/` uses them, and
`PROJECT.json` marks those definitions `external`.

    tlc -workers 2 -config TestScheduler.cfg MCTestScheduler   # one run
    tlapm TestSchedulerProofs.tla                              # proofs
    tlapm SmokeRingProofs.tla
    tlapm CpgLoadProofs.tla
    tlapm ConfchgViewProofs.tla
    tlapm ConfchgTestProofs.tla
    tlapm TcpListenerProofs.tla
    tlapm NodeLifecycleProofs.tla
    tlapm TrackAndChangeProofs.tla

`PROJECT.json` lists the components, the runs, the mutants, the source lines of
every definition, the hazards and the theorems.

## 1. Inventory

| Part | State it keeps | Operations | Talks to |
|---|---|---|---|
| **Test scheduler** `run-tests.sh` | `test_nodes_pid`, `test_nodes_test_name`, `test_nodes_test_out` per node; the position in the list of files; pass, fail and skip counters | skip, place, start, probe (`kill -0`), collect (`wait`), free, summary | forks one test per placement; sees it again only through `kill -0` and `wait` |
| **Round-robin smoke test** `smoke/corosync-api-test-mp.c` | per child two copies of a random stream, expected sender and number, "full membership seen", "go on" | fork, join, answer in turn, verify, leave, reap | children talk through a CPG group, the parent through `wait` |
| **Load generator** `apps/cpg-load.c` | `last_msg`, `last_expected`, position in a burst | burst of `num` messages, verification of the echo, exits | a CPG group shared with other senders |
| **Membership printer** `apps/cpg-confchg.c` | table of `MAX_NODES` nodes with one bit per source | two callbacks, the VIEW line | libcpg's membership callbacks; its log is read by the membership test |
| **Membership test** `tests/cpg-confchg.sh`, `tests/inc/confchg.sh`, `tests/inc/fw.sh` | what it believes of each node, the number of active nodes, retries | isolate, rejoin, check the last VIEW line, exit trap | runs on nodes over ssh; iptables; reads logs that lag behind |
| **TCP listener** `apps/tcp-listener.c` | table of clients by descriptor, poll array, line state, quit flag | accept, read, drop, stop on a signal | TCP peers, the kernel's descriptor table, stdout |
| **Node life cycle** `tests/inc/common.sh` | `corosync.conf` and its backup, running daemons, an alarm process | configure, start, wait, stop, exit trap | every test script sources it |
| **Interactive client** `apps/cpg-cli-client.c`, `tests/inc/cpg-cli-client.sh` | membership, sequence numbers, remaining burst, awaited sync | join, leave, send, sendrand, sendrandburst, sync | stdin commands, CPG; shell helpers search its log |
| **Socket/pipe adapters** `apps/usock-to-stdout.c`, `apps/stdin-to-usock.c` | one connection, end of the pipe | accept, copy, end on an empty connection | connect shell scripts with a running client |
| **Track-and-change load** `apps/confdb-track-and-change.c` | per child two keys, two counters of expected notifications; in the parent process ids and pipes | first change, bursts of changes, SIGINT to the children until the pipes hang up | cmap or confdb notifications |
| **SAM tests** `apps/sam-test1.c` ... `sam-test9.c` | the number of the instance, what it has stored for the next one | register, start, check, fail on purpose, be killed, warned and restarted | libsam (external) forks and supervises them |
| **API smoke test** `smoke/corosync-api-test.c` | a few globals set by callbacks | one pass over cpg, cfg, cmap, quorum | corosync's libraries |
| **CPG initialisation load** `apps/cpg-init-load.c` | children, collected exits | fork, initialise, collect | the daemon's client limit |
| the rest | none beyond a loop counter | map access programs, flooder, file corrupter, smoke scripts, tar writer, TAP and token helpers | single processes on a node |

What is hard here:

* *Interleavings.* Tests end at any point of the scheduler's scan; a CPG group
  delivers to each member at its own pace; ring and group changes reach a
  process through two callbacks; the listener serves several peers and a signal.
* *Stale or ambiguous observations.* `kill -0` answers for a process id, not for a
  test; the membership test reads the last line of a log; slots of closed
  connections keep their descriptor.
* *Failure.* fork, cpg calls, iptables, accept, lost, repeated or damaged
  messages, a script under `set -e` that ends in the middle of a step.
* *Something must end.* wait loops, bursts that wait for their own echo, parents
  that wait for children.

`PROJECT.json`, "hazards", has each of them at its line with the properties that
would notice it, or the reason why none does.

### What makes each modelled part correct

* Scheduler: tests that run together never share a node; a verdict is credited
  to the test that earned it, once; every test that can run is run and counted;
  the scan always has something to wait for; the suite ends.
* Round-robin: all copies of the stream stay in step without any message about
  them; at most one message is under way; parent and children end; success means
  that all children did the work.
* Load generator: success is never reported for a message that did not come back
  exactly once, in order and intact; one burst at a time; refused sends cost nothing.
* Membership printer: one slot per node whatever is reported; the VIEW line
  compares the two sets last reported.
* Membership test: no acceptance of a wrong membership although only numbers are
  compared with a log that may be old; no node stays cut off, except by a rule
  that could not be deleted; it ends.
* Interactive client: commands are carried out once and in order however they
  reach it; the group sees each command as one uninterrupted run of messages; a
  sync is a barrier; bursts and syncs end; an end of the input is not missed.
* TCP listener: bytes are printed once, in order, under their sender; slots and
  descriptors agree; everybody is served, unless one client never stops sending;
  the signal ends it.
* SAM tests: a pass means that every instance of the program did its steps and ended
  the way the program needs; a wrong answer of the library reaches the exit code;
  each test ends.
* Track-and-change load: bursts do not overlap, each change is a change, the load
  does not stop by itself, and it stops when it is told to.
* Node life cycle: whatever happens to tests, a node's own configuration survives;
  a trap that works leaves the nodes as they were; each test ends.

## 2. Modules

    TestRunner (abstract)     <-- refines --  TestScheduler  <- TestSchedulerProofs
    RoundRobin (abstract)     <-- refines --  SmokeRing      <- SmokeRingProofs
    CpgLoad                                                  <- CpgLoadProofs
        (SmokeRing, CpgLoad and CpgCliClient EXTEND CpgGroup, which is external)
    MembershipView (abstract) <-- refines --  ConfchgView    <- ConfchgViewProofs
               \------ INSTANCE, one per node, in ConfchgTest <- ConfchgTestProofs
    TcpListener                                <- TcpListenerProofs
    CpgCliClient -- EXTENDS CpgGroup, UsockPipe
    SamRecovery  -- EXTENDS SamTests (the nine programs)
    TrackAndChange                             <- TrackAndChangeProofs
    NodeLifecycle                              <- NodeLifecycleProofs

| Module | Models | How its state corresponds to the code |
|---|---|---|
| `TestRunner` | the promise of `run-tests.sh` | a phase, a set of nodes and a verdict per test; no process ids |
| `TestScheduler` | `run-tests.sh` | the two arrays per node keep their names; the name and output arrays are one, `test_nodes_test`, because they are always written together; `pc` is the place in the script; `proc`, `status` are what the kernel and bash know |
| `CpgGroup` | a CPG group | one log, a cursor per member, a queue of requests not yet ordered |
| `RoundRobin` | the exchange of the smoke test seen from outside | how many messages were sent, and received by each child |
| `SmokeRing` | `corosync-api-test-mp.c` | globals keep their names, one copy per child; a seed is the number of blocks drawn from the random stream, so a block matches iff both sides drew equally often |
| `CpgLoad` | `cpg-load.c` | `last_msg`, `last_expected`, `i`, `result` keep their names; `max_msgs` is a function because a run mixes processes with and without `-m` |
| `MembershipView` | the promise of `cpg-confchg.c` | the two sets of nodes and the last line |
| `ConfchgView` | `cpg-confchg.c` | the table `nodes`, the list under way and the index in it |
| `ConfchgTest` | the membership test | shell variables keep their names; `rules`, `started`, `joined` are the nodes' side; each node's printer is an instance of `MembershipView` |
| `TcpListener` | `tcp-listener.c` | `clients`, `poll_fds`, `exit_app`, `header_printed`, `last_was_cr` keep their names; `open`, `backlog`, `inbox` are the kernel's |
| `UsockPipe` | `stdin-to-usock.c`, `usock-to-stdout.c` and the shell functions that start, feed and stop them | a command is its position in the script; `conns` are the connections, `pipe` what is between the adapter and the reader, `cut` that its ssh has ended; `first_input` keeps its name |
| `CpgCliClient` | `cpg-cli-client.c` | globals keep their names; `buffer` is the stdio buffer of stdin, `ready` the `revents`, `executed` and `delivered` are histories |
| `SamTests` | `sam-test1.c` ... `sam-test9.c` | each instance of each test is a sequence of steps: a call and the answer it wants, a sleep, a check, an exit |
| `SamRecovery` | the process that runs them, and libsam | `Program` is what the present instance runs; `At` its place in it; the supervisor, its timers and the quorum are external |
| `TrackAndChange` | `confdb-track-and-change.c` | `expected` is `expected_msgs_uint` and `expected_msgs_str`, `pipes` the entries of `child_pipes` that are not 0, `pfds` the array for `poll()`; `queue` are corosync's notifications |
| `NodeLifecycle` | `common.sh` | `pc` is the place in the script, `conf` and `bck` are the two files, `daemon` and `pidfile` a node's corosync, `alarm` the asynchronous process of line 547 |

An action is one step of a program between two points where somebody else can be
noticed: one probe of a process id, one `poll`, one `recv`, one callback, one
iptables call. Everything the code does in that step is in the action.

Some choices that a reader may question:

* `TestScheduler`: bash reaps a child as soon as it dies and keeps its exit status
  for `wait`, so its process id is free for the system from that moment
  (`TestExits`); `ForeignStarts` may take it. A process id whose status bash still
  keeps is not given to another test; Linux goes through all ids first.
  On the value "0" of a free node `kill -0` succeeds, as it does for the caller's
  process group; this is why the scan must never run with nothing to wait for.
* `SmokeRing`: `cpg_dispatch(CS_DISPATCH_ALL)` delivers any number of events before
  `test_cpg_loop_cont` is looked at, so a child can receive messages past
  `MESSAGES_TO_SENT`; `Dispatch` and `DispatchEnds` are separate for that reason.
* `CpgLoad`: without `-m` the limit is the largest unsigned number, here the model
  value-like `NoLimit` that no count reaches. Checksum and length of a message are
  one fact, damaged or not.
* `CpgCliClient`: `fgets` on an empty stdio buffer takes everything that is in the
  pipe and returns one line; the other lines are invisible to `poll()` until more
  input or its end arrives. So a command can wait in the buffer although the
  client is idle; that is the code's behaviour, and `CommandsInOrder` and
  `ExitIsHeard` say what still holds. The 45 retries of a send are part of its
  action: the client does nothing else meanwhile. `Dispatch` takes all events at
  once, which differs from one at a time only for a damaged message, which
  `DispatchDamaged` lets be any of them.
* `UsockPipe`: a sender that fails makes the script stop (`set -e`) or, in a command
  substitution as in `cpg_cli_client_listmem`, go on; `GoOnAfterFailure` has both.
* `ConfchgView`: a list names a node twice when two processes of that node are in
  the group; the code must cope because a node keeps one slot.
* `SamTests`: what a test prints is left out, and time is counted in ticks of half the interval of the
  health checks (1 s, in `sam-test5.c` 50 ms). A tick passes when nobody has
  anything to do; a late machine costs an instance up to `Slack` ticks.
* `TrackAndChange`: the command line is chosen in `Init`. Corosync tells every child
  of all keys below `testconfdb.`; the callback returns at once for a foreign key,
  so a queue holds the child's own. All letters of a string move together, so a
  string is its first letter. The program is compiled for cmap or for confdb; both
  callbacks have the same steps, and the model is of both.
* `NodeLifecycle`: a probe through ssh that fails says the same as "not there". A
  test that follows starts from what the one before it left. `misread` and `clean`
  are histories that say which failures happened; the properties are conditional
  on them.
* `TcpListener`: `last_was_cr` has no initial value in the source (line 155);
  `Read` gives it any value. The kernel hands out the lowest free descriptor.

### Operators named Bad...

A definition whose name starts with `Bad` is the definition after it with one
plausible mistake: a dropped guard, a missing reset, a swapped order, an
off-by-one. No specification uses it. With `of` replaced by it, the run named in
`PROJECT.json` ("mutants") finds the property violated. Every property of every
passing run has one; that is the evidence that the property can fail.

## 3. Runs

All state spaces are explored completely. Deadlock is checked in `lifecycle`, where
one test follows another; all other programs end. The first invariant of each run
has the types of the module's variables as its first conjunct (`TypeOK`).

| Run | Question | Instance |
|---|---|---|
| `scheduler` | Safety of the node table, reports and counters; refinement of `TestRunner`; does the suite end? | 3 nodes, 3 files, 3 process ids, 1 foreign process |
| `smoke_ring` | Do the streams stay in step, is success honest, does everybody end? Refinement of `RoundRobin` | 3 children, `MESSAGES_TO_SENT` 2, every pattern of failing forks, 1 library call that fails |
| `cpg_load` | Soundness of success, flow control, end | one sender with `-m 3`, one without; burst 2; 1 refusal; 1 fault |
| `confchg_view` | Table and VIEW line; refinement of `MembershipView` | 3 nodes, 2 slots, lists of up to 3, 4 reports |
| `confchg_test` | Acceptance, firewall, end | 3 nodes, 3 rounds, 1 retry, 1 fault (a command of the test body or of the trap) |
| `tcp_listener` | Attribution and completeness of output, slots and descriptors | 3 peers, 2 slots, 2 descriptors for clients, 2 bytes each, `recv` of 1 byte |
| `tcp_listener_live` | Is everybody served, does the signal stop it? | 2 peers that may send for ever, 1 slot, `recv` of 2 bytes |
| `cpg_cli` | Order and completeness of commands, bursts, syncs, end of the input | 6 scripts of 3 commands, a backlog of 1, 1 sender that dies, 1 message of another member, 1 fault |
| `sam` | Is a pass honest, do failures show, does each test end? | all 9 tests, each with a right library, with one wrong answer anywhere, with a supervisor that never acts, and on a late machine |
| `track` | Counting of notifications, values, progress, end | 2 children with a string each, 1 child with both keys, or 1 with none; bursts of 2; 2 numbers, 3 letters |
| `lifecycle` | Is the configuration kept, are nodes restored, does each test end? | 2 nodes, 1 retry, any number of tests |
| `cpg_cli_refused` | Does a refused command send nothing? (no) | as `cpg_cli`, no faults |

The longest take about three minutes with two workers.

### What the runs of the SAM tests say

With a right library on time all nine tests pass, and each pass is the run that the
program was written to make: so many instances, each past the calls it makes, each
ended in the way the next one relies on (`PassesAsProgrammed`). What is programmed
is not always what the comments describe; "What the models showed" lists where. The
other cases give the limits of the tests:

* On a late machine tests 2, 3, 4, 7 and 9 are still right. Tests 1 and 5 may fail:
  their health checks come half an interval before they are due. Tests 6 and 8 may
  pass without their whole story.
* With a supervisor that never acts tests 8 and 9 fail, and 2 and 6 wait for ever.
  Tests 1, 5 and 7 pass: `sam-test7.c:173` prints "wasn't killed" and returns 2, but
  from an instance under supervision, which is restarted and then returns 0.
* One wrong answer of the library shows in the exit code of tests 2, 3, 4, 8 and 9
  (`FailureShows`); in tests 1, 5, 6 and 7 the restart can mask it.

### Bounds and why they are enough

The theorems of section 4 hold for all values of these constants. What the bounds
leave open concerns the liveness properties and the modules without theorems.

* `TestScheduler`: the interesting cases are a test that must wait for two others,
  a node freed while another is busy, a report in another order than the starts,
  and a process id reused while it is scanned. Three nodes and three tests with
  needs of 1, 2 and all 3 nodes have them. The kinds of file that are not started
  (not executable, not enabled, too many nodes) and the test that needs all nodes
  appear once in a suite at most (`MCInit`): they interact with the others only
  through the position in the list and the free nodes. `MaxReuse` 1 bounds foreign
  processes.
* `SmokeRing`: the program has `NO_CHILDS` 3, and so has the run; its `MESSAGES_TO_SENT`
  is 128 times that, here 2: the messages only count the turns, and two let some
  children have one and the others none before the limit.
  `MaxSeq` lets the exchange run one message past the limit, which is where
  children that already left and those that still dispatch meet; messages above it
  stay unordered, which is a behaviour the daemon may show.
* `CpgLoad`: three messages with bursts of two give a full and a partial burst.
  `MaxSent` stops the unlimited sender.
* `ConfchgView`: two slots for three nodes exercise the full table; node ids are
  interchangeable (symmetry; the run has no liveness property).
* `ConfchgTest`: three rounds reach every pattern of isolated nodes up to all of
  them and a return; retries only matter as "some" and "none left". The one fault is
  a failing iptables of the test, a refused deletion in the trap, a node that does
  not answer or a process that dies; the theorems are about any number of them.
* `TcpListener`: two slots and three peers give reuse of a slot, of a descriptor,
  and a peer that finds both taken. With `Chunk` 1 a line needs several calls of
  `recv`. A peer in `Busy` is bounded in what waits to be read (`MaxBytes`), not in
  what it sends, so it can send for ever; nothing is recorded of its bytes. In
  `tcp_listener_live` all peers are busy ones; in `tcp_listener`, where the bytes are
  compared, none is and each sends at most `MaxBytes`. In `tcp_listener` the descriptors run out with the slots (accept
  fails); in `tcp_listener_live` they do not (the connection is turned away).

* `SamRecovery`: `Crashes` and `LastCheck` have the values of the programs, and the
  tests are run whole. Two ticks of lateness are a whole interval. `Horizon` caps
  time stamps above all that are compared. One wrong answer at any call is enough
  for `FailureShows`, which is about a single failure being masked.
* `TrackAndChange`: bursts of 2 have a first, a last and an overlap; two keys in one
  child show that one does not hold up the other, two children (`MaxChilds`) that the
  handler meets some hung up and others not, and a child without a key has only the
  heartbeat. The wraps are small so that they happen within a burst: what matters is
  that two values in a row differ, and with three letters a string that was not
  continued from the newest one shows.
* `NodeLifecycle`: what is done to one node meets the trap on another one; two nodes
  have all cases of before, at and after it. The number of tests is not bounded,
  because what a test leaves is one of finitely many states.

* `CpgCliClient`: a burst followed by two commands is what fills the stdio buffer
  behind a line; a sync before and after a burst, with a number of its own and
  with one that the burst and the other member use too, are the cases of
  `SyncIsBarrier`; the other scripts hold each form of each command once. With one
  place in the backlog a second sender waits while the first is served.

### Fairness and why the code justifies it

* Sequential programs (`Script`, `ChildStep`, `MainStep`, `Program`, ...): weak
  fairness of their step. They are ordinary processes that the kernel schedules;
  none of their steps waits for a lock.
* Tests end (`TestExits`): `run-tests.sh` itself has no timeout; each test script
  arms the alarm of `common.sh` for that purpose. Foreign processes that took a
  process id end as well; without this the scan would wait for them for ever.
* The adapter of the interactive client copies what it receives; the script that
  feeds it, the senders and ssh need not do anything.
* SAM: everything the process, the supervisor and the clock do is fair; faults are
  chosen in `Init` or by a step that is not fair. `TestEnds` excepts tests 2 and 6
  under a supervisor that never acts.
* `TrackAndChange`: each process is fair, and a pending SIGINT is delivered. SIGINT
  itself, refusals and the end of corosync are not fair.
* `NodeLifecycle`: nothing is assumed of what a test does before its trap: the fair
  steps are the trap's and the first ring of the alarm, a `sleep` that ends.
* Corosync orders what was asked (`DaemonOrders`) and forms memberships: without
  it no CPG program can make progress, and the programs do not claim to.
* TCP listener: only the program is fair. A peer may send or not; one that does it for
  ever (`HeldBy`) is the exception of `EveryPeerServed`.
* Nothing that is a fault (refusals, lost messages, failing calls, signals,
  peers) is fair. Liveness that only holds without faults says so in its formula
  (`AllExit`, `AllSucceed`).

### What the models showed

`cpg_cli_refused` expects a violation. `RefusedSendsNothing`: `sendrandburst` with a
missing or too small number is reported as refused by `cpg-cli-client`, but the
numbers before the fault are kept and the burst is sent; with the count alone a new
client divides by zero (`cpg-cli-client.c:542`).

Other places where the code does not do what its comments lead one to expect; the
properties above are stated so that they are true of the code:

* `corosync-api-test-mp.c:348`: when `fork` fails the parent goes on, and can return 0
  although not all `NO_CHILDS` children ran. `SuccessMeansDone` is about the children
  that exist.
* `cpg-load.c:393`: `CS_ERR_LIBRARY` from the dispatch, or a failed poll, ends the
  program with 0 also with `-m` and before all messages came back; and without `-m`
  errors after the start end it, where the usage says that only startup errors are
  fatal. `SuccessSound` counts as a success only the way out through `max_msgs`.
* `fw.sh:26`: each `iptables -D` of the trap has `|| true`. One that fails leaves its rule
  and nobody notices: the trap ends as if the node were reachable again, and the next
  test finds it cut off. `NobodyLeftCutOff` says that this, or a trap that did not
  come to its end, is the only way: whatever rule is there is one whose deletion failed.
* `tcp-listener.c:185`: `read_client_msg` receives until nothing is left. A client that
  sends faster than it is read keeps the only thread, and no other client is read, let
  in or let go. `EveryPeerServed` excepts exactly that; without the exception
  `tcp_listener_live` finds two peers of which one sends for ever.
* `tcp-listener.c:176`: a client that closes within the call of `read_client_msg` that
  printed its unfinished line gets the Close record on that line.
* `confdb-track-and-change.c:143`: a change that is refused in a burst is counted as
  expected; no notification comes, and that key is never changed again. For a
  string the values no longer follow one another then, and when it jumps round to
  the value it has, one more notification is missing. `BurstsCounted` has the exact
  count; `LoadGoesOn` and, for strings, `ValuesFollow` are about keys without a
  refused change.
* `confdb-track-and-change.c:369`: SIGINT within the first second has its default
  action in the parent; the children go on without it.
* `common.sh:146`: a probe that fails for another reason than the file not being there
  (ssh) makes `configure_corosync` write over the original, or put a generated file
  in its place. It is the only way to lose it in the model, where a `mv` is one step
  (section 6).
* `common.sh:547`: the alarm's shell is asynchronous and ignores the SIGINT of
  `exit_trap`, and `pkill -P` ends only its `sleep`. Before it rang, that ends the
  alarm. After it rang, it wakes the loop, a second SIGALRM ends the trap before the
  nodes are restored, and the loop goes on to signal a process id that may be
  another's. The test ends (`TestEnds`) and the next trap can restore the nodes.
* `sam-test1.c:57-63`: the comment has one health check before the first forced restart,
  a second instance that sends one, stops, sleeps, starts and sleeps, and a last one
  that does start, stop and start again and then tries every function. The code sends
  ten health checks a second apart in both instances before it stops sending them, the
  third starts once, stops and finalizes twice, and then tries six calls, none of them
  `sam_data_*`, `sam_warn_signal_set` or `sam_mark_failed`. `Test1` is the code.
* `sam-test7.c:129`: the comment gives the thread that ends the first instance 10 s,
  the thread sleeps 5 (line 60), and the message at line 133 says 5. `Test7` has 5.
* The SAM tests that pass without what they test: see above.

## 4. Proofs

### The scheduler

`TestSchedulerProofs` proves for any number of nodes, tests and process ids, any
suite and any number of foreign processes:

* `TypeCorrect`: `FairSpec`-independent, `Spec => []TypeOK`;
* `TableCorrect`: `Spec => []TableMatchesJobs`;
* `Exclusion`: `Spec => []NodesExclusive`;
* `ReportsCorrect`: `Spec => []ReportsRight`;
* `SummaryCorrect`: `Spec => []SummaryRight`;
* `Implements`: `Spec => RunnerSpec`, the refinement of `TestRunner`.

Assumptions: only `SchedulerAssumption`, the types of the constants.

`NodesExclusive` is not inductive: it speaks of what the tests were told, and the
script decides by its table. `TableMatchesJobs` connects the two (a node is marked
with `p` iff the test behind `p` is not collected and was given that node), but
needs three more facts to be inductive, which together are `IInv`:

* `TypeOK`;
* `Placed`: the file being placed passed the checks of the main loop, so that its
  need is at most the number of nodes;
* `ScriptInRange`: there is a file to place while one is placed, and `wait_for_any`
  echoes a real process id;
* `StatusAfterEnd`: bash keeps a status only of a process that has ended, so
  collecting one cannot free the nodes of a running test.

The argument for the two steps that matter: `start_test` takes nodes out of
`FreeNodes`, and lemma `FindFreeNodes` says that it takes exactly as many as asked
for (the lowest ones; `Numbering` maps a finite set of naturals one to one to
`1 .. Cardinality` by the rank of its members, so that the lowest k are k); by `IInv`
no node of an uncollected process is free, so the new set is disjoint from all others. `finish_test` frees the nodes marked with
a process whose status is known, and by `StatusAfterEnd` that process does not run.
`Exclusion` follows: two running processes own disjoint parts of one table.

`NextIInv` has one lemma per group of actions: those that leave the table alone
(`TableUnchanged`, `ControlIInv`), `StartIInv`, `FinishIInv`, the machine
(`MachineIInv`).

`ReportsRight` and `SummaryRight` are about the past of the suite, which `IInv` does
not mention. `HInv` (theorem `History`) is inductive relative to `IInv`:

* `JobsRight`: a process whose status is not collected stands for one test, which was
  started, is not in the report, and whose verdict is the status bash keeps; two such
  processes stand for two tests. This is what makes the reuse of a process id
  harmless: what is read through an id can only be the verdict of its own test;
* `TestsRight`: a file the loop has passed and can run is in the report or belongs to
  an uncollected process; one it has not reached has no verdict;
* `CountersRight`: the counters are the lengths and cardinalities they stand for, and
  at the end all nodes are free.

When the script ends, no process is uncollected, because all nodes are free and a
test has at least one; by `TestsRight` the report then has exactly the tests that
can run, and `SummaryRight` counts them.

`Implements` takes the phase of a test from the place of the loop, the report and
the verdict (`Phases`). Each step is then `Start`, `End`, `Report`, `Skip` or
`Ignore` of the runner for one test, or changes no phase, node or verdict. `Report`
of the runner gives the nodes of one test back, so `finish_test` must free what
that test was given, which is `IInv`.

### The round-robin smoke test

`SmokeRingProofs` proves for any number of children and messages, failing forks and
failing calls, and any delay of deliveries (`RingAssumption`: the types of the
constants, at least one child, and a bound `MaxSeq` above `MESSAGES_TO_SENT`):

* `SuccessIsDone`: `Spec => []SuccessMeansDone`;
* `SeedsAreInSync`: `Spec => []SeedsInSync`;
* `Implements`: `Spec => RingSpec`, the refinement of `RoundRobin`.

`SuccessMeansDone` needs only `ControlInv`: a loop around `cpg_dispatch` ends behind
the limit, children are forked in order, and a parent that still waits has collected
only children that exited.

`SeedsInSync` says that no assertion of `DeliverCallback` fails, which depends on
what all other children sent. `RingInv` has it per child and per message:

* a message in the log, or first in a child's queue, `Fits` its place: its sender
  and content are those of its number, all smaller numbers and the full
  configuration come before it, no number as great or greater does, and its sender
  had received the message before (`Due`);
* what a child has counted is what it has read of the log (`ReadRight`), and what it
  has drawn is what it has counted, for sending one block more once the full
  membership was seen (`CountsRight`);
* a child has at most one request in its queue, two when it has ended (`QueueRight`).

So there is never a choice about the next message: if two children had one waiting,
each would fit the end of the log, so both would have the same number, and with it
the same sender. An unread message has a number not below the one its reader
expects, and all smaller ones precede it, so the next one read is the one expected.

For `Implements`, `sent` is how many different numbers were sent (`MessageSeqs`); the
proof shows that these are the numbers 0 to `sent - 1`, so that a child whose turn
it is adds the one `RoundRobin` wants, and everybody else adds none.

### The load generator

`CpgLoadProofs` proves for any number of processes with and without `-m`, any size
of a burst, and any number of refusals, losses, repetitions, damages and failing
calls (`LoadAssumption`):

* `Success`: `Spec => []SuccessSound`;
* `Flow`: `Spec => []FlowControl`.

`LoadInv` says of each process: at most `num` messages lie between `last_expected`
and `last_msg` (`CountsRight`); what each place of `main` knows, above all that
within `send_msgs` that difference is at most the attempts made so far
(`PlaceRight`); the messages that came back are those before `last_expected`, in
order (`EchoRight`); its own messages in the log and in its queue have increasing
numbers below `last_msg`, and those not read yet are not below `last_expected`
(`LogRight`, `PendRight`). A repeated message has an old number and a lost one
leaves a gap; the comparison in `DeliverCallback` ends the process on either.
`Flow` follows by counting: messages on the way have different numbers in
`last_expected .. last_msg - 1`, and there are at most `num` of those
(`NoMoreThanNumbers`).

### The node life cycle

`NodeLifecycleProofs` proves for any number of nodes and of retries, with nothing
assumed but that both are at least 1 (`NodesAssumption`):

* `OriginalIsKept`: `Spec => []OriginalKept`;
* `CleanTrapRestores`: `Spec => []TrapRestores`.

`OriginalKept` is not inductive: with the original in both places, or in `bck` while
something else is in `conf`, the next `mv` could go either way. `KeptInv` says where
the original can be (`Safe`: put aside, or in place with nothing put aside) and what
the probes of `configure_corosync` have established by the time the file is moved
(nothing is put aside) and by the time it is written over (the original is put
aside), each unless a probe failed on that node. `KeptStep` has a step per action;
the ones that matter are `Configure`, where the probes are true or `misread`, `BackUp`
and `TrapRestore`, which move the file between the two places of `Safe`.

`CleanTrapRestores` adds `TrapInv`: a trap that has met no failure has restored all
nodes before the one it is at. By `Safe`, putting back what was put aside puts back
the original, also on a node that some earlier test left in the middle.

### The membership printer

`ConfchgViewProofs` proves for any number of nodes and slots, any number of reports
and lists of any length (`ViewAssumption`):

* `TableIsSound`: `Spec => []TableSound`, which is inductive. The step that matters
  is `MarkSound`: a node without a slot takes the first free one, so the used slots
  stay the first ones (`FirstSlot`, by the least-number principle);
* `ViewImplemented`: `Spec => ViewSpec`, the refinement of `MembershipView`. The
  refinement mapping is `Seen`. `MarksInv` connects the marks with the reports: a
  slot has the mark of a list iff its node is among those reported last, or, while
  that list is being handled, among those handled so far (`Done`); and a node of
  either set without a slot found the table full. The first says that
  `display_nodes_view` finds the two sets and that comparing slots compares them
  (`LineIsView`: slots with both marks and nodes reported correspond one to one).
  The second says that `Seen` does not change before the callback ends: a free slot
  is only taken by a node that is in neither set (`NodeMarks`);
* `NothingIsInvented`: `Spec => []NothingInvented`, from `MarksInv` and `LineInv`,
  which adds that the line is still about the two sets between reports.

### The membership test

`ConfchgTestProofs` proves `NoNodeLeftCutOff`, `Spec => []NobodyLeftCutOff`, for any
number of nodes, rounds, retries and faults (`TestAssumption`), faults in the trap
included: after a trap that ended normally, the rules left on a node are among those
whose deletion failed there (`refused`). `CutInv` adds that the trap has left no other
rule on the nodes it has passed. The type of `active_nodes` is
not inductive either: it stays within `0 .. NoNodes` because it counts the nodes that
are up, and while they are started, those are the ones before `at`.

`Accepted`, `Spec => AcceptedIsRight`, is about an action: the script takes a line
whose numbers are the number of active nodes for the set of nodes in reach. The
line may be old, or of a process that has died. `ReachInv` has what makes the
numbers enough: the line is that of the node's two sets (`ViewRight`), and while
the script checks, a node's ring and the nodes it can reach contain one the other
(`RingRight`), so that they are equal when they are as many. A change of the
firewall keeps this because the script changes one node at a time, and only when
all views have been accepted (`CheckedRight`): then every ring is what its nodes
reach, and one node is taken away or added. A new ring keeps it because rings form
within reach.

### The TCP listener

`TcpListenerProofs` proves for any size of the table, any limit on descriptors, any
number of peers, and messages and calls of `recv` of any size (`ListenerAssumption`):

* `TableInStep`: `Spec => []FdIsSlot`;
* `EverythingPrinted`: `Spec => []RightClient`;
* `LinesFinished`: `Spec => []LineFinished`.

They are proved together; `LInv` adds what they need of one another: the descriptor
beyond the limit is never in use, so that a lowest free one exists (`SpareFd`);
`poll_fds` begins with the server socket and, from the entry that is handled on,
lists different clients that are still there (`PollRight`), although clients are
dropped and accepted in the same pass; a connection that `poll` announced is still
waiting at `accept` (`BacklogWaits`); and the place of the loop (`PlaceRight`).
The lowest free descriptor is that of the lowest free slot, which is why slots and
descriptors fill up in step. `RightClient` rests on `FdIsSlot`: `client_fd_to_id`
also looks at slots that are not in use and keep an old descriptor, and still finds
the right one. That `fill_poll_fds` lists each active slot once rests on `Numbering`: a
finite set of naturals has exactly one n-th member for every n up to its size. 
`LineFinished` says that a line is open only while the client it belongs to is read,
and that a header is wanted there exactly at the start of a line. It holds because,
whatever `last_was_cr` is before the first byte, it is never set while a line is
unfinished (`LineRight`), so the end of the read finishes it. The Close record of that
same client is printed within its read and is not part of the statement. `RightClient`
is about the peers whose bytes are recorded, those not in `Busy`, beside any others.

### The track-and-change load

`TrackAndChangeProofs` proves for any set of command lines, any number of children,
any length of a burst and any number of values of a key (`LoadAssumption`: at least
one child, a burst has a change, a key has two values):

* `Bursts`: `Spec => []BurstsCounted`;
* `Values`: `Spec => []ValuesFollow`.

Neither is inductive. `LoadInv` (theorem `LoadInvariant`) says of each child and key:

* `Counted`: the notifications in the queue are those the child still has to count,
  fewer by at least the refused changes once there is one (`BurstsCounted` itself);
* `Told`: the last notification of a key in the queue carries the value corosync has;
* `Bursting`: as long as no change of it was refused, a burst continues from the value
  corosync has;
* `Followed`: that value is the start plus the changes made (`ValuesFollow` itself);
* `Begun`: what is set and counted at each place of the start, key by key.

The step that matters is `Notify`. When the count reaches zero no change was refused
(a refused one keeps the count above what is under way), and by `Counted` the
notification taken was the only one of its key, hence the last, so by `Told` the burst
continues from the newest value. As a key has two values at least, each change of such
a burst is a change and is notified; so `Counted` stays exact. `CountAppend` and
`CountTail` count the notifications of a key in a queue, `ChangeFollows` is the
arithmetic of values that wrap. A step of one child leaves the others alone
(`KeptIsRight`), and those of the parent leave all of them alone but the one it makes.

### What is only model-checked

* All liveness properties (`SuiteEnds`, `AllExit`, `AllSucceed`, `TestEnds`,
  `EveryPeerServed`, `SignalStops`, `NeverBlockedForever`, `ExitIsHeard`,
  `LoadGoesOn`, `EndsWhenTold`): fairness and `ENABLED` are beyond the prover.
* `CommandsInOrder`, `StreamAsCommanded` and `SyncIsBarrier` of `CpgCliClient`: they
  speak of the commands in all connections one after the other, or of what each command
  stands for one after the other. Both are folds over a sequence, and a theorem would
  need induction over it.
* `PassesAsProgrammed` and `FailureShows` of `SamRecovery`: the programs are fixed and
  the run has all of them with every single fault; a proof would enumerate the same
  steps again.

## 5. Plan

Done: the parts of section 2 with their abstract specifications, and the proofs of
section 4.

To come, in this order:

1. The helpers of `cpg-cli-client.sh` that search the client's log, with the retry
   counter that all nodes share (line 60).
2. `CpgInitLoad` (`cpg-init-load.c`): forks that fail and the collected exits (line 111).
3. `CommandsInOrder` of `CpgCliClient` stated place by place (executed, buffer, pipe,
   each connection) instead of over their concatenation, and proved in that form.

## 6. Not modelled, and why

* Wording, colours and layout of the output, except where a property is about it
  (the VIEW line, the lines of the listener).
* Option parsing, ssh and compilation on the nodes: each is one command that
  succeeds or ends the script.
* The contents of messages beyond what tells a right from a wrong one.
* `corosync-api-test.c`: one pass over the libraries in one process; its two dispatch
  loops wait for one event each.
* libsam, libcpg, cmap and confdb: not in the repository; the models have what the
  programs rely on.
* Map access programs, memory leak tests, flooder, file corrupter, smoke scripts,
  tar writer: straight sequences of calls whose state is corosync's; there is
  nothing for a model checker to interleave.
* Within the modelled programs, ways out that end a program or a script at once and
  that no property depends on: a command of `run-tests.sh` itself that fails under
  `set -e` (near line 205); the `err(1)` of the listener's `recv`
  (`tcp-listener.c:188`); a failed `fork` in the
  mains of `sam-test8.c` and `sam-test9.c`, which return 2.
* An event of the listener without `POLLIN` (`tcp-listener.c:378-381`), on which it
  drops the client without reading: Linux reports the end of a connection with `POLLIN`.
* A `mv` of `common.sh` is done at once or not at all. Across file systems it is a copy
  and a removal, and a node that dies in between can be left with half a file.
* Commands of the interactive client that are longer than the 512 bytes of its `fgets`
  buffer, and bursts with a negative count.
* `testcpg.c`: a copy of corosync's interactive example.
