# TLA+ models and proofs of nPerf

nPerf measures UDP throughput and packet loss between a sender and a receiver.
Each side starts `--parallel` threads. A sender thread announces its test with
INIT, sends MEASUREMENT messages with consecutive packet ids until its run time
is over, and ends with LAST. A receiver thread counts what arrives per test and
derives loss, reordering and duplication from the packet ids. Both sides can
use send/recv, sendmsg/recvmsg, sendmmsg/recvmmsg (with busy waiting, select or
poll) or io_uring in several modes.

This directory holds TLA+ modules for the parts whose correctness is hard to
test, TLC configurations that check them, and TLAPS proofs.

## Inventory

| Component (source) | State | Operations | What is hard | What makes it correct |
|---|---|---|---|---|
| Sender, non-uring (`node/sender.rs`) | `next_packet_id`, message buffers, statistic | `send`, `sendmsg`, `sendmmsg`, `io_wait`, `run` | partial `sendmmsg`, EAGAIN after ids are stamped | each id handed over once and in order; the sent counter agrees |
| Receiver, non-uring (`node/receiver.rs`, `util/mod.rs`) | `next_packet_id`, statistics, receive buffers | `recv`, `recvmsg`, `recvmmsg`, `process_packet_number` | loss, reordering, duplication, batches, several tests | omitted = missing ids, counters balance |
| Session (`Sender::run`, `Receiver::run`, `parse_message_type`) | measurements, sockets, timeouts | INIT, MEASUREMENT, LAST, timeouts, close | which thread gets which message; lost LAST; timeouts against pauses | threads end, sockets do not close too early, no delivered data is discarded |
| io_uring receiver, normal (`receiver.rs`, `io_uring/mod.rs`, `normal.rs`, `packet_buffer.rs`) | index pool, SQ, CQ, `amount_inflight` | fill, submit, enter, complete | kernel concurrency, early returns in the middle of a batch | one owner per buffer, no overrun, nothing leaked, the loop ends |
| io_uring receiver, provided buffers and multishot | buffer ring, armed flag, `amount_inflight` | as above | early returns forget counts and the armed flag; the kernel chooses the buffer on arrival | no buffer leaks or is given back early, the count drifts to the safe side only, an armed receiver is not deaf |
| io_uring sender (`sender.rs`, `io_uring/send.rs`) | index pool, ids, zero-copy notifications | fill, submit, complete | buffers rewritten while in flight; two completions per zero-copy request, in any order | a queued buffer keeps its ids, each id is sent and counted once, buffers return |
| Executor (`executor.rs`, `statistic.rs`) | threads, sockets, interval statistics | spawn, join, add | threads that fail or end early, rounds of `--run-infinite` | every result summed once, by interval; every round ends |
| Core affinity (`core_affinity_manager.rs`) | next core, next NUMA node, behind a mutex | `set_affinity` | wrap-around below core 0, signed remainders, a poisoned mutex | a core of its own for every thread |
| Command line (`command_parser.rs`) | `Parameter` | `parse_parameter`, `parameter_check` | accepted combinations that cannot work | assumptions of the models |

Components talk through UDP messages, kernel queues (socket buffers, submission
and completion queues), the join handles of the threads, and the mutex of the
affinity manager. Receiver threads share no memory, but with
`--multiplex-port-receiver=sharing` they share a socket.

## Modules

| Module | Models | Correspondence |
|---|---|---|
| `DatapathParams` | the parameters of a transfer | `Config` is what `parse_parameter` makes of the options: exchange function, messages per call, datagrams per message, GSO |
| `SenderIds` | the senders | one action per send function; `Accept`, `WouldBlock` and `Abort` are the outcomes of the call; `Writable` is the return of `io_wait`; `Transmit` is the kernel |
| `PacketAccounting` | one receiver thread | `Receive` is the system call with `parse_message_type`'s choice of the test, `ProcessPacket` one round of the packet loop, `FinishCall` the end of the function; `Emit`, `Lose` and `Duplicate` are the network |
| `Datapath` | `SenderIds` and `PacketAccounting` joined by `net` and `sent` | `FeedsReceiver` states that the senders are a network the receiver was specified with |
| `Measurements` | the list of measurements | `Parsed` and `ParseResult` are `parse_message_type`, `AllFinished` is `all_measurements_finished` |
| `Session` | all threads of a session in discrete time | actions of `Sender::run` and `Receiver::run`; `Leave` and `Close` are the end of `Receiver::run`, `MainCloses` is what `exec` does with the shared socket after the joins; `Deliver` and `Reroute` are the kernel |
| `UringQueues` | queues of completions | which places of a queue are still to be handled, and what it means to handle them in order |
| `UringFill` | `calc_sq_fill_mode` | pure operators over the ring's parameters, shared by the three io_uring modules |
| `UringRecvNormal` | io_uring receive loop, normal mode | `Fill`, `Enter`: `fill_sq_and_submit`; `BeginDrain` ... `EndDrain`: `io_uring_complete_normal` one completion at a time; `SqThread`, `KernelReceive`, `KernelFail`: the kernel |
| `UringRecvBuffers` | io_uring receive loops with a buffer ring: provided buffers and multishot | `Fill`, `Arm`, `Enter`: `fill_sq_and_submit`; `BeginDrain` ... `EndDrain`: `io_uring_complete_provided_buffers` and `_multishot` one completion at a time, `EarlyReturn` with what it forgets; `KernelReceive` takes the buffer when the datagram is there, `KernelNoBuffer` is ENOBUFS |
| `UringSend` | io_uring sender, normal and zero-copy | `FillNormal`, `FillZc` (stamp and queue), `EnterReturns`: `fill_sq_and_submit`; `BeginDrain` ... `EndDrain`: `io_uring_complete_send` and `_send_zc`; `Issue`, `SendLater`, `Notify`: the kernel sends a request, puts it off, or lets go of a zero-copy buffer |
| `CoreAffinity` | the affinity manager | pure operators with the code's casts between `isize` and `usize` |
| `Intervals` | interval output of one thread | pure operators; the statistic is its number of datagrams |
| `Executor` | the threads of one side over several rounds | `Start`, `Join`, `Report`: main; `Pin`, `Open`, `Begin`, `Work`, `Idle`, `Fail`, `EndReceiver`, `EndSender`: a thread |
| `*_proof` | theorems | see below |
| `MC*` | configurations for TLC | sets of configurations; each behaviour starts in one of them |

An operator whose comment begins with "Bug:" is not part of a specification. It
is a plausible wrong version of the definition after it, and putting it in
that definition's place breaks the property that PROJECT.json names.

## Runs

| Run | Shows |
|---|---|
| `datapath` | one test; all three exchange functions, GSO/GRO batches of two, partial sends, loss, reordering, duplication: ids, loss report and refinement hold, and `recv()` into a buffer with room for more than it gets makes up no id |
| `datapath_two_tests` (violation) | two tests on one receiver thread share `next_packet_id`; a perfect network is reported to duplicate |
| `datapath_packed` (violation) | two datagrams in a UDP packet without GSO: the second is reported as omitted |
| `session` | one to three threads a side on individual, sharded and shared ports, with loss, batches and busy waiting: threads end; no thread, nor main with the shared socket, closes under a sender with data left; no datagram that reached a socket is discarded |
| `session_shared_last` (violation) | a thread of a shared socket that gets LAST first panics |
| `session_busy_waiting` (violation) | a busy-waiting thread that does not get LAST never ends |
| `uring_normal` | every fill mode, with and without SQPOLL, bursts 0 to 2, faults, two tests: ownership, queues, counters, order, termination |
| `uring_leak` (violation) | the first LAST of two tests drops collected buffers for good |
| `uring_buffers` | provided buffers in every fill mode and multishot, with two tests, losses and failing requests: buffers, counts, order, termination |
| `uring_send` | the io_uring sender in every mode, with requests put off, failed and completed in any order: ids, counts, buffers |
| `uring_send_rewrite` (violation) | normal mode with SQPOLL: a buffer gets new ids while a request with it is queued |
| `executor` | one or two threads a side, up to three rounds, intervals (also one lost to the floor of an f64), affinity, every end of a thread: threads start, results and interval sums are what the threads counted, main gets through |

The six violations are disagreements between the code and its own comments or
documentation. PROJECT.json quotes the lines under "findings".

### Properties

- `IdsExact`: the socket gets every id of a test once and in order,
  after any number of partial and refused calls.
- `LossExact`: for a network that does not duplicate, the omitted counter is
  the number of ids below the expected one that have not been processed.
- `LedgerBalances`: expected id + duplicates = datagrams + omitted, also when
  the network duplicates. It is the strongest statement that survives
  duplication: a duplicate of an old packet is indistinguishable from a late one.
- `NoPhantomLoss`: a perfect network yields an empty loss report.
- `SeenWasHanded`: the receive buffers make up no packet id. `recv()` accounts for
  all slots of its buffer, also those that an earlier call wrote, or none: what it
  finds there are ids sent before, or the 0 the buffer starts with, which is
  the first id of the test. They are then accounted again, as late or duplicate packets; `LossExact`
  and `NoPhantomLoss` exclude such buffers by name (`EveryPacketRead`).
- `FeedsReceiver`: the real senders are one of the networks `PacketAccounting`
  (and its proofs) allow.
- `SingleOwner`, `NoExhaustion`, `NoOverflow`, `CountersAgree`, `HandledInOrder`,
  `NoLeakBeforeLast`, `Terminates`: see the comments in `UringRecvNormal`.
- `EachBufferOnce`, `InflightCovers`, `NeverOutOfBuffers`, `NotDeaf`: with a
  buffer ring `amount_inflight` is not derived from any pool. An early return
  forgets completions, so it may stay too high; never too low, which would let
  requests find no buffer. `NotDeaf` is about the news that a multishot request
  is no longer armed, which an early return can lose. The INIT is parsed in the
  first drain, whose early return leaves `armed` at false; a second request is then
  armed beside the first, and the properties hold with both.
- `SendLedger`, `IdsAccounted`: ids given out = counted as sent + counted as
  omitted + not yet heard of. `StableIfGuarded`: a queued buffer keeps its ids,
  except in the configurations that `Guarded` names (normal mode with SQPOLL or
  with requests that io_uring puts off: the finding; zero-copy if the kernel
  sends a notification for a failed request, which would return a buffer twice).
- `ThreadsStart`: the exceptions it names are the code's behaviour. A receiver that asks
  for a core after core 0 gets core `usize::MAX` (−1 % n is −1 in Rust); the bind
  fails while the thread holds the manager, the mutex is poisoned, and every later
  thread dies. NUMA nodes of different sizes, and a port that an earlier thread
  did not close (`Receiver::run` returns early at a timeout before the
  measurement), have the same effect.
- `ReportComplete`: with intervals the final statistic is their sum.
  `parameter_check` accepts only intervals that divide the time (`Accepted`), so a sender
  loses at most its last turn. But the number of intervals is the floor of a quotient of
  f64s, which may fall short of the whole number: 33 s of 1.1 s are 29 intervals.
  Then (`short`) it loses all after its last output, as a receiver always does.
- `IntervalsAddUp`, `RoundsEnd`, and in `TypeOK` that no thread makes more
  outputs than main has room for (main would panic).
- `NoFailure`, `OneThreadPerTest`, `DataConserved`, `NoEarlyClose`,
  `ReceiversEnd`: see the comments in `Session`. Their premises say when they hold:
  senders that start together, and for two of them a network without loss. With
  losses LAST may find no measurement of its test, and the receiver fails; or it is
  lost itself, and the receiver stays until its timeout. With several senders on a
  shared socket the first LAST ends the thread that reads it, the others may have
  timed out, and main closes the socket: the later senders may find it closed before
  they send LAST. `NoEarlyClose` and `DataConserved` then protect only their data, and only if they
  start within one pause of each other (`EndTogether`).

### Bounds

- `MaxId = 6`: seven packet ids, so that a partial `sendmmsg()` of two messages of
  two packets can be followed by a full one. Enough for a gap of more than one
  packet and a late packet inside and outside a gap. `SndBuf = 2` messages, so
  that a call of two can be accepted whole, by half or not at all.
  `MaxCopies = 1` duplicate. `recv()` has one to three slots of which a
  datagram fills one or two. The proofs need none of these bounds.
- io_uring: a ring of 2 with 3 buffers (the code has 4 per entry; fewer make an
  exhausted pool likelier, and the proofs hold for any number). One
  MEASUREMENT per test: with INIT and LAST, three messages pass through
  three buffers in every order of submission and completion.
- io_uring with a buffer ring: three buffers for provided buffers; two for
  multishot, so that the ring runs empty. `Data = 2`.
- io_uring sender: a ring of 2, three buffers, ids 0 to 3: a buffer is used again.
- Executor: two threads, the smallest number with an order and a mutex; three
  rounds, so that the second can spoil what the third needs; intervals of 1 and 2 in
  times of 0 to 3; `MaxWork = 3` and `MaxClock = 4` go beyond the time; `UsizeMax = 15` is
  larger than any machine, and its half larger than any core id, which is all
  the casts depend on.
- Session: ticks of 200 ms give the code's own times (400 ms, 1 s, 10 s become
  2, 5 and 50). `Data = 4` messages per test, one a tick. Senders start up
  to 3 ticks apart, less than the 800 ms for which a sharded socket lingers. Three
  sharded receivers, so that closing one socket can move a flow between the others.

### Fairness and time

`UringRecvNormal!FairSpec`: the receiver thread, the SQPOLL thread and the
kernel's receive each keep running (weak fairness), and the senders send all
they have. Nothing fair is asked of errors. `Terminates` is about one test, no
loss, and a configuration that submits requests at all: Syscall mode with a
burst of 0 submits none, although `parameter_check` accepts it.

`UringRecvBuffers!FairSpec` is the same for the other receive loops. `Terminates`
there also excludes provided buffers in Syscall mode: the early return on
INIT leaves `amount_inflight` at 1 or more for good, and this mode submits only
at 0, so the loop spins for ever (`io_uring/mod.rs`, line 175). `NotDeaf` excludes
errors, because a completion with EAGAIN takes its news with it.

`UringSend!FairSpec`: the thread runs, the kernel issues, sends what it put off
and notifies. A sender need not stop.

`Executor!Spec`: main and every thread are scheduled, and a receiver's traffic ends
(weak fairness of a thread's steps with bounded time and work). Threads have
clocks of their own; nothing relates them.

`Session!FairSpec`: each thread, main's close of the shared socket and time go on. `Tick` waits until no thread can
run. This is the assumption that the hosts keep up, and the only link between
the poll timeout and the pauses of the sender; without it every timeout can
hit a running test.

Deadlock checking is off in all runs because measurements end.

## Proofs

All theorems hold for every value of the constants that the modules' named
assumptions allow.

- `PacketAccounting_proof`: `TypeCorrect`, `LedgerCorrect`, and `LossIsExact`. The
  strengthening says which ids of a test can still arrive: those on the network
  or in the current call have not been seen. A late packet then closes a gap, and
  the set of missing ids shrinks by exactly one.
- `Datapath_proof` starts with the senders alone, over any network:
  `SenderIdsExact` by the invariant "while a sender runs, its next
  id is the number of ids handed over" (`NextIdFollows`), which `IdsExact` needs
  because the next call starts there. It assumes `Packable(c)`: `send()` hands over one
  datagram of a buffer, so with it a buffer must hold one.
  Then senders and receiver together. The senders' invariant is
  carried over because receiver and network bring back only what was sent. The
  new invariant (`Composed`) says that the messages of a send buffer carry
  increasing, disjoint ids above all that was sent. So each message that leaves
  it is an `Emit` of the receiver's specification (`SendersFeedReceiver`, the
  step simulation behind `FeedsReceiver`), and `LossIsExact`, `LedgerCorrect`
  and `TypeCorrect` follow end to end. `NothingMadeUp` adds that what is read
  was sent: every id in a receive buffer, in the current call or processed is `Readable`,
  an id of a packet that was sent or, once there is any, the 0 of a slot never written;
  of one test the id 0 has then been handed over. Assumes `Packable(c)` for every configuration, as above.
  `NoFaultMadeUp` (`NoPhantomLoss`) is about one test and a receiver that reads every packet
  (`EveryPacketRead`); without these two premises `datapath_two_tests` and
  `datapath_packed` refute it. Its invariant `Streamed` follows the ids from end to end: the messages
  of a send buffer join without a gap (`Chained`), what was sent is all ids
  below them (`OnWire`), and the packets of the current receive call are the next ones
  expected, with those on the network behind them (`Undisturbed`). That a batch
  received in order has consecutive ids (`BatchIsNext`) is by its least exception.
- `UringRecvNormal_proof`: `TypeCorrect` (so `amount_inflight` never underflows),
  `BuffersHaveOneOwner`, `QueuesNeverOverrun`, `PoolNeverExhausted`,
  `CountsOfRequestsAgree`. The strengthening `Books` says that
  what the loop collected are the buffers of the completions it has passed, and that
  `amount_inflight` equals what the pool lacks *at all times*. An early return keeps
  both because it forgets the count and the buffers together; this is also
  why the leak goes unnoticed by the counters. `MessagesKeepTheirOrder`: what was
  parsed, followed by the contents of the completions behind the cursor, is what
  the kernel took from the socket (`Ordered`). `NoBufferIsLost`: without faults all
  completions carry data, so only a LAST returns early, and before the first one
  everything collected has gone back to the pool (`Whole`).
- `UringRecvBuffers_proof`: `TypeCorrect`, `InflightIsSafe`, `BuffersSuffice`, for every
  ring, burst, fill mode and number of buffers. The strengthening `Safe` weighs
  demand against supply: buffers still to be taken, completions passed and
  requests on one side; the ring, the buffers collected and `amount_inflight`
  on the other. It does not ask what a completion carries, so every early return
  and error keeps it. `TypeCorrect` covers multishot too, which has no count; the
  other two are about provided buffers. `BuffersAreConserved` (the ring, the
  buffers collected and those of the completions not passed are disjoint and
  all buffers: `Owned`) and `MessagesKeepTheirOrder` are about both. `NeverDeaf`
  needs `Listening`: without failing requests, the completion after which no
  request is left says so, and is in the queue until the loop has passed it.
- `UringSend_proof` goes in layers, each an invariant that uses the ones before it.
  `Types` adds to `TypeOK` that every completion still to be counted has a request
  that counts as in flight, which keeps the counters natural. `IdsOrdered`: ids increase
  along the submission queue, and those with the kernel or failed are below them,
  all different; with it `SendLedger` follows request by request. `Owned`: in
  zero-copy mode the buffers are divided among the pool, the index pool, the
  submission queue, the kernel, those held for a notification, and the completions
  that return one (`BuffersAreConserved`). In normal mode the loop hands out every
  buffer again, and what protects their contents is that nothing of the last
  round is left when it does (`Quiet`); the two give `BuffersKeepIds`. `Numbered`: the ids on
  the wire, in a request and failed are the first multiples of the
  packets per message (`IdsAreAccounted`). The exceptions are those of `Guarded`.
- `Session_proof`: `TypeCorrect`, `SendersAreHeardOut` (`NoEarlyClose`),
  `TestsStayWithOneThread` (`OneThreadPerTest`), `NoReceiverFails` (`NoFailure`) and
  `DatagramsAreConserved` (`DataConserved`), for any number of messages and of threads, and all lengths of the pauses; on
  shared ports within the limits of `EndTogether`. The
  difficulty is that a receiver leaves because of its own list of
  measurements and must not leave while a sender it has never heard of is
  still to send. What relates them is time. `Rest(s)` is the number of ticks until `s`
  sends LAST; it never grows and falls by one with every tick, so two senders that
  started `skew` ticks apart never differ by more (`Spread`). A receiver that leaves
  has heard a LAST, or has waited for longer than any pause, so everybody's
  `Rest` is below the time its socket lingers (`Leaving`). `Announced` says that
  in every socket the INIT of a test leads whatever else there is of it.
  A shared socket has an argument of its own (`SharedCalm`). While a sender still needs it, some
  receiver reads, has something to read, or waits for longer than until that
  sender's next message (`HeldOpen`); a LAST in the socket means that all data is
  sent, and nothing but LAST is behind it (`LastsEnd`). Main closes when no receiver is
  left, so nobody needs the socket then, and no data is in it (`DataRead`).
  `Timely` is about the data. While a receiver reads, a datagram of the measurement in its
  socket was sent in this very tick (`Fresh`), so the receiver has marked
  every test that is not in its first tick as begun (`Heard`); a test it has marked as ended
  has a sender that is done (`LastHeard`). Then a receiver that leaves leaves
  nothing behind and nobody who sends to it (`LeftBehind`), and `Conserved`
  counts: every step moves at most one datagram from a socket to the count of a receiver.
- `Executor_proof`: `TypeCorrect`, `ThreadsGetStarted` (`ThreadsStart`),
  `ReportsAreComplete` (`ReportComplete`) and `IntervalsAdd` (`IntervalsAddUp`), for
  every machine, number of threads and rounds, time and interval. `Safe` has a part for
  each question. `Rounded`: main opens no round before all threads of the last have
  ended, so what it adds belongs together. `Sockets`: a bound port belongs to a
  thread that waits or runs, or was left by one that ended. `Books`: of a
  running thread, what it counted is in its outputs and its statistic (`Counts`); of one
  that returned, its result lacks at most what `Returns` names. A sender's
  n-th output is not before n intervals (`Len(outputs) * interval <= last`), so it makes no more
  outputs than fit in its time; this keeps main from its panic, and the last of them
  is missing only where the quotient fell `short`. `AddedUp`: the sums main keeps are
  those of the threads it has joined. `Pinned`: on machines with even nodes the
  manager's position, counted through the nodes, is the number of cores handed out
  (`Place(manager) = handed`), so what it hands out next no thread has. The proof assumes that the number
  of a core fits in an isize (`MachinesAssumption`), to which `get_core_id()` casts it.
- `CommonLemmas`: what those proofs share about queues, maxima, batches of ids, the
  list of measurements, and sums over finite sets. What a fold computes is
  an induction, and the library's induction theorems cannot be used; `SetInduction` gets
  one from the fact that `<` on the naturals is well founded, as a statement about
  sets of numbers.

`Session` assumes `2 * WaitControl < PollTimeout` (400 ms in `lib.rs`, 1 s
in `receiver.rs`) and, in the premise of its properties, that the senders start
within two pauses of each other (`StartTogether`): `executor.rs` spawns them in
a loop without a wait.

Only model-checked: liveness (`BuffersReturn`, `Terminates`, `ReceiversEnd`, `RoundsEnd`),
which needs fairness and is out of the prover's reach. Every invariant that a passing run
checks has a theorem.

## Not modelled, or abstracted

- A batch of more than one message is in `Datapath` with `sendmmsg()` only.
  `parameter_check` (`command_parser.rs`, line 332) gives the other functions several buffers too if the
  io_uring mode is zero-copy, with any I/O model.
- Control messages are not in `Datapath`: 400 ms separate them from data. How
  `recvmmsg` treats a batch with one of them is in `Session` (`take = 2`).
- Byte counters, rates, printing, CPU time (`statistic.rs`): sequential arithmetic
  and formatting.
- Interval output is in `Executor`, not in `Datapath`: what a reset in the middle of a
  run does to reordered packets (they find nothing omitted and count as
  duplicates) is not checked.
- `setsockopt` and the parsing of the command line. What `parameter_check` lets through
  are the assumptions on the configurations.
- `send()` with several datagrams per buffer counts all of them but sends the
  first; the configurations and `Packable` leave it out.
- `recv()` adds the advance of the expected id to `amount_datagrams`, so lost
  packets count as received; `LedgerBalances` is about the other two functions.
- Kernel internals: sockets are queues, GSO cuts a message into its packets,
  GRO joins packets of one flow; `SO_REUSEPORT` may map flows arbitrarily when a
  socket closes. A panicking thread leaves its socket open.
- In `UringSend` the completion queue is unbounded. A zero-copy request makes two
  completions and the queue has one entry per buffer; the kernel keeps the rest, and
  `io_uring_enter` returns EBUSY, which the code counts and ignores.
- In `Executor` main itself is pinned and creates the shared socket without error; PU
  ids are consecutive. A receive socket that is left open by a sharded thread
  may get flows of the next round; `Session` has one round only. The end of the process,
  which closes the sockets that threads have left open, is not in `Session`.
- `--interval` is not negative.
- `io_uring_enter` may fail in the receive loops (`Enter`), but EBUSY, which the code counts
  and ignores, is left out there: it needs a full completion queue, which
  `NoOverflow` excludes in normal mode.
- A multishot request ends with a completion that has no datagram. If the kernel
  ends it together with a datagram (the completion queue is full), and this is the
  LAST of one of several tests, the early return would lose the news.
- In `UringRecvNormal` a message stands for all packets of its buffer. ENOBUFS and
  EMSGSIZE, which the loop counts as 0 completions, cannot come from a receive
  request without provided buffers.

## Plan

Done: `SenderIds`, `PacketAccounting`, `Datapath`, `UringRecvNormal`, `Session`,
`UringRecvBuffers`, `UringSend`, `CoreAffinity`, `Intervals`, `Executor`, and the proofs
above. What is left:

1. Interval resets together with reordering: what an interval counts as omitted.
2. `--run-infinite` with sharded ports: flows hashed to abandoned sockets.
3. A bounded completion queue for zero-copy, with the kernel's backlog.
