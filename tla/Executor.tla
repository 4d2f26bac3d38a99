------------------------------ MODULE Executor ------------------------------
(***************************************************************************)
(* nPerf::exec: the threads of one side, what they are bound to, how they  *)
(* end, and what the main thread makes of their statistics (executor.rs;   *)
(* the run() of sender.rs and receiver.rs seen from outside).  A receiver  *)
(* with --run-infinite goes through several rounds; the affinity manager   *)
(* and the sockets nobody closed outlive a round.                          *)
(***************************************************************************)
EXTENDS CoreAffinity, Intervals, FiniteSets

CONSTANTS Configs,   \* the configurations to check
          MaxThreads, \* bound: threads of a side
          Rounds,    \* bound: rounds of run_infinite
          MaxWork,   \* bound: what a thread counts in a round
          MaxClock   \* bound: a thread's time

Port == {"Individual", "Sharding", "Sharing"}

\* threads: amount_threads; infinite: run_infinite; port: multiplex_port of
\* this side; time: test_runtime_length; interval: output_interval;
\* short: the f64 quotient of the two is just below the whole number;
\* wait: WAIT_CONTROL_MESSAGE, in the unit of time
Config == [mode : {"sender", "receiver"}, threads : Nat \ {0}, infinite : BOOLEAN,
           port : Port, affinity : BOOLEAN, machine : Topology,
           time : Nat, interval : Nat, short : BOOLEAN, wait : Nat]

(* parameter_check() accepts intervals that divide the time; only a sender *)
(* may have intervals and no time.  A number divided by itself is 1.       *)
Accepted(c) ==
  /\ c.interval > 0 => c.time % c.interval = 0 /\ (c.mode = "receiver" => c.time > 0)
  /\ c.short => c.interval > 0 /\ c.time > c.interval

ASSUME ConfigsAssumption ==
  Configs \subseteq {c \in Config : c.threads <= MaxThreads /\ Accepted(c)}
ASSUME BoundsAssumption ==
  /\ MaxThreads \in Nat \ {0}
  /\ Rounds \in Nat \ {0}
  /\ MaxWork \in Nat /\ MaxClock \in Nat
\* get_core_id() casts the number of a core to isize
ASSUME MachinesAssumption == \A c \in Configs : AmountCpus(c.machine) <= UsizeMax \div 2

VARIABLES
  cfg,       \* the configuration of this run
  main,      \* where the main thread is in its loop
  round,     \* how many rounds it has started
  joined,    \* how many threads of the round it has joined
  th,        \* the threads of the round
  manager,   \* the core affinity manager behind the mutex
  poisoned,  \* a thread has panicked with that mutex in its hands
  handed,    \* history: cores handed out, over all rounds
  bound,     \* the ports that are bound (individual ports only)
  left,      \* history: the ports a thread ended on without closing them
  final,     \* final_statistics
  finals     \* final_interval_statistics

vars == <<cfg, main, round, joined, th, manager, poisoned, handed, bound, left, final, finals>>

Threads == 1 .. cfg.threads
IsReceiver == cfg.mode = "receiver"
Total == TotalOutputs(cfg.interval, cfg.time, cfg.short)

Ended == {"ok", "err", "panic", "stillborn"}
Pc == {"start", "open", "wait", "run"} \cup Ended

\* work, kept: history, all the thread has counted, and that up to its last
\* interval output; result: what it returns
Thread == [pc : Pc, core : Seq(Nat), stat : NodeStatistic, work : Nat, kept : Nat, result : Nat]
NewThread == [pc |-> "start", core |-> <<>>, stat |-> Started(0), work |-> 0, kept |-> 0,
              result |-> 0]

Start ==
  /\ main = "spawn"
  /\ main' = "join"
  /\ round' = round + 1
  /\ joined' = 0
  /\ th' = [i \in Threads |-> NewThread]
  /\ final' = 0
  /\ finals' = [n \in 1 .. Total |-> 0]
  /\ UNCHANGED <<cfg, manager, poisoned, handed, bound, left>>

(* Bug: a later thread's interval replaces that of an earlier one.         *)
AddedReplacing(sums, outputs) ==
  [n \in DOMAIN sums |-> IF n <= Len(outputs) THEN outputs[n] ELSE sums[n]]

Added(sums, outputs) ==
  [n \in DOMAIN sums |-> IF n <= Len(outputs) THEN Add(sums[n], outputs[n]) ELSE sums[n]]

(* The threads are joined in order; what failed or panicked is left out.   *)
(* An interval id above amount_interval_outputs is an index out of range.  *)
Join ==
  LET t == th[joined + 1]
  IN  /\ main = "join" /\ joined < cfg.threads
      /\ t.pc \in Ended
      /\ joined' = joined + 1
      /\ IF t.pc # "ok" THEN UNCHANGED <<main, final, finals>>
         ELSE /\ final' = Add(final, t.result)
              /\ IF Total > 0 /\ Len(t.stat.outputs) > Total
                 THEN main' = "panic" /\ UNCHANGED finals
                 ELSE finals' = Added(finals, t.stat.outputs) /\ UNCHANGED main
      /\ UNCHANGED <<cfg, round, th, manager, poisoned, handed, bound, left>>

Report ==
  /\ main = "join" /\ joined = cfg.threads
  /\ main' = IF cfg.infinite /\ IsReceiver /\ round < Rounds THEN "spawn" ELSE "done"
  /\ UNCHANGED <<cfg, round, joined, th, manager, poisoned, handed, bound, left, final, finals>>

----------------------------------------------------------------------------
(* exec_thread(): lock, set_affinity, unwrap.  The guard lives to the end  *)
(* of the statement, so that a failing bind poisons the mutex.             *)
Pin(i) ==
  /\ th[i].pc = "start"
  /\ IF ~cfg.affinity
     THEN th' = [th EXCEPT ![i].pc = "open"] /\ UNCHANGED <<manager, poisoned, handed>>
     ELSE IF poisoned
     THEN th' = [th EXCEPT ![i].pc = "stillborn"] /\ UNCHANGED <<manager, poisoned, handed>>
     ELSE /\ manager' = Advanced(cfg.machine, cfg.mode, manager)
          /\ handed' = handed + 1
          /\ IF CanBind(cfg.machine, manager)
             THEN /\ th' = [th EXCEPT ![i].pc = "open", ![i].core = Bound(cfg.machine, manager)]
                  /\ UNCHANGED poisoned
             ELSE /\ th' = [th EXCEPT ![i].pc = "stillborn"]
                  /\ poisoned' = TRUE
  /\ UNCHANGED <<cfg, main, round, joined, bound, left, final, finals>>

OwnsPort == IsReceiver /\ cfg.port = "Individual"

(* Sender::new, Receiver::new: bind() fails on a port that is still bound, *)
(* and expect() panics.  Sharding has SO_REUSEPORT, sharing main's socket. *)
Open(i) ==
  /\ th[i].pc = "open"
  /\ th' = [th EXCEPT ![i].pc = IF OwnsPort /\ i \in bound THEN "stillborn" ELSE "wait"]
  /\ bound' = IF OwnsPort THEN bound \cup {i} ELSE bound
  /\ UNCHANGED <<cfg, main, round, joined, manager, poisoned, handed, left, final, finals>>

\* thread i ends with the result s and its socket open
Leave(i, result) ==
  /\ th' = [th EXCEPT ![i] = result]
  /\ left' = IF OwnsPort THEN left \cup {i} ELSE left
  /\ UNCHANGED bound

(* The head of run(): the sender sends INIT, the receiver polls.           *)
Begin(i) ==
  /\ th[i].pc = "wait"
  /\ th' = [th EXCEPT ![i].pc = "run", ![i].stat = Started(IF IsReceiver THEN cfg.wait ELSE 0)]
  /\ UNCHANGED <<cfg, main, round, joined, manager, poisoned, handed, bound, left, final, finals>>

(* INIT or the poll fails; nothing comes before the poll's timeout, which  *)
(* is an empty result.                                                     *)
NoBegin(i) ==
  /\ th[i].pc = "wait"
  /\ \E pc \in IF IsReceiver THEN {"ok", "err"} ELSE {"err"} : Leave(i, [th[i] EXCEPT !.pc = pc])
  /\ UNCHANGED <<cfg, main, round, joined, manager, poisoned, handed, final, finals>>

InLoop(t) == t.pc = "run" /\ (IsReceiver \/ t.stat.now < cfg.time)

\* the thread t after the check at the head of the loop, at time at
Looked(t, at) ==
  LET stat == Checked(t.stat, cfg.interval, Total, at)
  IN  [t EXCEPT !.stat = stat, !.kept = IF stat.outputs # t.stat.outputs THEN t.work ELSE @]

Later(i) == th[i].stat.now .. MaxClock

(* A turn of the loop that counts something.                               *)
Work(i) ==
  /\ InLoop(th[i])
  /\ th[i].work < MaxWork
  /\ \E at \in Later(i) :
        LET t == Looked(th[i], at)
        IN  th' = [th EXCEPT ![i] = [t EXCEPT !.stat.count = @ + 1, !.work = @ + 1]]
  /\ UNCHANGED <<cfg, main, round, joined, manager, poisoned, handed, bound, left, final, finals>>

(* A turn with EAGAIN, or with INIT.                                       *)
Idle(i) ==
  /\ InLoop(th[i])
  /\ \E at \in Later(i) : th' = [th EXCEPT ![i] = Looked(th[i], at)]
  /\ UNCHANGED <<cfg, main, round, joined, manager, poisoned, handed, bound, left, final, finals>>

(* A turn that fails: an error, or a panic of parse_message_type.          *)
Fail(i) ==
  /\ InLoop(th[i])
  /\ \E at \in Later(i) : \E pc \in IF IsReceiver THEN {"err", "panic"} ELSE {"err"} :
        Leave(i, [Looked(th[i], at) EXCEPT !.pc = pc])
  /\ UNCHANGED <<cfg, main, round, joined, manager, poisoned, handed, final, finals>>

\* the thread t after its result is made
Returning(t) == [t EXCEPT !.pc = "ok", !.result = FinalCount(t.stat)]

(* Bug: the receiver keeps its socket.                                     *)
StillBound(i) == bound

Closed(i) == bound \ {i}

(* The turn with LAST, or the timeout during a measurement.                *)
EndReceiver(i) ==
  /\ IsReceiver /\ InLoop(th[i])
  /\ \E at \in Later(i) : th' = [th EXCEPT ![i] = Returning(Looked(th[i], at))]
  /\ bound' = IF OwnsPort THEN Closed(i) ELSE bound
  /\ UNCHANGED <<cfg, main, round, joined, manager, poisoned, handed, left, final, finals>>

(* The sender's time is over, perhaps since its last turn; the result is   *)
(* lost when LAST is not sent.                                             *)
EndSender(i) ==
  /\ ~IsReceiver
  /\ th[i].pc = "run"
  /\ \E at \in Later(i), pc \in {"ok", "err"} :
        LET stat == WithLastInterval([th[i].stat EXCEPT !.now = at], cfg.interval, Total)
            t == [th[i] EXCEPT !.stat = stat]
        IN  /\ at >= cfg.time
            /\ th' = [th EXCEPT ![i] = IF pc = "ok" THEN Returning(t) ELSE [t EXCEPT !.pc = pc]]
  /\ UNCHANGED <<cfg, main, round, joined, manager, poisoned, handed, bound, left, final, finals>>

----------------------------------------------------------------------------
Init ==
  /\ cfg \in Configs
  /\ main = "spawn" /\ round = 0 /\ joined = 0
  /\ th = [i \in {} |-> NewThread]
  /\ manager = NewManager(cfg.machine, cfg.mode)
  /\ poisoned = FALSE /\ handed = 0
  /\ bound = {} /\ left = {}
  /\ final = 0 /\ finals = [n \in 1 .. Total |-> 0]

MainStep == Start \/ Join \/ Report
ThreadStep(i) ==
  \/ Pin(i) \/ Open(i) \/ Begin(i) \/ NoBegin(i)
  \/ Work(i) \/ Idle(i) \/ Fail(i) \/ EndReceiver(i) \/ EndSender(i)

Next == MainStep \/ \E i \in DOMAIN th : ThreadStep(i)

\* main and every thread are scheduled; a receiver's traffic ends
Spec ==
  /\ Init /\ [][Next]_vars
  /\ WF_vars(MainStep)
  /\ \A i \in 1 .. MaxThreads : WF_vars(i \in DOMAIN th /\ ThreadStep(i))

----------------------------------------------------------------------------
(* The type invariant: among others, no thread makes more interval outputs *)
(* than main has places for (executor.rs 88-91).                           *)
TypeOK ==
  /\ cfg \in Configs
  /\ main \in {"spawn", "join", "panic", "done"}
  /\ round \in 0 .. Rounds /\ joined \in 0 .. cfg.threads
  /\ \A i \in DOMAIN th : th[i] \in Thread /\ Len(th[i].stat.outputs) <= Total
  /\ manager.core \in 0 .. UsizeMax /\ manager.node \in 0 .. Len(cfg.machine.nodes) - 1
  /\ poisoned \in BOOLEAN /\ handed \in Nat
  /\ bound \subseteq Threads /\ left \subseteq bound
  /\ final \in Nat /\ DOMAIN finals = 1 .. Total

Nodes == {cfg.machine.nodes[n] : n \in DOMAIN cfg.machine.nodes}
EvenNodes == ~cfg.machine.numa \/ Cardinality(Nodes) = 1

(* A thread of any round gets to its measurement, on a core of its own     *)
(* where threads are bound, with three exceptions: an earlier thread left  *)
(* its socket on the port; all cores have been handed out (main's manager  *)
(* is never reset: a receiver then gets no valid core, a sender a used     *)
(* one); the NUMA nodes differ in size (core_affinity_manager.rs 65-107).  *)
ThreadsStart ==
  (EvenNodes /\ handed <= TotalCores(cfg.machine)) =>
    \A i \in DOMAIN th :
      /\ th[i].pc = "stillborn" => i \in left
      /\ \A j \in DOMAIN th \ {i} : th[i].core # <<>> => th[i].core # th[j].core

(* A thread's result has all that it counted up to its last interval       *)
(* output, and all that it counted without intervals.  A sender loses at   *)
(* most the turn of its loop that began in time and made the last output,  *)
(* unless the floor of the f64 quotient takes an interval from it: it then *)
(* loses what it counted after its last output (sender.rs 363-400).        *)
ReportComplete ==
  \A i \in DOMAIN th :
    th[i].pc = "ok" =>
      /\ th[i].result \in th[i].kept .. th[i].work
      /\ cfg.interval = 0 => th[i].result = th[i].work
      /\ (~IsReceiver /\ cfg.interval > 0 /\ ~cfg.short) =>
           th[i].work - th[i].result <= 1

(* Main has a place for every interval it joins; what it prints for them   *)
(* never exceeds its final statistic, and for senders makes it up; the     *)
(* final statistic is that of the threads that were joined (executor.rs    *)
(* 80-98).                                                                 *)
IntervalsAddUp ==
  /\ main # "panic"
  /\ SumFunction(finals) <= final
  /\ (~IsReceiver /\ Total > 0) => SumFunction(finals) = final
  /\ final = SumFunction([i \in 1 .. joined |-> IF th[i].pc = "ok" THEN th[i].result ELSE 0])

(* Every round ends and the next begins, whatever the threads ended of: an *)
(* error, a panic or a poisoned mutex stops no join (executor.rs 82-115).  *)
RoundsEnd == <>(main = "done")
=============================================================================
