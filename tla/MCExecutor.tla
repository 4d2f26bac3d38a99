----------------------------- MODULE MCExecutor -----------------------------
(***************************************************************************)
(* Up to two threads and three rounds; machines with two to four cores.    *)
(***************************************************************************)
EXTENDS Executor

Machine(nodes, numa) == [nodes |-> nodes, numa |-> numa]

Sender == [mode |-> "sender", threads |-> 1, infinite |-> FALSE, port |-> "Individual",
           affinity |-> FALSE, machine |-> Machine(<<2>>, FALSE),
           time |-> 2, interval |-> 0, short |-> FALSE, wait |-> 1]
Receiver == [Sender EXCEPT !.mode = "receiver"]

\* with an interval that is lost to the f64 division, and a sender without time
WithIntervals == {[c EXCEPT !.interval = n] : c \in {Sender, Receiver}, n \in 0 .. 2}
                   \cup {[c EXCEPT !.time = n, !.interval = 1, !.short = TRUE] :
                           c \in {Sender, Receiver}, n \in 2 .. 3}
                   \cup {[Sender EXCEPT !.time = 0, !.interval = 1]}
TwoThreads == {[c EXCEPT !.threads = 2, !.interval = 1, !.time = 1] : c \in {Sender, Receiver}}

\* rounds of a receiver, without intervals
Infinite == [Receiver EXCEPT !.threads = 2, !.infinite = TRUE]
Ports == {[Infinite EXCEPT !.port = p] : p \in Port}

Pinned == {[Sender EXCEPT !.threads = 2, !.affinity = TRUE, !.machine = Machine(<<2, 2>>, TRUE)]}
            \cup {[Infinite EXCEPT !.affinity = TRUE, !.machine = m, !.port = "Sharding"] :
                    m \in {Machine(<<4>>, FALSE), Machine(<<2, 2>>, TRUE), Machine(<<2, 1>>, TRUE)}}
\* a side with two threads on one core
Crowded == {[c EXCEPT !.threads = 2, !.affinity = TRUE, !.machine = Machine(<<1>>, FALSE)] :
              c \in {Sender, Receiver}}

MCConfigs == WithIntervals \cup TwoThreads \cup Ports \cup Pinned \cup Crowded
=============================================================================
