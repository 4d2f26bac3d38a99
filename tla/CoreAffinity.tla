---------------------------- MODULE CoreAffinity ----------------------------
(***************************************************************************)
(* Which core a thread is bound to (core_affinity_manager.rs).  The        *)
(* manager walks over the cores, upwards for a sender and downwards for a  *)
(* receiver, with NUMA affinity over the nodes first.  Its arithmetic is   *)
(* that of Rust: % keeps the sign, a negative number cast to usize is      *)
(* huge.                                                                   *)
(***************************************************************************)
EXTENDS Integers, Sequences, Functions

CONSTANT UsizeMax
ASSUME UsizeMaxAssumption == UsizeMax \in Nat \ {0}

(* A machine: the cores of each NUMA node, and whether they are used.      *)
Topology == {t \in [nodes : Seq(Nat \ {0}), numa : BOOLEAN] : Len(t.nodes) > 0}

AsUsize(x) == IF x < 0 THEN x + UsizeMax + 1 ELSE x
AsIsize(x) == IF x > UsizeMax \div 2 THEN x - UsizeMax - 1 ELSE x
Rem(x, n) == IF x < 0 THEN -((-x) % n) ELSE x % n

TotalCores(t) == SumFunction(t.nodes)

(* amount_cpus: with NUMA those of the first node stand for all nodes.     *)
AmountCpus(t) == IF t.numa THEN t.nodes[1] ELSE TotalCores(t)

NewManager(t, mode) == [core |-> IF mode = "receiver" THEN AmountCpus(t) - 1 ELSE 0, node |-> 0]

ForwardNode(t, m) == IF t.numa THEN (m.node + 1) % Len(t.nodes) ELSE m.node

(* The remainder is taken of the signed number: below core 0 comes no core *)
(* of the machine.                                                         *)
NextCore(t, mode, core) ==
  AsUsize(Rem(AsIsize(core) + (IF mode = "receiver" THEN -1 ELSE 1), AmountCpus(t)))

(* get_core_id(): the manager after it has handed out m.core.  With NUMA   *)
(* the core moves on when the nodes have been gone through.                *)
Advanced(t, mode, m) ==
  LET node == ForwardNode(t, m)
  IN  [core |-> IF t.numa /\ node # 0 THEN m.core ELSE NextCore(t, mode, m.core),
       node |-> node]

(* The core set_affinity() binds to: the handed out one, on the node that  *)
(* comes after the one the manager stood on.                               *)
Bound(t, m) == <<ForwardNode(t, m), m.core>>

(* Binding fails, by an error or a panic, for a core that does not exist.  *)
CanBind(t, m) ==
  IF t.numa THEN m.core < t.nodes[ForwardNode(t, m) + 1] ELSE m.core < TotalCores(t)
=============================================================================
