---------------------------- MODULE SyscallGraph ----------------------------
(***************************************************************************)
(* The process/syscall graph of utils/syscall_graph.{hpp,cpp}.             *)
(*                                                                         *)
(* The class has one mutator, add_event, which the BPF callback of the     *)
(* monitor calls once for every event it reads.  A process node is made    *)
(* from the first event that names its pid and is never touched again; an  *)
(* event node is made for every event; edges are only ever appended.       *)
(*                                                                         *)
(* Abstracted: uid, gid, comm, arg1 and arg2 are copied into the nodes and *)
(* read by nothing else; node ids are pairs instead of the strings         *)
(* "proc_<pid>" and "ev_<seq>", to which they correspond one to one.       *)
(***************************************************************************)
EXTENDS Integers, Sequences, FiniteSets

CONSTANTS
  Pid,        \* process ids (tgid) an event can carry
  Type,       \* event types the probes report
  SeqLimit,   \* seq_ is a uint32_t: 2^32 in the code
  MaxEvents   \* bound on the number of events of a behaviour

ASSUME GraphAssumption ==
  /\ Pid \subseteq Nat \ {0}   \* 0 is the idle task, which makes no system call
  /\ SeqLimit \in Nat \ {0}
  /\ MaxEvents \in Nat

VARIABLES
  processes,        \* pid -> ppid, for every process node
  events,           \* event nodes, in the order they were added
  edges,            \* edges, in the order they were added
  lastEventByPid,   \* pid -> seq of the last event of the process
  seq               \* the next sequence number

graphVars == <<processes, events, edges, lastEventByPid, seq>>

-----------------------------------------------------------------------------
\* ppid = 0 stands for "no parent", and the kernel reports no process as its
\* own parent.
Event == {e \in [pid : Pid, ppid : Pid \cup {0}, type : Type] : e.pid # e.ppid}

ProcId(p)  == <<"proc", p>>
EventId(s) == <<"ev", s>>

Relation == {"spawns", "invokes", "sequences"}

Edge(src, dst, relation) == [src |-> src, dst |-> dst, relation |-> relation]

\* The edges one event adds, in the order of the three push_backs.  The new
\* process is in the map already when its parent is looked up.
\* (Mutants: the parent is not looked up; a known process is spawned again.)
SpawnEdgeUnchecked(e) ==
  IF e.pid \notin DOMAIN processes /\ e.ppid # 0
  THEN <<Edge(ProcId(e.ppid), ProcId(e.pid), "spawns")>> ELSE <<>>

SpawnEdgeAlways(e) ==
  IF e.ppid # 0 /\ e.ppid \in DOMAIN processes
  THEN <<Edge(ProcId(e.ppid), ProcId(e.pid), "spawns")>> ELSE <<>>

SpawnEdge(e) ==
  IF /\ e.pid \notin DOMAIN processes
     /\ e.ppid # 0
     /\ e.ppid \in DOMAIN processes \cup {e.pid}
  THEN <<Edge(ProcId(e.ppid), ProcId(e.pid), "spawns")>>
  ELSE <<>>

InvokeEdge(e) == <<Edge(ProcId(e.pid), EventId(seq), "invokes")>>

\* (Mutant: one chain through all processes.)
SequenceEdgeGlobal(e) ==
  IF events # <<>> THEN <<Edge(EventId(events[Len(events)].seq), EventId(seq), "sequences")>>
  ELSE <<>>

SequenceEdge(e) ==
  IF e.pid \in DOMAIN lastEventByPid
  THEN <<Edge(EventId(lastEventByPid[e.pid]), EventId(seq), "sequences")>>
  ELSE <<>>

NewEdges(e) == SpawnEdge(e) \o InvokeEdge(e) \o SequenceEdge(e)

-----------------------------------------------------------------------------
Init ==
  /\ processes = [p \in {} |-> 0]
  /\ events = <<>>
  /\ edges = <<>>
  /\ lastEventByPid = [p \in {} |-> 0]
  /\ seq = 0

\* A process node is made by the first event of its pid.
\* (Mutant: later events rewrite it.)
ProcessesLatest(e) ==
  [p \in DOMAIN processes \cup {e.pid} |-> IF p = e.pid THEN e.ppid ELSE processes[p]]

ProcessesWith(e) ==
  [p \in DOMAIN processes \cup {e.pid} |->
     IF p \in DOMAIN processes THEN processes[p] ELSE e.ppid]

\* (Mutant: a number wider than the ids.)
NextSeqWide == seq + 1

NextSeq == (seq + 1) % SeqLimit

AddEvent(e) ==
  /\ processes' = ProcessesWith(e)
  /\ events' = Append(events, [seq |-> seq, type |-> e.type, pid |-> e.pid])
  /\ edges' = edges \o NewEdges(e)
  /\ lastEventByPid' = [p \in DOMAIN lastEventByPid \cup {e.pid} |->
                          IF p = e.pid THEN seq ELSE lastEventByPid[p]]
  /\ seq' = NextSeq

Next == \E e \in Event : Len(events) < MaxEvents /\ AddEvent(e)

Spec == Init /\ [][Next]_graphVars

-----------------------------------------------------------------------------
NodeId == (({"proc"} \X Pid) \cup ({"ev"} \X (0 .. SeqLimit - 1)))

\* Types of the five members of the class.
TypeOK ==
  /\ DOMAIN processes \subseteq Pid
  /\ processes \in [DOMAIN processes -> Pid \cup {0}]
  /\ events \in Seq([seq : 0 .. SeqLimit - 1, type : Type, pid : Pid])
  /\ edges \in Seq([src : NodeId, dst : NodeId, relation : Relation])
  /\ DOMAIN lastEventByPid \subseteq Pid
  /\ lastEventByPid \in [DOMAIN lastEventByPid -> 0 .. SeqLimit - 1]
  /\ seq \in 0 .. SeqLimit - 1

\* The edges of one relation, as pairs of node ids.
Links(relation) ==
  {<<edges[k].src, edges[k].dst>> : k \in {j \in DOMAIN edges : edges[j].relation = relation}}

FirstEventOf(p) == {i \in DOMAIN events : /\ events[i].pid = p
                                          /\ \A j \in 1 .. i - 1 : events[j].pid # p}

\* Event i is directly followed, within its process, by event j.
Follows(i, j) ==
  /\ i < j
  /\ events[i].pid = events[j].pid
  /\ \A k \in i + 1 .. j - 1 : events[k].pid # events[i].pid

SeenBefore(p, q) == \E i \in FirstEventOf(p), j \in FirstEventOf(q) : i < j

Nodes == {ProcId(p) : p \in DOMAIN processes} \cup {EventId(events[i].seq) : i \in DOMAIN events}

(* Every edge joins two nodes of the graph, also after seq_ has wrapped:    *)
(* to_gnn_inputs may therefore never take its "endpoint unknown, continue"  *)
(* branch, and no link of the exported JSON dangles.                        *)
EdgesJoinNodes ==
  \A k \in DOMAIN edges : edges[k].src \in Nodes /\ edges[k].dst \in Nodes

(* last_event_by_pid_ always names the latest event of each process, so the *)
(* "sequences" edges link exactly the consecutive events of one process:    *)
(* one chain per process, never across processes, none left out.            *)
SequencesExact ==
  Links("sequences") =
    {<<EventId(events[p[1]].seq), EventId(events[p[2]].seq)>> :
       p \in {q \in (DOMAIN events) \X (DOMAIN events) : Follows(q[1], q[2])}}

(* A "spawns" edge leads to a process exactly when the parent named by its  *)
(* first event already had a node by then.  The edge comes from that parent *)
(* only, and the parent was seen strictly earlier, so the spawn edges form  *)
(* a forest.                                                                *)
SpawnsExact ==
  Links("spawns") =
    {<<ProcId(processes[q]), ProcId(q)>> :
       q \in {c \in DOMAIN processes : SeenBefore(processes[c], c)}}

(* The counts the README sample and the exit log report are tied together:  *)
(* one "invokes" edge per event, one "sequences" edge per event that is not *)
(* the first of its process, and at most one "spawns" edge per process      *)
(* except the first.                                                        *)
EdgeCount ==
  LET spawned == Len(edges) - (2 * Len(events) - Cardinality(DOMAIN processes))
  IN  /\ spawned >= 0
      /\ spawned <= IF DOMAIN processes = {} THEN 0 ELSE Cardinality(DOMAIN processes) - 1
      /\ spawned = Cardinality({k \in DOMAIN edges : edges[k].relation = "spawns"})

(* A process node keeps the parent its first event reported, whatever later *)
(* events of that pid report (a reparented process, a reused pid), and the  *)
(* nodes and edges already exported to a GNN check stay as they were.       *)
GraphOnlyGrows ==
  [][/\ \A p \in DOMAIN processes : p \in DOMAIN processes' /\ processes'[p] = processes[p]
     /\ \A i \in DOMAIN events : i \in DOMAIN events' /\ events'[i] = events[i]
     /\ \A k \in DOMAIN edges : k \in DOMAIN edges' /\ edges'[k] = edges[k]]_graphVars
=============================================================================
