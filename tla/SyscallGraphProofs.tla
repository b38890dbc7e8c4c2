------------------------ MODULE SyscallGraphProofs -------------------------
(***************************************************************************)
(* Theorems about SyscallGraph, for every set of pids and types and every  *)
(* width of seq_: the members keep their types, no edge ever dangles, the  *)
(* graph only grows, and the edges between events and between processes    *)
(* are exactly those the events call for.                                  *)
(***************************************************************************)
EXTENDS SyscallGraph, SequenceTheorems, FiniteSetTheorems, TLAPS

\* Every element of a concatenation comes from one of the two sequences.
LEMMA ConcatElement ==
  ASSUME NEW S, NEW s \in Seq(S), NEW t \in Seq(S), NEW k \in DOMAIN (s \o t)
  PROVE  \/ k \in DOMAIN s /\ (s \o t)[k] = s[k]
         \/ \E j \in DOMAIN t : (s \o t)[k] = t[j]
<1>1. /\ Len(s \o t) = Len(s) + Len(t)
      /\ \A i \in 1 .. Len(s) + Len(t) :
           (s \o t)[i] = IF i <= Len(s) THEN s[i] ELSE t[i - Len(s)]
  BY ConcatProperties
<1>2. /\ k \in 1 .. Len(s) + Len(t)
      /\ DOMAIN s = 1 .. Len(s) /\ DOMAIN t = 1 .. Len(t)
      /\ Len(s) \in Nat /\ Len(t) \in Nat
  <2>1. s \o t \in Seq(S)
    BY ConcatProperties
  <2> QED  BY <1>1, <2>1, LenProperties
<1>3. CASE k <= Len(s)
  BY <1>1, <1>2, <1>3
<1>4. CASE ~ (k <= Len(s))
  <2>1. k - Len(s) \in DOMAIN t /\ (s \o t)[k] = t[k - Len(s)]
    BY <1>1, <1>2, <1>4
  <2> QED  BY <2>1
<1> QED  BY <1>3, <1>4

\* The three pieces an event can add to edges_ are sequences of typed edges.
LEMMA NewEdgesType ==
  ASSUME TypeOK, NEW e \in Event
  PROVE  /\ SpawnEdge(e) \in Seq([src : NodeId, dst : NodeId, relation : Relation])
         /\ InvokeEdge(e) \in Seq([src : NodeId, dst : NodeId, relation : Relation])
         /\ SequenceEdge(e) \in Seq([src : NodeId, dst : NodeId, relation : Relation])
         /\ NewEdges(e) \in Seq([src : NodeId, dst : NodeId, relation : Relation])
<1> DEFINE Typed == [src : NodeId, dst : NodeId, relation : Relation]
<1>1. /\ e.pid \in Pid
      /\ e.ppid \in Pid \cup {0}
  BY DEF Event
<1>2. ASSUME NEW p \in Pid PROVE ProcId(p) \in NodeId
  BY DEF ProcId, NodeId
<1>3. ASSUME NEW s \in 0 .. SeqLimit - 1 PROVE EventId(s) \in NodeId
  BY DEF EventId, NodeId
<1>4. seq \in 0 .. SeqLimit - 1
  BY DEF TypeOK
<1>5. SpawnEdge(e) \in Seq(Typed)
  <2>1. CASE /\ e.pid \notin DOMAIN processes
             /\ e.ppid # 0
             /\ e.ppid \in DOMAIN processes \cup {e.pid}
    <3>1. Edge(ProcId(e.ppid), ProcId(e.pid), "spawns") \in Typed
      BY <1>1, <1>2, <2>1 DEF Edge, Relation
    <3> QED  BY <2>1, <3>1 DEF SpawnEdge
  <2>2. CASE ~ (/\ e.pid \notin DOMAIN processes
                /\ e.ppid # 0
                /\ e.ppid \in DOMAIN processes \cup {e.pid})
    <3>1. SpawnEdge(e) = <<>>
      BY <2>2 DEF SpawnEdge
    <3> QED  BY <3>1
  <2> QED  BY <2>1, <2>2
<1>6. InvokeEdge(e) \in Seq(Typed)
  <2>1. Edge(ProcId(e.pid), EventId(seq), "invokes") \in Typed
    BY <1>1, <1>2, <1>3, <1>4 DEF Edge, Relation
  <2> QED  BY <2>1 DEF InvokeEdge
<1>7. SequenceEdge(e) \in Seq(Typed)
  <2>1. CASE e.pid \in DOMAIN lastEventByPid
    <3>1. lastEventByPid[e.pid] \in 0 .. SeqLimit - 1
      BY <2>1 DEF TypeOK
    <3>2. Edge(EventId(lastEventByPid[e.pid]), EventId(seq), "sequences") \in Typed
      BY <1>3, <1>4, <3>1 DEF Edge, Relation
    <3> QED  BY <2>1, <3>2 DEF SequenceEdge
  <2>2. CASE e.pid \notin DOMAIN lastEventByPid
    <3>1. SequenceEdge(e) = <<>>
      BY <2>2 DEF SequenceEdge
    <3> QED  BY <3>1
  <2> QED  BY <2>1, <2>2
<1>8. NewEdges(e) \in Seq(Typed)
  <2> HIDE DEF Typed
  <2> QED  BY <1>5, <1>6, <1>7 DEF NewEdges
<1> QED  BY <1>5, <1>6, <1>7, <1>8

(* The five members of SyscallGraph keep their types, seq_ within its width *)
(* included (add_event).                                                    *)
THEOREM Typing == Spec => []TypeOK
<1>1. Init => TypeOK
  BY GraphAssumption DEF Init, TypeOK
<1>2. TypeOK /\ [Next]_graphVars => TypeOK'
  <2> SUFFICES ASSUME TypeOK, [Next]_graphVars
               PROVE  TypeOK'
    OBVIOUS
  <2>1. CASE UNCHANGED graphVars
    BY <2>1 DEF TypeOK, graphVars
  <2>2. ASSUME NEW e \in Event, AddEvent(e)
        PROVE  TypeOK'
    <3>1. /\ e.pid \in Pid
          /\ e.ppid \in Pid \cup {0}
          /\ e.type \in Type
      BY DEF Event
    <3>2. /\ DOMAIN processes' \subseteq Pid
          /\ processes' \in [DOMAIN processes' -> Pid \cup {0}]
      BY <2>2, <3>1 DEF AddEvent, ProcessesWith, TypeOK
    <3>3. events' \in Seq([seq : 0 .. SeqLimit - 1, type : Type, pid : Pid])
      <4>1. [seq |-> seq, type |-> e.type, pid |-> e.pid]
              \in [seq : 0 .. SeqLimit - 1, type : Type, pid : Pid]
        BY <3>1 DEF TypeOK
      <4> QED  BY <2>2, <4>1 DEF AddEvent, TypeOK
    <3>4. edges' \in Seq([src : NodeId, dst : NodeId, relation : Relation])
      <4> DEFINE Typed == [src : NodeId, dst : NodeId, relation : Relation]
      <4>1. edges \in Seq(Typed) /\ NewEdges(e) \in Seq(Typed)
        BY NewEdgesType DEF TypeOK
      <4>2. edges' = edges \o NewEdges(e)
        BY <2>2 DEF AddEvent
      <4> HIDE DEF Typed
      <4>3. edges' \in Seq(Typed)
        BY <4>1, <4>2, ConcatProperties
      <4> QED  BY <4>3 DEF Typed
    <3>5. /\ DOMAIN lastEventByPid' \subseteq Pid
          /\ lastEventByPid' \in [DOMAIN lastEventByPid' -> 0 .. SeqLimit - 1]
      BY <2>2, <3>1 DEF AddEvent, TypeOK
    <3>6. seq' \in 0 .. SeqLimit - 1
      BY <2>2, GraphAssumption DEF AddEvent, NextSeq, TypeOK
    <3> QED  BY <3>2, <3>3, <3>4, <3>5, <3>6 DEF TypeOK, NodeId
  <2> QED  BY <2>1, <2>2 DEF Next
<1> QED  BY <1>1, <1>2, PTL DEF Spec

-----------------------------------------------------------------------------
\* What makes EdgesJoinNodes inductive: the number a "sequences" edge will
\* start from belongs to an event node, although seq_ may have wrapped since.
LastIsNode == \A p \in DOMAIN lastEventByPid : EventId(lastEventByPid[p]) \in Nodes

JoinInv == TypeOK /\ LastIsNode /\ EdgesJoinNodes

\* No node ever disappears, and the event adds the two it is about.
LEMMA NodesGrow ==
  ASSUME TypeOK, NEW e \in Event, AddEvent(e)
  PROVE  /\ Nodes \subseteq Nodes'
         /\ ProcId(e.pid) \in Nodes'
         /\ EventId(seq) \in Nodes'
<1>1. /\ DOMAIN processes' = DOMAIN processes \cup {e.pid}
      /\ events' = Append(events, [seq |-> seq, type |-> e.type, pid |-> e.pid])
  BY DEF AddEvent, ProcessesWith
<1>2. [seq |-> seq, type |-> e.type, pid |-> e.pid]
        \in [seq : 0 .. SeqLimit - 1, type : Type, pid : Pid]
  BY DEF Event, TypeOK
<1>3. /\ DOMAIN events' = DOMAIN events \cup {Len(events) + 1}
      /\ \A i \in DOMAIN events : events'[i] = events[i]
      /\ events'[Len(events) + 1].seq = seq
  BY <1>1, <1>2, AppendProperties DEF TypeOK
<1> QED  BY <1>1, <1>3 DEF Nodes

\* Both ends of every edge an event adds are nodes once it is added.
LEMMA NewEdgesJoin ==
  ASSUME JoinInv, NEW e \in Event, AddEvent(e), NEW j \in DOMAIN NewEdges(e)
  PROVE  NewEdges(e)[j].src \in Nodes' /\ NewEdges(e)[j].dst \in Nodes'
<1> DEFINE Typed == [src : NodeId, dst : NodeId, relation : Relation]
           Joins(x) == x.src \in Nodes' /\ x.dst \in Nodes'
<1>1. /\ Nodes \subseteq Nodes'
      /\ ProcId(e.pid) \in Nodes'
      /\ EventId(seq) \in Nodes'
  BY NodesGrow DEF JoinInv
<1>2. \A i \in DOMAIN SpawnEdge(e) : Joins(SpawnEdge(e)[i])
  <2>1. CASE /\ e.pid \notin DOMAIN processes
             /\ e.ppid # 0
             /\ e.ppid \in DOMAIN processes \cup {e.pid}
    <3>1. e.ppid \in DOMAIN processes
      BY <2>1 DEF Event
    <3>2. ProcId(e.ppid) \in Nodes'
      BY <1>1, <3>1 DEF Nodes
    <3>3. SpawnEdge(e) = <<Edge(ProcId(e.ppid), ProcId(e.pid), "spawns")>>
      BY <2>1 DEF SpawnEdge
    <3> QED  BY <1>1, <3>2, <3>3 DEF Edge
  <2>2. CASE ~ (/\ e.pid \notin DOMAIN processes
                /\ e.ppid # 0
                /\ e.ppid \in DOMAIN processes \cup {e.pid})
    <3>1. SpawnEdge(e) = <<>>
      BY <2>2 DEF SpawnEdge
    <3> QED  BY <3>1
  <2> QED  BY <2>1, <2>2
<1>3. \A i \in DOMAIN InvokeEdge(e) : Joins(InvokeEdge(e)[i])
  BY <1>1 DEF InvokeEdge, Edge
<1>4. \A i \in DOMAIN SequenceEdge(e) : Joins(SequenceEdge(e)[i])
  <2>1. CASE e.pid \in DOMAIN lastEventByPid
    <3>1. EventId(lastEventByPid[e.pid]) \in Nodes'
      BY <1>1, <2>1 DEF JoinInv, LastIsNode
    <3> QED  BY <1>1, <2>1, <3>1 DEF SequenceEdge, Edge
  <2>2. CASE e.pid \notin DOMAIN lastEventByPid
    <3>1. SequenceEdge(e) = <<>>
      BY <2>2 DEF SequenceEdge
    <3> QED  BY <3>1
  <2> QED  BY <2>1, <2>2
<1>5. /\ SpawnEdge(e) \in Seq(Typed)
      /\ InvokeEdge(e) \in Seq(Typed)
      /\ SequenceEdge(e) \in Seq(Typed)
  BY NewEdgesType DEF JoinInv
<1> HIDE DEF Typed
<1>6. SpawnEdge(e) \o InvokeEdge(e) \in Seq(Typed)
  BY <1>5, ConcatProperties
<1>7. \A i \in DOMAIN (SpawnEdge(e) \o InvokeEdge(e)) : Joins((SpawnEdge(e) \o InvokeEdge(e))[i])
  <2> TAKE i \in DOMAIN (SpawnEdge(e) \o InvokeEdge(e))
  <2> HIDE DEF Joins
  <2> QED  BY <1>2, <1>3, <1>5, ConcatElement
<1>8. Joins(((SpawnEdge(e) \o InvokeEdge(e)) \o SequenceEdge(e))[j])
  <2>1. j \in DOMAIN ((SpawnEdge(e) \o InvokeEdge(e)) \o SequenceEdge(e))
    BY DEF NewEdges
  <2> HIDE DEF Joins
  <2> QED  BY <1>4, <1>5, <1>6, <1>7, <2>1, ConcatElement
<1> QED  BY <1>8 DEF NewEdges

(* No edge of the graph dangles, for every number of events and also after  *)
(* seq_ has wrapped: to_gnn_inputs finds both ends of every edge.           *)
THEOREM Joining == Spec => []EdgesJoinNodes
<1>1. Init => JoinInv
  BY GraphAssumption DEF Init, JoinInv, TypeOK, LastIsNode, EdgesJoinNodes
<1>2. JoinInv /\ TypeOK' /\ [Next]_graphVars => JoinInv'
  <2> SUFFICES ASSUME JoinInv, TypeOK', [Next]_graphVars
               PROVE  JoinInv'
    OBVIOUS
  <2>1. CASE UNCHANGED graphVars
    BY <2>1 DEF JoinInv, LastIsNode, EdgesJoinNodes, Nodes, graphVars
  <2>2. ASSUME NEW e \in Event, AddEvent(e)
        PROVE  JoinInv'
    <3>1. /\ Nodes \subseteq Nodes'
          /\ EventId(seq) \in Nodes'
      BY <2>2, NodesGrow DEF JoinInv
    <3>2. LastIsNode'
      <4> SUFFICES ASSUME NEW p \in DOMAIN lastEventByPid'
                   PROVE  EventId(lastEventByPid'[p]) \in Nodes'
        BY DEF LastIsNode, EventId
      <4>1. CASE p = e.pid
        BY <2>2, <3>1, <4>1 DEF AddEvent
      <4>2. CASE p # e.pid
        BY <2>2, <3>1, <4>2 DEF AddEvent, JoinInv, LastIsNode
      <4> QED  BY <4>1, <4>2
    <3>3. EdgesJoinNodes'
      <4> DEFINE Typed == [src : NodeId, dst : NodeId, relation : Relation]
      <4>1. edges' = edges \o NewEdges(e)
        BY <2>2 DEF AddEvent
      <4>2. edges \in Seq(Typed) /\ NewEdges(e) \in Seq(Typed)
        BY NewEdgesType DEF JoinInv, TypeOK
      <4> SUFFICES ASSUME NEW k \in DOMAIN edges'
                   PROVE  edges'[k].src \in Nodes' /\ edges'[k].dst \in Nodes'
        BY DEF EdgesJoinNodes
      <4> HIDE DEF Typed
      <4>3. \/ k \in DOMAIN edges /\ edges'[k] = edges[k]
            \/ \E j \in DOMAIN NewEdges(e) : edges'[k] = NewEdges(e)[j]
        BY <4>1, <4>2, ConcatElement
      <4>4. CASE k \in DOMAIN edges /\ edges'[k] = edges[k]
        BY <3>1, <4>4 DEF JoinInv, EdgesJoinNodes
      <4>5. ASSUME NEW j \in DOMAIN NewEdges(e), edges'[k] = NewEdges(e)[j]
            PROVE  edges'[k].src \in Nodes' /\ edges'[k].dst \in Nodes'
        BY <2>2, <4>5, NewEdgesJoin
      <4> QED  BY <4>3, <4>4, <4>5
    <3> QED  BY <3>2, <3>3 DEF JoinInv
  <2> QED  BY <2>1, <2>2 DEF Next
<1>3. JoinInv => EdgesJoinNodes
  BY DEF JoinInv
<1> QED  BY <1>1, <1>2, <1>3, Typing, PTL DEF Spec

(* Nodes and edges are never changed or removed: what a GNN check was given *)
(* stays part of the graph, and a reused pid never rewrites its node.       *)
THEOREM Growing == Spec => GraphOnlyGrows
<1>1. TypeOK /\ [Next]_graphVars
        => [/\ \A p \in DOMAIN processes : p \in DOMAIN processes' /\ processes'[p] = processes[p]
            /\ \A i \in DOMAIN events : i \in DOMAIN events' /\ events'[i] = events[i]
            /\ \A k \in DOMAIN edges : k \in DOMAIN edges' /\ edges'[k] = edges[k]]_graphVars
  <2> SUFFICES ASSUME TypeOK, NEW e \in Event, AddEvent(e)
               PROVE  /\ \A p \in DOMAIN processes : p \in DOMAIN processes' /\ processes'[p] = processes[p]
                      /\ \A i \in DOMAIN events : i \in DOMAIN events' /\ events'[i] = events[i]
                      /\ \A k \in DOMAIN edges : k \in DOMAIN edges' /\ edges'[k] = edges[k]
    BY DEF Next
  <2>1. \A p \in DOMAIN processes : p \in DOMAIN processes' /\ processes'[p] = processes[p]
    BY DEF AddEvent, ProcessesWith
  <2>2. \A i \in DOMAIN events : i \in DOMAIN events' /\ events'[i] = events[i]
    <3>1. [seq |-> seq, type |-> e.type, pid |-> e.pid]
            \in [seq : 0 .. SeqLimit - 1, type : Type, pid : Pid]
      BY DEF Event, TypeOK
    <3> QED  BY <3>1, AppendProperties DEF AddEvent, TypeOK
  <2>3. \A k \in DOMAIN edges : k \in DOMAIN edges' /\ edges'[k] = edges[k]
    <3> DEFINE Typed == [src : NodeId, dst : NodeId, relation : Relation]
    <3>1. edges \in Seq(Typed) /\ NewEdges(e) \in Seq(Typed)
      BY NewEdgesType DEF TypeOK
    <3>2. edges' = edges \o NewEdges(e)
      BY DEF AddEvent
    <3> HIDE DEF Typed
    <3> QED  BY <3>1, <3>2, ConcatProperties, LenProperties
  <2> QED  BY <2>1, <2>2, <2>3
<1> QED  BY <1>1, Typing, PTL DEF Spec, GraphOnlyGrows

-----------------------------------------------------------------------------
TypedEdge == [src : NodeId, dst : NodeId, relation : Relation]

\* The edges of one relation in a sequence of edges: Links(r) is LinksOf(edges, r).
LinksOf(s, r) == {<<s[k].src, s[k].dst>> : k \in {j \in DOMAIN s : s[j].relation = r}}

LEMMA LinksOfConcat ==
  ASSUME NEW S, NEW s \in Seq(S), NEW t \in Seq(S), NEW r
  PROVE  LinksOf(s \o t, r) = LinksOf(s, r) \cup LinksOf(t, r)
<1>1. /\ DOMAIN (s \o t) = 1 .. Len(s) + Len(t)
      /\ DOMAIN s = 1 .. Len(s) /\ DOMAIN t = 1 .. Len(t)
      /\ Len(s) \in Nat /\ Len(t) \in Nat
  BY ConcatProperties, LenProperties
<1>2. \A k \in DOMAIN s : k \in DOMAIN (s \o t) /\ (s \o t)[k] = s[k]
  BY <1>1, ConcatProperties
<1>3. \A k \in DOMAIN t : /\ Len(s) + k \in DOMAIN (s \o t)
                          /\ (s \o t)[Len(s) + k] = t[k]
  <2> TAKE k \in DOMAIN t
  <2>1. Len(s) + k \in 1 .. Len(s) + Len(t) /\ ~ (Len(s) + k <= Len(s)) /\ Len(s) + k - Len(s) = k
    BY <1>1
  <2> QED  BY <1>1, <2>1, ConcatProperties
<1>4. \A k \in DOMAIN (s \o t) : \/ k \in DOMAIN s /\ (s \o t)[k] = s[k]
                               \/ \E j \in DOMAIN t : (s \o t)[k] = t[j]
  BY ConcatElement
<1>5. LinksOf(s \o t, r) \subseteq LinksOf(s, r) \cup LinksOf(t, r)
  BY <1>4 DEF LinksOf
<1>6. LinksOf(s, r) \cup LinksOf(t, r) \subseteq LinksOf(s \o t, r)
  <2>1. LinksOf(s, r) \subseteq LinksOf(s \o t, r)
    BY <1>2 DEF LinksOf
  <2>2. LinksOf(t, r) \subseteq LinksOf(s \o t, r)
    BY <1>3 DEF LinksOf
  <2> QED  BY <2>1, <2>2
<1> QED  BY <1>5, <1>6

\* What an event adds to the links of a relation.
LEMMA LinksGrow ==
  ASSUME TypeOK, NEW e \in Event, AddEvent(e), NEW r
  PROVE  Links(r)' = Links(r) \cup LinksOf(SpawnEdge(e), r) \cup LinksOf(InvokeEdge(e), r)
                              \cup LinksOf(SequenceEdge(e), r)
<1>1. /\ edges \in Seq(TypedEdge) /\ SpawnEdge(e) \in Seq(TypedEdge)
      /\ InvokeEdge(e) \in Seq(TypedEdge) /\ SequenceEdge(e) \in Seq(TypedEdge)
      /\ NewEdges(e) \in Seq(TypedEdge)
  BY NewEdgesType DEF TypeOK, TypedEdge
<1>2. SpawnEdge(e) \o InvokeEdge(e) \in Seq(TypedEdge)
  BY <1>1, ConcatProperties
<1>3. LinksOf(NewEdges(e), r) =
        LinksOf(SpawnEdge(e), r) \cup LinksOf(InvokeEdge(e), r) \cup LinksOf(SequenceEdge(e), r)
  <2>1. LinksOf(SpawnEdge(e) \o InvokeEdge(e), r) =
          LinksOf(SpawnEdge(e), r) \cup LinksOf(InvokeEdge(e), r)
    BY <1>1, LinksOfConcat
  <2> DEFINE two == SpawnEdge(e) \o InvokeEdge(e)
  <2>2. two \in Seq(TypedEdge) /\ NewEdges(e) = two \o SequenceEdge(e)
    BY <1>2 DEF NewEdges
  <2>3. LinksOf(two, r) = LinksOf(SpawnEdge(e), r) \cup LinksOf(InvokeEdge(e), r)
    BY <2>1
  <2> HIDE DEF two
  <2>4. LinksOf(two \o SequenceEdge(e), r) = LinksOf(two, r) \cup LinksOf(SequenceEdge(e), r)
    BY <1>1, <2>2, LinksOfConcat
  <2> QED  BY <2>2, <2>3, <2>4
<1>4. edges' = edges \o NewEdges(e)
  BY DEF AddEvent
<1>5. Links(r)' = LinksOf(edges', r) /\ Links(r) = LinksOf(edges, r)
  BY DEF Links, LinksOf
<1>6. LinksOf(edges', r) = LinksOf(edges, r) \cup LinksOf(NewEdges(e), r)
  BY <1>1, <1>4, LinksOfConcat
<1> QED  BY <1>3, <1>5, <1>6

LEMMA LinksOfOne ==
  ASSUME NEW src, NEW dst, NEW relation, NEW r
  PROVE  LinksOf(<<Edge(src, dst, relation)>>, r) =
           IF relation = r THEN {<<src, dst>>} ELSE {}
<1> DEFINE one == <<Edge(src, dst, relation)>>
<1>1. DOMAIN one = {1} /\ one[1].src = src /\ one[1].dst = dst /\ one[1].relation = relation
  BY DEF Edge
<1> HIDE DEF one
<1>2. CASE relation = r
  <2>1. {j \in DOMAIN one : one[j].relation = r} = {1}
    BY <1>1, <1>2
  <2>2. LinksOf(one, r) = {<<one[k].src, one[k].dst>> : k \in {1}}
    BY <2>1 DEF LinksOf
  <2> QED  BY <1>1, <1>2, <2>2 DEF one
<1>3. CASE relation # r
  <2>1. {j \in DOMAIN one : one[j].relation = r} = {}
    BY <1>1, <1>3
  <2>2. LinksOf(one, r) = {}
    BY <2>1 DEF LinksOf
  <2> QED  BY <1>3, <2>2 DEF one
<1> QED  BY <1>2, <1>3

LEMMA LinksOfNone == \A r : LinksOf(<<>>, r) = {}
BY DEF LinksOf

\* events_ grows by one event, of process e.pid.
LEMMA EventsGrow ==
  ASSUME TypeOK, NEW e \in Event, AddEvent(e)
  PROVE  /\ DOMAIN events = 1 .. Len(events) /\ Len(events) \in Nat
         /\ DOMAIN events' = 1 .. Len(events) + 1
         /\ \A i \in DOMAIN events : events'[i] = events[i]
         /\ events'[Len(events) + 1].pid = e.pid
         /\ events'[Len(events) + 1].seq = seq
<1>1. [seq |-> seq, type |-> e.type, pid |-> e.pid]
        \in [seq : 0 .. SeqLimit - 1, type : Type, pid : Pid]
  BY DEF Event, TypeOK
<1>2. events' = Append(events, [seq |-> seq, type |-> e.type, pid |-> e.pid])
  BY DEF AddEvent
<1> QED  BY <1>1, <1>2, AppendProperties, LenProperties DEF TypeOK

-----------------------------------------------------------------------------
LastEventOf(p) == {i \in DOMAIN events : /\ events[i].pid = p
                                         /\ \A j \in i + 1 .. Len(events) : events[j].pid # p}

\* The right side of SequencesExact.
Chain == {<<EventId(events[p[1]].seq), EventId(events[p[2]].seq)>> :
            p \in {q \in (DOMAIN events) \X (DOMAIN events) : Follows(q[1], q[2])}}

ChainLink(i, j) == <<EventId(events[i].seq), EventId(events[j].seq)>>

LEMMA ChainLinks ==
  \A x : x \in Chain <=> \E i, j \in DOMAIN events : Follows(i, j) /\ x = ChainLink(i, j)
<1> TAKE x
<1>1. ASSUME x \in Chain PROVE \E i, j \in DOMAIN events : Follows(i, j) /\ x = ChainLink(i, j)
  <2>1. PICK p \in {q \in (DOMAIN events) \X (DOMAIN events) : Follows(q[1], q[2])} :
               x = ChainLink(p[1], p[2])
    BY <1>1 DEF Chain, ChainLink
  <2>2. p[1] \in DOMAIN events /\ p[2] \in DOMAIN events
    BY <2>1
  <2>3. Follows(p[1], p[2])
    BY <2>1, Zenon
  <2> QED  BY <2>1, <2>2, <2>3, Zenon
<1>2. ASSUME NEW i \in DOMAIN events, NEW j \in DOMAIN events, Follows(i, j), x = ChainLink(i, j)
      PROVE  x \in Chain
  <2>1. <<i, j>> \in (DOMAIN events) \X (DOMAIN events) /\ <<i, j>>[1] = i /\ <<i, j>>[2] = j
    OBVIOUS
  <2>2. <<i, j>> \in {q \in (DOMAIN events) \X (DOMAIN events) : Follows(q[1], q[2])}
    BY <1>2, <2>1
  <2>3. x = <<EventId(events[<<i, j>>[1]].seq), EventId(events[<<i, j>>[2]].seq)>>
    BY <1>2, <2>1 DEF ChainLink
  <2> QED  BY <2>2, <2>3, Zenon DEF Chain
<1> QED  BY <1>1, <1>2, Zenon

(* last_event_by_pid_ has a number for exactly the processes with an event, *)
(* and it is the number of the last one: the inductive form of              *)
(* SequencesExact.                                                          *)
ChainInv ==
  /\ \A i \in DOMAIN events : events[i].pid \in DOMAIN lastEventByPid
  /\ \A p \in DOMAIN lastEventByPid : \E i \in LastEventOf(p) : events[i].seq = lastEventByPid[p]
  /\ Links("sequences") = Chain

\* The new event follows the last one of its process, and nothing else changes.
LEMMA FollowsNew ==
  ASSUME TypeOK, NEW e \in Event, AddEvent(e),
         NEW i \in DOMAIN events', NEW j \in DOMAIN events'
  PROVE  Follows(i, j)' <=> \/ i \in DOMAIN events /\ j \in DOMAIN events /\ Follows(i, j)
                            \/ j = Len(events) + 1 /\ i \in LastEventOf(e.pid)
<1>1. /\ DOMAIN events = 1 .. Len(events) /\ Len(events) \in Nat
      /\ DOMAIN events' = 1 .. Len(events) + 1
      /\ \A k \in DOMAIN events : events'[k] = events[k]
      /\ events'[Len(events) + 1].pid = e.pid
  BY EventsGrow
<1>2. CASE j \in DOMAIN events
  <2>1. j # Len(events) + 1 /\ \A k \in i + 1 .. j - 1 : k \in DOMAIN events
    BY <1>1, <1>2
  <2>2. CASE i \in DOMAIN events
    <3>1. Follows(i, j)' <=> Follows(i, j)
      BY <1>1, <1>2, <2>1, <2>2 DEF Follows
    <3> QED  BY <1>2, <2>1, <2>2, <3>1, Zenon
  <2>3. CASE i \notin DOMAIN events
    <3>1. ~ (i < j)
      BY <1>1, <1>2, <2>3
    <3> QED  BY <2>1, <2>3, <3>1 DEF Follows
  <2> QED  BY <2>2, <2>3
<1>3. CASE j \notin DOMAIN events
  <2>1. j = Len(events) + 1 /\ events'[j].pid = e.pid
    BY <1>1, <1>3
  <2>2. CASE i \in DOMAIN events
    <3>1. i < j /\ i + 1 .. j - 1 = i + 1 .. Len(events) /\ events'[i] = events[i]
          /\ \A k \in i + 1 .. Len(events) : k \in DOMAIN events
      BY <1>1, <2>1, <2>2
    <3>2. \A k \in i + 1 .. Len(events) : events'[k] = events[k]
      BY <1>1, <3>1
    <3>3. Follows(i, j)' <=> /\ events[i].pid = e.pid
                            /\ \A k \in i + 1 .. Len(events) : events[k].pid # e.pid
      BY <2>1, <3>1, <3>2 DEF Follows
    <3> QED  BY <1>3, <2>1, <2>2, <3>3 DEF LastEventOf
  <2>3. CASE i \notin DOMAIN events
    <3>1. ~ (i < j)
      BY <1>1, <2>1, <2>3
    <3> QED  BY <1>3, <2>3, <3>1 DEF Follows, LastEventOf
  <2> QED  BY <2>2, <2>3
<1> QED  BY <1>2, <1>3

LEMMA ChainGrows ==
  ASSUME TypeOK, NEW e \in Event, AddEvent(e)
  PROVE  Chain' = Chain \cup {<<EventId(events[i].seq), EventId(seq)>> : i \in LastEventOf(e.pid)}
<1>0. PICK new : new = Len(events) + 1
  OBVIOUS
<1> DEFINE Added == {<<EventId(events[i].seq), EventId(seq)>> : i \in LastEventOf(e.pid)}
<1>1. /\ DOMAIN events = 1 .. Len(events) /\ Len(events) \in Nat
      /\ DOMAIN events' = 1 .. Len(events) + 1
      /\ \A k \in DOMAIN events : events'[k] = events[k]
      /\ events'[new].seq = seq
  BY <1>0, EventsGrow
<1>2. DOMAIN events \subseteq DOMAIN events' /\ new \in DOMAIN events'
      /\ LastEventOf(e.pid) \subseteq DOMAIN events
  BY <1>0, <1>1 DEF LastEventOf
<1>3. \A i, j \in DOMAIN events : ChainLink(i, j)' = ChainLink(i, j)
  BY <1>1 DEF ChainLink, EventId
<1>4. \A i \in DOMAIN events : ChainLink(i, new)' = <<EventId(events[i].seq), EventId(seq)>>
  BY <1>1 DEF ChainLink, EventId
<1>5. \A i, j \in DOMAIN events' :
        Follows(i, j)' <=> \/ i \in DOMAIN events /\ j \in DOMAIN events /\ Follows(i, j)
                           \/ j = new /\ i \in LastEventOf(e.pid)
  BY <1>0, FollowsNew
<1>6. \A x : x \in Chain' <=> \E i, j \in DOMAIN events' : Follows(i, j)' /\ x = ChainLink(i, j)'
  <2>1. (\A x : x \in Chain <=> \E i, j \in DOMAIN events : Follows(i, j) /\ x = ChainLink(i, j))'
    BY ChainLinks, PTL
  <2> QED  BY <2>1
<1>7. ASSUME NEW x \in Chain' PROVE x \in Chain \cup Added
  <2>1. PICK i \in DOMAIN events', j \in DOMAIN events' : Follows(i, j)' /\ x = ChainLink(i, j)'
    BY <1>6, Zenon
  <2>2. CASE i \in DOMAIN events /\ j \in DOMAIN events /\ Follows(i, j)
    <3>1. x = ChainLink(i, j)
      BY <1>3, <2>1, <2>2
    <3> QED  BY <2>2, <3>1, ChainLinks, Zenon
  <2>3. CASE j = new /\ i \in LastEventOf(e.pid)
    BY <1>2, <1>4, <2>1, <2>3
  <2> QED  BY <1>5, <2>1, <2>2, <2>3, Zenon
<1>8. ASSUME NEW x \in Chain PROVE x \in Chain'
  <2>1. PICK i \in DOMAIN events, j \in DOMAIN events : Follows(i, j) /\ x = ChainLink(i, j)
    BY ChainLinks, Zenon
  <2>2. Follows(i, j)' /\ x = ChainLink(i, j)'
    BY <1>2, <1>3, <1>5, <2>1, Zenon
  <2> QED  BY <1>2, <1>6, <2>2, Zenon
<1>9. ASSUME NEW x \in Added PROVE x \in Chain'
  <2>1. PICK i \in LastEventOf(e.pid) : x = <<EventId(events[i].seq), EventId(seq)>>
    OBVIOUS
  <2>2. i \in DOMAIN events /\ i \in DOMAIN events' /\ new \in DOMAIN events'
    BY <1>2
  <2>3. Follows(i, new)' /\ x = ChainLink(i, new)'
    BY <1>4, <1>5, <2>1, <2>2, Zenon
  <2> QED  BY <1>6, <2>2, <2>3, Zenon
<1> HIDE DEF Added
<1>10. Chain' = Chain \cup Added
  BY <1>7, <1>8, <1>9
<1> QED  BY <1>10 DEF Added

\* What add_event looks up is the one last event of the process.
LEMMA LastIsUnique ==
  ASSUME TypeOK, ChainInv, NEW e \in Event
  PROVE  LinksOf(SequenceEdge(e), "sequences") =
           {<<EventId(events[i].seq), EventId(seq)>> : i \in LastEventOf(e.pid)}
<1>1. DOMAIN events = 1 .. Len(events) /\ Len(events) \in Nat
  BY LenProperties DEF TypeOK
<1>2. CASE e.pid \in DOMAIN lastEventByPid
  <2>1. PICK i \in LastEventOf(e.pid) : events[i].seq = lastEventByPid[e.pid]
    BY <1>2 DEF ChainInv
  <2>2. ASSUME NEW k \in LastEventOf(e.pid) PROVE k = i
    <3>1. ASSUME NEW a \in LastEventOf(e.pid), NEW b \in LastEventOf(e.pid) PROVE ~ (a < b)
      BY <1>1 DEF LastEventOf
    <3>2. i \in Nat /\ k \in Nat
      BY <1>1 DEF LastEventOf
    <3> QED  BY <3>1, <3>2
  <2>3. LastEventOf(e.pid) = {i}
    BY <2>2
  <2>4. LinksOf(SequenceEdge(e), "sequences") = {<<EventId(lastEventByPid[e.pid]), EventId(seq)>>}
    BY <1>2, LinksOfOne DEF SequenceEdge
  <2> QED  BY <2>1, <2>3, <2>4
<1>3. CASE e.pid \notin DOMAIN lastEventByPid
  <2>1. LastEventOf(e.pid) = {}
    BY <1>3 DEF ChainInv, LastEventOf
  <2> QED  BY <1>3, <2>1, LinksOfNone DEF SequenceEdge
<1> QED  BY <1>2, <1>3

(* The "sequences" edges are exactly the steps from an event to the next of *)
(* its process, for any number of processes and events and also when seq_   *)
(* has wrapped.                                                             *)
THEOREM Chaining == Spec => []SequencesExact
<1>1. Init => ChainInv
  BY DEF Init, ChainInv, Links, Chain
<1>2. TypeOK /\ ChainInv /\ [Next]_graphVars => ChainInv'
  <2>1. ASSUME TypeOK, ChainInv, NEW e \in Event, AddEvent(e)
        PROVE  ChainInv'
    <3>1. /\ DOMAIN events = 1 .. Len(events) /\ Len(events) \in Nat
          /\ DOMAIN events' = 1 .. Len(events) + 1
          /\ \A i \in DOMAIN events : events'[i] = events[i]
          /\ events'[Len(events) + 1].pid = e.pid /\ events'[Len(events) + 1].seq = seq
      BY <2>1, EventsGrow
    <3>2. lastEventByPid' = [p \in DOMAIN lastEventByPid \cup {e.pid} |->
                               IF p = e.pid THEN seq ELSE lastEventByPid[p]]
      BY <2>1 DEF AddEvent
    <3>3. \A i \in DOMAIN events' : events'[i].pid \in DOMAIN lastEventByPid'
      <4> TAKE i \in DOMAIN events'
      <4>1. i \in DOMAIN events \/ i = Len(events) + 1
        BY <3>1
      <4> QED  BY <2>1, <3>1, <3>2, <4>1 DEF ChainInv
    <3>4. Len(events') = Len(events) + 1
      BY <2>1, <3>1, LenProperties, AppendProperties DEF AddEvent, TypeOK
    <3>5. \A p \in DOMAIN lastEventByPid' :
            \E i \in LastEventOf(p)' : events'[i].seq = lastEventByPid'[p]
      <4> SUFFICES ASSUME NEW p \in DOMAIN lastEventByPid'
                   PROVE  \E i \in LastEventOf(p)' : events'[i].seq = lastEventByPid'[p]
        OBVIOUS
      <4>1. CASE p = e.pid
        <5>1. Len(events) + 1 \in LastEventOf(p)'
          BY <3>1, <3>4, <4>1 DEF LastEventOf
        <5> QED  BY <3>1, <3>2, <4>1, <5>1
      <4>2. CASE p # e.pid
        <5>1. PICK i \in LastEventOf(p) : events[i].seq = lastEventByPid[p]
          BY <2>1, <3>2, <4>2 DEF ChainInv
        <5>2. i \in DOMAIN events /\ i \in DOMAIN events'
          BY <3>1 DEF LastEventOf
        <5>3. \A j \in i + 1 .. Len(events') : events'[j].pid # p
          <6> TAKE j \in i + 1 .. Len(events')
          <6>1. j = Len(events) + 1 \/ (j \in i + 1 .. Len(events) /\ j \in DOMAIN events)
            BY <3>1, <3>4, <5>2
          <6> QED  BY <3>1, <4>2, <6>1 DEF LastEventOf
        <5>4. i \in LastEventOf(p)'
          BY <3>1, <5>2, <5>3 DEF LastEventOf
        <5> QED  BY <3>1, <3>2, <4>2, <5>1, <5>2, <5>4
      <4> QED  BY <4>1, <4>2
    <3>6. Links("sequences")' = Chain'
      <4>1. /\ LinksOf(SpawnEdge(e), "sequences") = {}
            /\ LinksOf(InvokeEdge(e), "sequences") = {}
        BY LinksOfOne, LinksOfNone DEF SpawnEdge, InvokeEdge
      <4>2. Links("sequences")' = Links("sequences") \cup LinksOf(SequenceEdge(e), "sequences")
        BY <2>1, <4>1, LinksGrow
      <4>3. Links("sequences") = Chain
        BY <2>1 DEF ChainInv
      <4> QED  BY <2>1, <4>2, <4>3, ChainGrows, LastIsUnique
    <3> QED  BY <3>3, <3>5, <3>6 DEF ChainInv
  <2>2. ASSUME ChainInv, UNCHANGED graphVars PROVE ChainInv'
    <3>1. /\ \A p : LastEventOf(p)' = LastEventOf(p)
          /\ \A r : Links(r)' = Links(r)
          /\ \A i, j : Follows(i, j)' <=> Follows(i, j)
      BY <2>2 DEF graphVars, LastEventOf, Links, Follows
    <3>2. Chain' = Chain
      BY <2>2, <3>1, Zenon DEF graphVars, Chain, EventId
    <3> QED  BY <2>2, <3>1, <3>2 DEF ChainInv, graphVars
  <2> QED  BY <2>1, <2>2 DEF Next
<1>3. ChainInv => SequencesExact
  BY DEF ChainInv, Chain, SequencesExact
<1> QED  BY <1>1, <1>2, <1>3, Typing, PTL DEF Spec

-----------------------------------------------------------------------------
\* The right side of SpawnsExact.
Spawned == {<<ProcId(processes[q]), ProcId(q)>> :
              q \in {c \in DOMAIN processes : SeenBefore(processes[c], c)}}

(* A process has a node exactly if it has a first event: the inductive form *)
(* of SpawnsExact.                                                          *)
SpawnInv ==
  /\ \A i \in DOMAIN events : events[i].pid \in DOMAIN processes
  /\ \A p \in DOMAIN processes : \E i \in FirstEventOf(p) : TRUE
  /\ Links("spawns") = Spawned

LEMMA FirstNew ==
  ASSUME TypeOK, SpawnInv, NEW e \in Event, AddEvent(e), NEW p
  PROVE  FirstEventOf(p)' = IF p = e.pid /\ p \notin DOMAIN processes
                            THEN {Len(events) + 1} ELSE FirstEventOf(p)
<1>1. /\ DOMAIN events = 1 .. Len(events) /\ Len(events) \in Nat
      /\ DOMAIN events' = 1 .. Len(events) + 1
      /\ \A i \in DOMAIN events : events'[i] = events[i]
      /\ events'[Len(events) + 1].pid = e.pid
  BY EventsGrow
<1>2. \A i \in DOMAIN events : \A j \in 1 .. i - 1 : j \in DOMAIN events
  BY <1>1
<1>3. \A i \in DOMAIN events : i \in FirstEventOf(p)' <=> i \in FirstEventOf(p)
  BY <1>1, <1>2 DEF FirstEventOf
<1>4. Len(events) + 1 \in FirstEventOf(p)' <=>
        p = e.pid /\ \A j \in DOMAIN events : events[j].pid # p
  <2>1. 1 .. Len(events) + 1 - 1 = DOMAIN events /\ Len(events) + 1 \in DOMAIN events'
    BY <1>1
  <2> QED  BY <1>1, <2>1 DEF FirstEventOf
<1>5. (\A j \in DOMAIN events : events[j].pid # p) <=> p \notin DOMAIN processes
  BY DEF SpawnInv, FirstEventOf
<1>6. FirstEventOf(p)' \subseteq 1 .. Len(events) + 1 /\ FirstEventOf(p) \subseteq 1 .. Len(events)
  BY <1>1 DEF FirstEventOf
<1>7. CASE p = e.pid /\ p \notin DOMAIN processes
  <2>1. FirstEventOf(p) = {}
    BY <1>5, <1>7 DEF FirstEventOf
  <2>2. ASSUME NEW i \in FirstEventOf(p)' PROVE i = Len(events) + 1
    <3>1. i \in DOMAIN events \/ i = Len(events) + 1
      BY <1>1, <1>6
    <3> QED  BY <1>3, <2>1, <3>1
  <2> QED  BY <1>4, <1>5, <1>7, <2>2
<1>8. CASE ~ (p = e.pid /\ p \notin DOMAIN processes)
  <2>1. ASSUME NEW i \in FirstEventOf(p)' PROVE i \in FirstEventOf(p)
    <3>1. i \in DOMAIN events \/ i = Len(events) + 1
      BY <1>1, <1>6
    <3> QED  BY <1>3, <1>4, <1>5, <1>8, <3>1
  <2>2. ASSUME NEW i \in FirstEventOf(p) PROVE i \in FirstEventOf(p)'
    BY <1>1, <1>3, <1>6
  <2> QED  BY <1>8, <2>1, <2>2
<1> QED  BY <1>7, <1>8

\* An event that makes a node changes for that process only who was seen before it.
LEMMA SeenNew ==
  ASSUME TypeOK, SpawnInv, NEW e \in Event, AddEvent(e)
  PROVE  /\ \A p : \A c \in DOMAIN processes : SeenBefore(p, c)' <=> SeenBefore(p, c)
         /\ e.pid \notin DOMAIN processes =>
              (SeenBefore(e.ppid, e.pid)' <=> e.ppid \in DOMAIN processes)
<1> DEFINE n == Len(events)
<1>1. DOMAIN events = 1 .. n /\ n \in Nat
  BY EventsGrow
<1>2. \A p : FirstEventOf(p) \subseteq 1 .. n
  BY <1>1 DEF FirstEventOf
<1>3. \A p \in DOMAIN processes : FirstEventOf(p)' = FirstEventOf(p) /\ FirstEventOf(p) # {}
  BY FirstNew DEF SpawnInv
<1>4. \A p : p \notin DOMAIN processes => FirstEventOf(p) = {}
  BY DEF SpawnInv, FirstEventOf
<1>5. \A p : p \notin DOMAIN processes =>
        FirstEventOf(p)' = IF p = e.pid THEN {n + 1} ELSE {}
  BY <1>4, FirstNew
<1> HIDE DEF n
<1>6. ASSUME NEW p, NEW c \in DOMAIN processes PROVE SeenBefore(p, c)' <=> SeenBefore(p, c)
  <2>1. CASE p \in DOMAIN processes
    BY <1>3, <2>1 DEF SeenBefore
  <2>2. CASE p \notin DOMAIN processes
    <3>1. ~ SeenBefore(p, c)
      BY <1>4, <2>2 DEF SeenBefore
    <3>2. \A i \in FirstEventOf(p)' : i = n + 1
      BY <1>5, <2>2
    <3>3. FirstEventOf(c)' \subseteq 1 .. n
      BY <1>2, <1>3
    <3>4. ~ SeenBefore(p, c)'
      BY <1>1, <3>2, <3>3 DEF SeenBefore
    <3> QED  BY <3>1, <3>4
  <2> QED  BY <2>1, <2>2
<1>7. ASSUME e.pid \notin DOMAIN processes
      PROVE  SeenBefore(e.ppid, e.pid)' <=> e.ppid \in DOMAIN processes
  <2>1. FirstEventOf(e.pid)' = {n + 1}
    BY <1>5, <1>7
  <2>2. CASE e.ppid \in DOMAIN processes
    <3>1. PICK i \in FirstEventOf(e.ppid)' : i \in 1 .. n
      BY <1>2, <1>3, <2>2
    <3>2. i < n + 1
      BY <1>1, <3>1
    <3> QED  BY <2>1, <2>2, <3>2 DEF SeenBefore
  <2>3. CASE e.ppid \notin DOMAIN processes
    <3>1. e.ppid # e.pid
      BY DEF Event
    <3>2. FirstEventOf(e.ppid)' = {}
      BY <1>5, <2>3, <3>1
    <3> QED  BY <2>3, <3>2 DEF SeenBefore
  <2> QED  BY <2>2, <2>3
<1> QED  BY <1>6, <1>7

LEMMA SpawnedGrows ==
  ASSUME TypeOK, SpawnInv, NEW e \in Event, AddEvent(e)
  PROVE  Spawned' = Spawned \cup LinksOf(SpawnEdge(e), "spawns")
<1>1. processes' = [p \in DOMAIN processes \cup {e.pid} |->
                      IF p \in DOMAIN processes THEN processes[p] ELSE e.ppid]
  BY DEF AddEvent, ProcessesWith
<1> DEFINE Linked == {c \in DOMAIN processes : SeenBefore(processes[c], c)}
<1>2. \A c \in DOMAIN processes : processes'[c] = processes[c]
  BY <1>1
<1>3. \A c \in DOMAIN processes : SeenBefore(processes[c], c)' <=> SeenBefore(processes[c], c)
  BY <1>2, SeenNew DEF SeenBefore, FirstEventOf
<1>4. CASE e.pid \in DOMAIN processes
  <2>1. DOMAIN processes' = DOMAIN processes
    BY <1>1, <1>4
  <2>2. Linked' = Linked
    BY <1>3, <2>1
  <2>3. Spawned' = Spawned
    BY <1>2, <2>2 DEF Spawned, ProcId
  <2>4. LinksOf(SpawnEdge(e), "spawns") = {}
    BY <1>4, LinksOfNone DEF SpawnEdge
  <2> QED  BY <2>3, <2>4
<1>5. CASE e.pid \notin DOMAIN processes
  <2>1. /\ DOMAIN processes' = DOMAIN processes \cup {e.pid}
        /\ processes'[e.pid] = e.ppid
    BY <1>1, <1>5
  <2>2. SeenBefore(processes[e.pid], e.pid)' <=> e.ppid \in DOMAIN processes
    BY <1>5, <2>1, SeenNew DEF SeenBefore, FirstEventOf
  <2>3. Linked' = Linked \cup (IF e.ppid \in DOMAIN processes THEN {e.pid} ELSE {})
    BY <1>3, <2>1, <2>2
  <2>4. Spawned' = Spawned \cup (IF e.ppid \in DOMAIN processes
                                 THEN {<<ProcId(e.ppid), ProcId(e.pid)>>} ELSE {})
    BY <1>2, <2>1, <2>3 DEF Spawned, ProcId
  <2>5. e.ppid \in DOMAIN processes => e.ppid # 0
    BY GraphAssumption DEF TypeOK
  <2>6. e.ppid # e.pid
    BY DEF Event
  <2>7. LinksOf(SpawnEdge(e), "spawns") =
          IF e.ppid \in DOMAIN processes THEN {<<ProcId(e.ppid), ProcId(e.pid)>>} ELSE {}
    BY <1>5, <2>5, <2>6, LinksOfOne, LinksOfNone DEF SpawnEdge
  <2> QED  BY <2>4, <2>7
<1> QED  BY <1>4, <1>5

(* A "spawns" edge leads to a process exactly when its parent had been seen *)
(* strictly earlier, for any number of processes and events.                *)
THEOREM Parenting == Spec => []SpawnsExact
<1>1. Init => SpawnInv
  BY DEF Init, SpawnInv, Links, Spawned
<1>2. TypeOK /\ SpawnInv /\ [Next]_graphVars => SpawnInv'
  <2>1. ASSUME TypeOK, SpawnInv, NEW e \in Event, AddEvent(e)
        PROVE  SpawnInv'
    <3>1. DOMAIN processes' = DOMAIN processes \cup {e.pid}
      BY <2>1 DEF AddEvent, ProcessesWith
    <3>2. \A i \in DOMAIN events' : events'[i].pid \in DOMAIN processes'
      <4> TAKE i \in DOMAIN events'
      <4>1. \/ i \in DOMAIN events /\ events'[i] = events[i]
            \/ events'[i].pid = e.pid
        BY <2>1, EventsGrow
      <4> QED  BY <2>1, <3>1, <4>1 DEF SpawnInv
    <3>3. \A p \in DOMAIN processes' : \E i \in FirstEventOf(p)' : TRUE
      BY <2>1, <3>1, FirstNew DEF SpawnInv
    <3>4. /\ LinksOf(InvokeEdge(e), "spawns") = {}
          /\ LinksOf(SequenceEdge(e), "spawns") = {}
      BY LinksOfOne, LinksOfNone DEF InvokeEdge, SequenceEdge
    <3>5. Links("spawns")' = Links("spawns") \cup LinksOf(SpawnEdge(e), "spawns")
      BY <2>1, <3>4, LinksGrow
    <3>6. Links("spawns")' = Spawned'
      BY <2>1, <3>5, SpawnedGrows DEF SpawnInv
    <3> QED  BY <3>2, <3>3, <3>6 DEF SpawnInv
  <2>2. ASSUME SpawnInv, UNCHANGED graphVars PROVE SpawnInv'
    <3>1. /\ \A p : FirstEventOf(p)' = FirstEventOf(p)
          /\ \A r : Links(r)' = Links(r)
          /\ \A p, q : SeenBefore(p, q)' <=> SeenBefore(p, q)
      BY <2>2 DEF graphVars, FirstEventOf, Links, SeenBefore
    <3>2. Spawned' = Spawned
      BY <2>2, <3>1 DEF graphVars, Spawned, ProcId
    <3> QED  BY <2>2, <3>1, <3>2 DEF SpawnInv, graphVars
  <2> QED  BY <2>1, <2>2 DEF Next
<1>3. SpawnInv => SpawnsExact
  BY DEF SpawnInv, Spawned, SpawnsExact
<1> QED  BY <1>1, <1>2, <1>3, Typing, PTL DEF Spec

-----------------------------------------------------------------------------
SpawnEdges == {k \in DOMAIN edges : edges[k].relation = "spawns"}

(* The numbers grow together: an event of a new process adds a node, an     *)
(* "invokes" edge and perhaps a "spawns" edge, which no other edge repeats; *)
(* one of a known process an "invokes" and a "sequences" edge.              *)
CountInv ==
  /\ DOMAIN lastEventByPid = DOMAIN processes
  /\ IsFiniteSet(DOMAIN processes) /\ IsFiniteSet(SpawnEdges) /\ IsFiniteSet(Links("spawns"))
  /\ Cardinality(SpawnEdges) = Cardinality(Links("spawns"))
  /\ Len(edges) = 2 * Len(events) - Cardinality(DOMAIN processes) + Cardinality(SpawnEdges)
  /\ Cardinality(SpawnEdges) <=
       IF DOMAIN processes = {} THEN 0 ELSE Cardinality(DOMAIN processes) - 1

\* The edges an event adds: one of each kind or none, "spawns" first.
LEMMA EdgesGrow ==
  ASSUME TypeOK, NEW e \in Event, AddEvent(e)
  PROVE  LET known == e.pid \in DOMAIN lastEventByPid
         IN  \/ /\ SpawnEdge(e) = <<>>
                /\ SpawnEdges' = SpawnEdges
                /\ Len(edges') = Len(edges) + IF known THEN 2 ELSE 1
             \/ /\ SpawnEdge(e) = <<Edge(ProcId(e.ppid), ProcId(e.pid), "spawns")>>
                /\ SpawnEdges' = SpawnEdges \cup {Len(edges) + 1}
                /\ Len(edges') = Len(edges) + IF known THEN 3 ELSE 2
<1> DEFINE a == SpawnEdge(e)
           b == InvokeEdge(e)
           c == SequenceEdge(e)
           n == Len(edges)
<1>1. /\ edges \in Seq(TypedEdge) /\ a \in Seq(TypedEdge)
      /\ b \in Seq(TypedEdge) /\ c \in Seq(TypedEdge)
  BY NewEdgesType DEF TypeOK, TypedEdge
<1>2. edges' = edges \o ((a \o b) \o c)
  BY DEF AddEvent, NewEdges
<1>3. /\ Len(b) = 1 /\ b[1].relation = "invokes"
  BY DEF InvokeEdge, Edge
<1>4. /\ Len(c) = IF e.pid \in DOMAIN lastEventByPid THEN 1 ELSE 0
      /\ Len(c) = 1 => c[1].relation = "sequences"
  BY DEF SequenceEdge, Edge
<1>5. \/ a = <<>> /\ Len(a) = 0
      \/ /\ a = <<Edge(ProcId(e.ppid), ProcId(e.pid), "spawns")>> /\ Len(a) = 1
         /\ a[1].relation = "spawns"
  BY DEF SpawnEdge, Edge
<1> HIDE DEF a, b, c, n
<1>6. /\ a \o b \in Seq(TypedEdge) /\ Len(a \o b) = Len(a) + Len(b)
      /\ \A k \in 1 .. Len(a) + Len(b) : (a \o b)[k] = IF k <= Len(a) THEN a[k] ELSE b[k - Len(a)]
  BY <1>1, ConcatProperties
<1> DEFINE d == (a \o b) \o c
           m == Len(a) + Len(b) + Len(c)
<1>7. /\ d \in Seq(TypedEdge) /\ Len(d) = m
      /\ \A k \in 1 .. m : d[k] = IF k <= Len(a) + Len(b) THEN (a \o b)[k] ELSE c[k - (Len(a) + Len(b))]
  BY <1>1, <1>6, ConcatProperties
<1>8. \A k \in 1 .. m : d[k].relation = "spawns" <=> Len(a) = 1 /\ k = 1
  <2> SUFFICES ASSUME NEW k \in 1 .. m
               PROVE  d[k].relation = "spawns" <=> Len(a) = 1 /\ k = 1
    OBVIOUS
  <2>1. Len(a) \in {0, 1} /\ Len(c) \in {0, 1} /\ Len(b) = 1
    BY <1>3, <1>4, <1>5
  <2>5. k \in Int /\ 1 <= k /\ k <= Len(a) + Len(b) + Len(c)
    BY <2>1
  <2>2. CASE k <= Len(a)
    BY <1>5, <1>6, <1>7, <2>1, <2>2
  <2>3. CASE k > Len(a) /\ k <= Len(a) + Len(b)
    <3>1. k - Len(a) = 1
      BY <2>1, <2>3
    <3>2. d[k] = b[1]
      BY <1>6, <1>7, <2>1, <2>3, <3>1
    <3> QED  BY <1>3, <2>1, <2>3, <3>2
  <2>4. CASE k > Len(a) + Len(b)
    <3>1. k - (Len(a) + Len(b)) = 1 /\ Len(c) = 1
      <4>1. ASSUME NEW x \in {0, 1}, NEW y \in {0, 1}, NEW i \in Int, i > x + 1, i <= x + 1 + y
            PROVE  i - (x + 1) = 1 /\ y = 1
        BY <4>1
      <4> QED  BY <2>1, <2>4, <2>5, <4>1
    <3>2. d[k] = c[1]
      BY <1>7, <2>1, <2>4, <3>1
    <3> QED  BY <1>4, <2>1, <2>4, <3>1, <3>2
  <2> HIDE DEF m
  <2>6. k <= Len(a) \/ (k > Len(a) /\ k <= Len(a) + Len(b)) \/ k > Len(a) + Len(b)
    BY <2>1, <2>5
  <2> QED  BY <2>2, <2>3, <2>4, <2>6
<1>9. /\ Len(edges') = n + m /\ n \in Nat /\ m \in Nat
      /\ DOMAIN edges = 1 .. n /\ DOMAIN edges' = 1 .. n + m
      /\ \A k \in 1 .. n + m : edges'[k] = IF k <= n THEN edges[k] ELSE d[k - n]
  <2> HIDE DEF d
  <2>1. edges' \in Seq(TypedEdge) /\ edges' = edges \o d
    BY <1>1, <1>2, <1>7, ConcatProperties DEF d
  <2>2. Len(edges) = n
    BY DEF n
  <2> HIDE DEF m
  <2>3. Len(d) = m /\ d \in Seq(TypedEdge) /\ m \in Nat /\ n \in Nat
    BY <1>1, <1>7, <2>2, LenProperties
  <2>4. /\ Len(edges \o d) = n + m
        /\ \A k \in 1 .. n + m : (edges \o d)[k] = IF k <= n THEN edges[k] ELSE d[k - n]
    BY <1>1, <2>2, <2>3, ConcatProperties
  <2>5. DOMAIN edges = 1 .. n /\ DOMAIN edges' = 1 .. n + m
    BY <1>1, <2>1, <2>2, <2>4, LenProperties
  <2> QED  BY <2>1, <2>3, <2>4, <2>5
<1> HIDE DEF d
<1>10. Len(a) \in {0, 1} /\ Len(c) \in {0, 1} /\ Len(b) = 1 /\ m = Len(a) + 1 + Len(c)
  BY <1>3, <1>4, <1>5
<1>11. \A k \in 1 .. n + m : k \in SpawnEdges' <=> k \in SpawnEdges \/ (Len(a) = 1 /\ k = n + 1)
  <2> SUFFICES ASSUME NEW k \in 1 .. n + m
               PROVE  k \in SpawnEdges' <=> k \in SpawnEdges \/ (Len(a) = 1 /\ k = n + 1)
    OBVIOUS
  <2>1. CASE k <= n
    BY <1>9, <2>1 DEF SpawnEdges
  <2>2. CASE k > n
    <3>1. k - n \in 1 .. m /\ edges'[k] = d[k - n] /\ (k - n = 1 <=> k = n + 1)
      BY <1>9, <2>2
    <3>2. k \notin SpawnEdges
      BY <1>9, <2>2 DEF SpawnEdges
    <3> QED  BY <1>8, <1>9, <3>1, <3>2 DEF SpawnEdges
  <2> QED  BY <1>9, <2>1, <2>2
<1>12. SpawnEdges \subseteq 1 .. n /\ SpawnEdges' \subseteq 1 .. n + m
  BY <1>9 DEF SpawnEdges
<1>13. SpawnEdges' = IF Len(a) = 1 THEN SpawnEdges \cup {n + 1} ELSE SpawnEdges
  <2> HIDE DEF m
  <2>1. SpawnEdges \subseteq 1 .. n + m /\ n + 1 \in 1 .. n + m
    BY <1>9, <1>10, <1>12
  <2>2. CASE Len(a) = 1
    BY <1>11, <1>12, <2>1, <2>2
  <2>3. CASE Len(a) # 1
    BY <1>11, <1>12, <2>1, <2>3
  <2> QED  BY <2>2, <2>3
<1>14. CASE Len(a) = 1
  BY <1>4, <1>5, <1>9, <1>10, <1>13, <1>14 DEF a, n
<1>15. CASE Len(a) = 0
  BY <1>4, <1>5, <1>9, <1>10, <1>13, <1>15 DEF a, n
<1> QED  BY <1>10, <1>14, <1>15

LEMMA CountHolds == Spec => []CountInv
<1>1. Init => CountInv
  <2> SUFFICES ASSUME Init PROVE CountInv
    OBVIOUS
  <2>1. DOMAIN processes = {} /\ SpawnEdges = {} /\ Links("spawns") = {}
    BY DEF Init, SpawnEdges, Links
  <2>2. Len(edges) = 0 /\ Len(events) = 0 /\ DOMAIN lastEventByPid = {}
    BY DEF Init
  <2>3. IsFiniteSet({}) /\ Cardinality({}) = 0
    BY FS_EmptySet
  <2>4. DOMAIN lastEventByPid = DOMAIN processes /\ IsFiniteSet(DOMAIN processes)
    BY <2>1, <2>2, <2>3
  <2>5. /\ IsFiniteSet(SpawnEdges) /\ IsFiniteSet(Links("spawns"))
        /\ Cardinality(SpawnEdges) = Cardinality(Links("spawns"))
    BY <2>1, <2>3
  <2>6. /\ Cardinality(DOMAIN processes) = 0 /\ Cardinality(SpawnEdges) = 0
        /\ Len(edges) = 2 * Len(events) - Cardinality(DOMAIN processes) + Cardinality(SpawnEdges)
        /\ Cardinality(SpawnEdges) <= IF DOMAIN processes = {} THEN 0
                                     ELSE Cardinality(DOMAIN processes) - 1
    BY <2>1, <2>2, <2>3
  <2> QED  BY <2>1, <2>2, <2>4, <2>5, <2>6 DEF CountInv
<1>2. TypeOK /\ SpawnsExact /\ CountInv /\ [Next]_graphVars => CountInv'
  <2>1. ASSUME TypeOK, SpawnsExact, CountInv, NEW e \in Event, AddEvent(e)
        PROVE  CountInv'
    <3> DEFINE P == DOMAIN processes
               S == SpawnEdges
               L == Links("spawns")
               p == e.pid
               link == <<ProcId(e.ppid), ProcId(p)>>
    <3>1. DOMAIN processes' = P \cup {p} /\ DOMAIN lastEventByPid' = P \cup {p}
      BY <2>1 DEF AddEvent, ProcessesWith, CountInv
    <3>2. /\ Len(events) \in Nat /\ Len(events') = Len(events) + 1
          /\ Len(edges) \in Nat
      <4>1. events' = Append(events, [seq |-> seq, type |-> e.type, pid |-> p])
        BY <2>1 DEF AddEvent
      <4>2. [seq |-> seq, type |-> e.type, pid |-> p] \in [seq : 0 .. SeqLimit - 1, type : Type, pid : Pid]
        BY <2>1 DEF Event, TypeOK
      <4> QED  BY <2>1, <4>1, <4>2, AppendProperties, LenProperties DEF TypeOK
    <3>3. /\ IsFiniteSet(P \cup {p})
          /\ Cardinality(P) \in Nat
          /\ Cardinality(P \cup {p}) = IF p \in P THEN Cardinality(P) ELSE Cardinality(P) + 1
      BY <2>1, FS_AddElement, FS_CardinalityType DEF CountInv
    <3>4. Links("spawns")' = L \cup LinksOf(SpawnEdge(e), "spawns")
      <4>1. /\ LinksOf(InvokeEdge(e), "spawns") = {}
            /\ LinksOf(SequenceEdge(e), "spawns") = {}
        BY LinksOfOne, LinksOfNone DEF InvokeEdge, SequenceEdge
      <4> QED  BY <2>1, <4>1, LinksGrow
    <3>5. /\ Cardinality(S) \in Nat /\ Cardinality(S) = Cardinality(L) /\ IsFiniteSet(S) /\ IsFiniteSet(L)
          /\ Len(edges) = 2 * Len(events) - Cardinality(P) + Cardinality(S)
          /\ Cardinality(S) <= IF P = {} THEN 0 ELSE Cardinality(P) - 1
          /\ DOMAIN lastEventByPid = P /\ IsFiniteSet(P)
      BY <2>1, FS_CardinalityType DEF CountInv
    <3>6. P \cup {p} # {} /\ (P = {} <=> Cardinality(P) = 0)
      BY <3>5, FS_EmptySet
    <3>7. CASE SpawnEdge(e) = <<>>
      <4>1. /\ SpawnEdges' = S
            /\ Len(edges') = Len(edges) + IF p \in P THEN 2 ELSE 1
        <5>1. SpawnEdge(e) # <<Edge(ProcId(e.ppid), ProcId(e.pid), "spawns")>>
          BY <3>7
        <5> QED  BY <2>1, <3>5, <5>1, EdgesGrow
      <4>2. Links("spawns")' = L
        BY <3>4, <3>7, LinksOfNone
      <4> HIDE DEF P, S, L, p
      <4>3. Len(edges') = 2 * Len(events') - Cardinality(P \cup {p}) + Cardinality(S)
        BY <3>2, <3>3, <3>5, <4>1
      <4>4. Cardinality(S) <= IF P \cup {p} = {} THEN 0 ELSE Cardinality(P \cup {p}) - 1
        BY <3>3, <3>5, <3>6
      <4> QED  BY <3>1, <3>3, <3>5, <4>1, <4>2, <4>3, <4>4 DEF CountInv
    <3>8. CASE SpawnEdge(e) # <<>>
      <4>1. /\ SpawnEdges' = S \cup {Len(edges) + 1}
            /\ SpawnEdge(e) = <<Edge(ProcId(e.ppid), ProcId(p), "spawns")>>
            /\ Len(edges') = Len(edges) + IF p \in P THEN 3 ELSE 2
        BY <2>1, <3>5, <3>8, EdgesGrow
      <4>2. p \notin P /\ e.ppid \in P
        BY <3>8 DEF SpawnEdge, Event
      <4>3. Links("spawns")' = L \cup {link}
        BY <3>4, <4>1, LinksOfOne
      <4>4. link \notin L
        <5>1. \A x \in L : \E q \in P : x[2] = ProcId(q)
          BY <2>1 DEF SpawnsExact
        <5>2. link[2] = ProcId(p) /\ \A q \in P : ProcId(q) # ProcId(p)
          BY <4>2 DEF ProcId
        <5> QED  BY <5>1, <5>2
      <4>5. Len(edges) + 1 \notin S
        <5>1. DOMAIN edges = 1 .. Len(edges)
          BY <2>1, LenProperties DEF TypeOK
        <5> QED  BY <3>2, <5>1 DEF SpawnEdges
      <4>6. /\ IsFiniteSet(L \cup {link}) /\ Cardinality(L \cup {link}) = Cardinality(L) + 1
            /\ IsFiniteSet(S \cup {Len(edges) + 1})
            /\ Cardinality(S \cup {Len(edges) + 1}) = Cardinality(S) + 1
        BY <3>5, <4>4, <4>5, FS_AddElement
      <4>7. P # {}
        BY <4>2
      <4> HIDE DEF P, S, L, p, link
      <4>8. Len(edges') = 2 * Len(events') - Cardinality(P \cup {p}) + Cardinality(S \cup {Len(edges) + 1})
        BY <3>2, <3>3, <3>5, <4>1, <4>2, <4>6
      <4>9. Cardinality(S \cup {Len(edges) + 1})
              <= IF P \cup {p} = {} THEN 0 ELSE Cardinality(P \cup {p}) - 1
        BY <3>3, <3>5, <3>6, <4>2, <4>6, <4>7
      <4> QED  BY <3>1, <3>3, <3>5, <4>1, <4>3, <4>6, <4>8, <4>9 DEF CountInv
    <3> QED  BY <3>7, <3>8
  <2>2. ASSUME CountInv, UNCHANGED graphVars PROVE CountInv'
    <3>1. SpawnEdges' = SpawnEdges /\ Links("spawns")' = Links("spawns")
      BY <2>2 DEF graphVars, SpawnEdges, Links
    <3> QED  BY <2>2, <3>1 DEF CountInv, graphVars
  <2> QED  BY <2>1, <2>2 DEF Next
<1> QED  BY <1>1, <1>2, Typing, Parenting, PTL DEF Spec

(* The counts of the exit log are tied together (add_event): one "invokes"  *)
(* edge per event, one "sequences" edge per event that is not the first of  *)
(* its process, and at most one "spawns" edge per process but the first.    *)
THEOREM Counting == Spec => [](EdgeCount /\ Cardinality(SpawnEdges) = Cardinality(Links("spawns")))
<1>1. TypeOK /\ CountInv => EdgeCount /\ Cardinality(SpawnEdges) = Cardinality(Links("spawns"))
  <2> SUFFICES ASSUME TypeOK, CountInv PROVE EdgeCount
    BY DEF CountInv
  <2>1. /\ Cardinality(SpawnEdges) \in Nat /\ Cardinality(DOMAIN processes) \in Nat
        /\ Len(events) \in Nat /\ Len(edges) \in Nat
    BY FS_CardinalityType, LenProperties DEF CountInv, TypeOK
  <2>2. Len(edges) - (2 * Len(events) - Cardinality(DOMAIN processes)) = Cardinality(SpawnEdges)
    BY <2>1 DEF CountInv
  <2> QED  BY <2>1, <2>2 DEF CountInv, EdgeCount, SpawnEdges
<1> QED  BY <1>1, Typing, CountHolds, PTL

-----------------------------------------------------------------------------
(* Until seq_ wraps, the number of an event is its place in the graph: no   *)
(* number is used twice, and seq_ is how many there are.                    *)
Numbered ==
  /\ Len(events) < SeqLimit => seq = Len(events)
  /\ Len(events) <= SeqLimit => \A i \in DOMAIN events : events[i].seq = i - 1

\* The arithmetic of one event more.
LEMMA NextNumber ==
  ASSUME NEW n \in Nat, n < SeqLimit
  PROVE  n + 1 < SeqLimit => (n + 1) % SeqLimit = n + 1
BY GraphAssumption

(* Event ids are unique, as long as there are no more events than numbers.  *)
THEOREM Numbering == Spec => []Numbered
<1>1. Init => Numbered
  BY DEF Init, Numbered
<1>2. TypeOK /\ Numbered /\ [Next]_graphVars => Numbered'
  <2>1. ASSUME TypeOK, Numbered, NEW e \in Event, AddEvent(e)
        PROVE  Numbered'
    <3> DEFINE n == Len(events)
    <3>1. /\ n \in Nat /\ Len(events') = n + 1
          /\ DOMAIN events' = 1 .. n + 1 /\ DOMAIN events = 1 .. n
          /\ \A i \in 1 .. n : events'[i] = events[i]
          /\ events'[n + 1].seq = seq
      <4> DEFINE new == [seq |-> seq, type |-> e.type, pid |-> e.pid]
      <4>1. events' = Append(events, new) /\ new.seq = seq
        BY <2>1 DEF AddEvent
      <4>2. new \in [seq : 0 .. SeqLimit - 1, type : Type, pid : Pid]
        BY <2>1 DEF Event, TypeOK
      <4> HIDE DEF new
      <4> QED  BY <2>1, <4>1, <4>2, AppendProperties, LenProperties DEF TypeOK
    <3>2. seq' = (seq + 1) % SeqLimit
      BY <2>1 DEF AddEvent, NextSeq
    <3>3. ASSUME n + 1 <= SeqLimit
          PROVE  \A i \in DOMAIN events' : events'[i].seq = i - 1
      <4>1. seq = n /\ \A i \in 1 .. n : events[i].seq = i - 1
        BY <2>1, <3>1, <3>3, GraphAssumption DEF Numbered
      <4> HIDE DEF n
      <4> QED  BY <3>1, <4>1
    <3>4. ASSUME n + 1 < SeqLimit PROVE seq' = n + 1
      <4>1. seq = n
        BY <2>1, <3>1, <3>4, GraphAssumption DEF Numbered
      <4>2. n < SeqLimit
        BY <3>1, <3>4, GraphAssumption
      <4> HIDE DEF n
      <4> QED  BY <3>1, <3>2, <3>4, <4>1, <4>2, NextNumber
    <3> QED  BY <3>1, <3>3, <3>4 DEF Numbered
  <2>2. ASSUME Numbered, UNCHANGED graphVars PROVE Numbered'
    BY <2>2 DEF Numbered, graphVars
  <2> QED  BY <2>1, <2>2 DEF Next
<1> QED  BY <1>1, <1>2, Typing, PTL DEF Spec
=============================================================================
