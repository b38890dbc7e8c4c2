---------------------------- MODULE GraphExport -----------------------------
(***************************************************************************)
(* The other readers of the graph: SyscallGraph::to_json, the exported     *)
(* file; SyscallGraph::summary, for the exit log; and GnnModel::forward    *)
(* (utils/gnn_model.cpp), which runs a local model on the same tensors as  *)
(* the request to the API is made from.                                    *)
(*                                                                         *)
(* Abstracted: the layout of the JSON text and its header; a type is its   *)
(* name; types of equal frequency, which summary sorts by name, come in    *)
(* any order (Rankings has them all).                                      *)
(***************************************************************************)
EXTENDS GnnExtraction

CONSTANT TopCount   \* the names summary lists: 5

ASSUME ExportAssumption == TopCount \in Nat

-----------------------------------------------------------------------------
\* to_json, whose first loop runs over the process map like those of
\* to_gnn_inputs.
\* (Mutant: events are listed before processes.)
JsonNodesEventsFirst(order) ==
  [k \in DOMAIN events |-> [id |-> EventId(events[k].seq), name |-> events[k].type]]
    \o [k \in DOMAIN order |-> [id |-> ProcId(order[k]), ppid |-> processes[order[k]]]]

JsonNodes(order) ==
  [k \in DOMAIN order |-> [id |-> ProcId(order[k]), ppid |-> processes[order[k]]]]
    \o [k \in DOMAIN events |-> [id |-> EventId(events[k].seq), name |-> events[k].type]]

JsonLinks == [k \in DOMAIN edges |-> [source |-> edges[k].src, target |-> edges[k].dst]]

-----------------------------------------------------------------------------
\* summary: how often each type occurred, counted in a uint32_t like seq_, and
\* the types by their counts, the most frequent first.
Occurrences(type) == {k \in DOMAIN events : events[k].type = type}

Count(type) == Cardinality(Occurrences(type)) % SeqLimit

Names == {events[k].type : k \in DOMAIN events}

\* (Mutant: the least frequent first.)
RankingsRising ==
  {s \in SetToSeqs(Names) : \A i, j \in DOMAIN s : i < j => Count(s[i]) <= Count(s[j])}

Rankings ==
  {s \in SetToSeqs(Names) : \A i, j \in DOMAIN s : i < j => Count(s[i]) >= Count(s[j])}

Summary(ranking) ==
  [total_events    |-> Len(events),
   total_processes |-> Cardinality(DOMAIN processes),
   total_edges     |-> Len(edges),
   top_syscalls    |-> [k \in 1 .. Min({TopCount, Len(ranking)}) |->
                          [type |-> ranking[k], count |-> Count(ranking[k])]]]

-----------------------------------------------------------------------------
\* GnnModel::forward gives the runtime a tensor of two rows; an empty graph has
\* none.  Column k of it is one edge.
NoTensors == <<>>

ForwardTensors(inputs) ==
  IF inputs.num_nodes = 0 THEN NoTensors
  ELSE [x          |-> inputs.x,
        edge_index |-> [k \in 1 .. inputs.num_edges |->
                          <<inputs.edge_index[k], inputs.edge_index[inputs.num_edges + k]>>],
        batch      |-> inputs.batch]

-----------------------------------------------------------------------------
(* Every reader sees the same graph.  The request carries every edge, in    *)
(* order, and each end of it is the index of a row; node and link number k  *)
(* of the exported file are row and edge number k of the request, and the   *)
(* local model is given what the API is given.  This holds for every        *)
(* iteration order of the process map and does not stop holding when seq_   *)
(* wraps: no index ever leaves the tensor.                                  *)
ReadersAgree ==
  \A order \in IterationOrders :
    LET inputs  == GnnInputs(order)
        request == GnnRequest(inputs)
        nodes   == JsonNodes(order)
    IN  /\ Len(request.edge_index) = Len(JsonLinks)
        /\ \A k \in DOMAIN JsonLinks :
             LET column == request.edge_index[k]
             IN  /\ column[1] \in DOMAIN request.x /\ column[2] \in DOMAIN request.x
                 /\ nodes[column[1] + 1].id = JsonLinks[k].source
                 /\ nodes[column[2] + 1].id = JsonLinks[k].target
        /\ ForwardTensors(inputs) \in {NoTensors, request}
        /\ ForwardTensors(inputs) = NoTensors => nodes = <<>>

(* Until the 2^32nd event every node has a row of its own that describes    *)
(* it: no row is left blank, no two nodes share one and none carries the    *)
(* bits of another's type.  After the wrap this is lost (events of a reused *)
(* number share a row), which is why the bound is part of the statement.    *)
RowsDescribeNodes ==
  Len(events) <= SeqLimit =>
    \A order \in IterationOrders :
      LET request == GnnRequest(GnnInputs(order))
          nodes   == JsonNodes(order)
      IN  /\ Len(request.batch) = Len(nodes)
          /\ DOMAIN request.x = 0 .. Len(nodes) - 1
          /\ \A r \in DOMAIN request.x :
               request.x[r] = IF r < NumProcesses THEN nodes[r + 1].id
                              ELSE <<"ev", {nodes[r + 1].name}>>

\* The counts of a list of names, added up.
Total(top) ==
  LET total[k \in 0 .. Len(top)] == IF k = 0 THEN 0 ELSE total[k - 1] + top[k].count
  IN  total[Len(top)]

(* The numbers of the exit log belong together: edges, events and processes *)
(* as EdgeCount says; the names it lists are different ones, and a name it  *)
(* leaves out, for which there was no room, has no higher count.  If none   *)
(* is left out the counts add up to the events, as long as no name occurred *)
(* 2^32 times.                                                              *)
SummaryAddsUp ==
  \A ranking \in Rankings :
    LET top    == Summary(ranking).top_syscalls
        listed == {top[k].type : k \in DOMAIN top}
    IN  /\ EdgeCount
        /\ Cardinality(listed) = Len(top)
        /\ \A name \in Names \ listed :
             Len(top) = TopCount /\ \A k \in DOMAIN top : Count(name) <= top[k].count
        /\ Names \subseteq listed /\ (\A name \in Names : Cardinality(Occurrences(name)) < SeqLimit)
             => Total(top) = Summary(ranking).total_events
=============================================================================
