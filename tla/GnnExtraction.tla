--------------------------- MODULE GnnExtraction ----------------------------
(***************************************************************************)
(* SyscallGraph::to_gnn_inputs and cli.cpp's buildGnnRequestBody: how the  *)
(* graph becomes the tensors of a /predict/gat request.                    *)
(*                                                                         *)
(* Both loops over the unordered_map of processes run over the same map in *)
(* the same order, but that order is the library's: every operator takes   *)
(* it as a parameter and the properties quantify over all orders.          *)
(*                                                                         *)
(* Abstracted: a feature row is the process it describes, or the set of    *)
(* event types whose bits are set in it, instead of its 20 floats; "blank" *)
(* is a row left at zero.                                                  *)
(***************************************************************************)
EXTENDS SyscallGraph, SequencesExt

IterationOrders == SetToSeqs(DOMAIN processes)

NumProcesses == Cardinality(DOMAIN processes)
NumNodes     == NumProcesses + Len(events)

\* id_to_idx: process nodes first, then event nodes; when two event nodes have
\* the same id (seq_ wrapped) the later assignment overwrites the earlier one.
\* (Mutant: event indices that start at 0 again.)
IdToIdxOverlap(order) ==
  [id \in Nodes |->
     IF id[1] = "proc"
     THEN (CHOOSE i \in DOMAIN order : order[i] = id[2]) - 1
     ELSE Max({i \in DOMAIN events : events[i].seq = id[2]}) - 1]

IdToIdx(order) ==
  [id \in Nodes |->
     IF id[1] = "proc"
     THEN (CHOOSE i \in DOMAIN order : order[i] = id[2]) - 1
     ELSE NumProcesses - 1 + Max({i \in DOMAIN events : events[i].seq = id[2]})]

\* x: the rows are filled through id_to_idx, so a row nothing maps to stays blank.
\* Events that share a row overwrite its arguments, but each sets the bit of its
\* type and clears none.
FeatureRows(order) ==
  LET idx == IdToIdx(order)
      writers(r) == {i \in DOMAIN events : idx[EventId(events[i].seq)] = r}
  IN  [r \in 0 .. NumNodes - 1 |->
         IF r < NumProcesses THEN ProcId(order[r + 1])
         ELSE IF writers(r) # {} THEN <<"ev", {events[i].type : i \in writers(r)}>>
         ELSE <<"blank">>]

\* The edges whose two endpoints are in the map; the loop drops the others.
LiveEdges(idx) ==
  LET live[k \in 0 .. Len(edges)] ==
        IF k = 0 THEN <<>>
        ELSE IF edges[k].src \in DOMAIN idx /\ edges[k].dst \in DOMAIN idx
             THEN Append(live[k - 1], edges[k])
        ELSE live[k - 1]
  IN  live[Len(edges)]

\* edge_index: all their sources, then all their targets.
GnnInputs(order) ==
  LET idx  == IdToIdx(order)
      live == LiveEdges(idx)
  IN  [x          |-> FeatureRows(order),
       edge_index |-> [k \in DOMAIN live |-> idx[live[k].src]]
                        \o [k \in DOMAIN live |-> idx[live[k].dst]],
       batch      |-> [n \in 1 .. NumNodes |-> 0],
       num_nodes  |-> NumNodes,
       num_edges  |-> Len(live)]

\* buildGnnRequestBody cuts edge_index in the middle, into the two lists of
\* the request.
\* (Mutant: the tensor read as source, target, source, target.)
GnnRequestPairs(inputs) ==
  [x          |-> inputs.x,
   edge_index |-> [k \in 1 .. Len(inputs.edge_index) \div 2 |->
                     <<inputs.edge_index[2 * k - 1], inputs.edge_index[2 * k]>>],
   batch      |-> inputs.batch]

GnnRequest(inputs) ==
  LET numEdges == Len(inputs.edge_index) \div 2
  IN  [x          |-> inputs.x,
       edge_index |-> [k \in 1 .. numEdges |->
                         <<inputs.edge_index[k], inputs.edge_index[numEdges + k]>>],
       batch      |-> inputs.batch]

=============================================================================
