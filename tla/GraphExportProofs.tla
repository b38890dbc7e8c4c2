------------------------- MODULE GraphExportProofs --------------------------
(***************************************************************************)
(* Theorems about the readers of the graph, for every set of pids and      *)
(* types, every width of seq_ and every iteration order of the process     *)
(* map: the request to the GNN API, the local model's tensors and the      *)
(* exported file describe the same nodes and edges, and no two nodes share *)
(* an index.                                                               *)
(***************************************************************************)
EXTENDS GraphExport, SyscallGraphProofs, WellFoundedInduction

\* Every nonempty set of numbers has a least one, and a bounded one a greatest.
LEMMA LeastNumber ==
  ASSUME NEW S \in SUBSET Nat, S # {}
  PROVE  \E n \in S : \A m \in S : n <= m
<1> DEFINE R == OpToRel(<, Nat)
<1>1. IsWellFoundedOn(R, Nat)
  BY NatLessThanWellFounded
<1>2. PICK n \in S : \A m \in S : ~(<<m, n>> \in R)
  BY <1>1, WFMin
<1>3. \A m \in S : ~(m < n)
  BY <1>2 DEF OpToRel
<1> QED  BY <1>3

LEMMA MaxIsGreatest ==
  ASSUME NEW n \in Nat, NEW S \in SUBSET (0 .. n), S # {}
  PROVE  Max(S) \in S /\ \A m \in S : m <= Max(S)
<1> DEFINE D == {n - m : m \in S}
<1>0. \A m \in S : m \in 0 .. n /\ n - m \in Nat
  OBVIOUS
<1>1. D \in SUBSET Nat /\ D # {}
  BY <1>0
<1>2. PICK d \in D : \A e \in D : d <= e
  BY <1>1, LeastNumber
<1>3. PICK m \in S : d = n - m
  OBVIOUS
<1>4. \A k \in S : m >= k
  <2> SUFFICES ASSUME NEW k \in S PROVE m >= k
    OBVIOUS
  <2>1. d <= n - k
    BY <1>2
  <2> QED  BY <1>3, <2>1
<1>5. Max(S) \in S /\ \A k \in S : Max(S) >= k
  BY <1>4 DEF Max
<1> QED  BY <1>5

\* Induction on the numbers, over the set of those that are shown.
LEMMA AllNumbers ==
  ASSUME NEW S, 0 \in S, \A n \in Nat : n \in S => n + 1 \in S
  PROVE  \A n \in Nat : n \in S
<1> SUFFICES ASSUME Nat \ S # {} PROVE FALSE
  OBVIOUS
<1>1. PICK n \in Nat \ S : \A m \in Nat \ S : n <= m
  BY LeastNumber
<1>2. n # 0 /\ n - 1 \in Nat
  BY <1>1
<1>3. n - 1 \in S
  BY <1>1, <1>2
<1> QED  BY <1>1, <1>2, <1>3

-----------------------------------------------------------------------------
\* A sequence from SetToSeqs visits every element of the set once.
LEMMA SeqsVisit ==
  ASSUME NEW P, IsFiniteSet(P), NEW s \in SetToSeqs(P)
  PROVE  /\ Cardinality(P) \in Nat /\ s \in [1 .. Cardinality(P) -> P]
         /\ \A i, j \in 1 .. Cardinality(P) : i # j => s[i] # s[j]
         /\ \A p \in P : \E k \in 1 .. Cardinality(P) : s[k] = p
<1> DEFINE D == 1 .. Cardinality(P)
<1>1. Cardinality(P) \in Nat
  BY FS_CardinalityType
<1>2. s \in [D -> P] /\ \A i, j \in D : i # j => s[i] # s[j]
  BY DEF SetToSeqs
<1>3. s \in Injection(D, P)
  BY <1>2 DEF Injection, IsInjective
<1>4. Cardinality(D) = Cardinality(P)
  BY <1>1, FS_Interval
<1>5. s \in Surjection(D, P)
  BY <1>3, <1>4, FS_Injection
<1>6. \A p \in P : \E k \in D : s[k] = p
  BY <1>5 DEF Surjection
<1> QED  BY <1>1, <1>2, <1>6

\* An iteration order visits every process once.
LEMMA OrderVisits ==
  ASSUME CountInv, NEW order \in IterationOrders
  PROVE  /\ NumProcesses \in Nat /\ order \in [1 .. NumProcesses -> DOMAIN processes]
         /\ \A p \in DOMAIN processes : \E k \in 1 .. NumProcesses : order[k] = p
BY SeqsVisit DEF CountInv, IterationOrders, NumProcesses

\* The exported nodes: a process for every place in the order, then the events.
LEMMA NodesAre ==
  ASSUME TypeOK, CountInv, NEW order \in IterationOrders
  PROVE  /\ NumNodes \in Nat /\ Len(events) \in Nat /\ NumNodes = NumProcesses + Len(events)
         /\ DOMAIN JsonNodes(order) = 1 .. NumNodes /\ Len(JsonNodes(order)) = NumNodes
         /\ (NumNodes = 0 => JsonNodes(order) = <<>>)
         /\ \A k \in 1 .. NumProcesses : JsonNodes(order)[k].id = ProcId(order[k])
         /\ \A k \in 1 .. Len(events) :
              /\ JsonNodes(order)[NumProcesses + k].id = EventId(events[k].seq)
              /\ JsonNodes(order)[NumProcesses + k].name = events[k].type
<1> DEFINE first  == [k \in DOMAIN order |-> [id |-> ProcId(order[k]), ppid |-> processes[order[k]]]]
           second == [k \in DOMAIN events |-> [id |-> EventId(events[k].seq), name |-> events[k].type]]
           n == Len(events)
           S == {first[k] : k \in DOMAIN order} \cup {second[k] : k \in DOMAIN events}
<1>1. NumProcesses \in Nat /\ n \in Nat /\ DOMAIN order = 1 .. NumProcesses /\ DOMAIN events = 1 .. n
  BY OrderVisits, LenProperties DEF TypeOK
<1>2. /\ \A k \in 1 .. NumProcesses : first[k].id = ProcId(order[k])
      /\ \A k \in 1 .. n : second[k].id = EventId(events[k].seq) /\ second[k].name = events[k].type
  BY <1>1
<1>3. first \in [1 .. NumProcesses -> S] /\ second \in [1 .. n -> S]
  BY <1>1
<1>4. JsonNodes(order) = first \o second
  BY DEF JsonNodes
<1> HIDE DEF first, second, n, S
<1>5. first \in Seq(S) /\ second \in Seq(S) /\ Len(first) = NumProcesses /\ Len(second) = n
  BY <1>1, <1>3
<1>6. /\ first \o second \in Seq(S) /\ Len(first \o second) = NumProcesses + n
      /\ \A i \in 1 .. NumProcesses + n :
           (first \o second)[i] = IF i <= NumProcesses THEN first[i] ELSE second[i - NumProcesses]
  BY <1>5, ConcatProperties
<1>7. \A k \in 1 .. NumProcesses : JsonNodes(order)[k].id = ProcId(order[k])
  <2> SUFFICES ASSUME NEW k \in 1 .. NumProcesses PROVE JsonNodes(order)[k] = first[k]
    BY <1>2
  <2> QED  BY <1>1, <1>4, <1>6
<1>8. \A k \in 1 .. n : /\ JsonNodes(order)[NumProcesses + k].id = EventId(events[k].seq)
                        /\ JsonNodes(order)[NumProcesses + k].name = events[k].type
  <2> SUFFICES ASSUME NEW k \in 1 .. n PROVE JsonNodes(order)[NumProcesses + k] = second[k]
    BY <1>2
  <2> DEFINE i == NumProcesses + k
  <2>1. i \in 1 .. NumProcesses + n /\ ~(i <= NumProcesses) /\ i - NumProcesses = k
    BY <1>1
  <2>2. NumProcesses + k = i
    OBVIOUS
  <2> HIDE DEF i
  <2>3. (first \o second)[i] = second[k]
    BY <1>6, <2>1
  <2> QED  BY <1>4, <2>2, <2>3
<1>9. NumNodes = NumProcesses + n /\ NumNodes \in Nat
  BY <1>1 DEF NumNodes, n
<1>10. DOMAIN JsonNodes(order) = 1 .. NumNodes /\ Len(JsonNodes(order)) = NumNodes
  BY <1>4, <1>6, <1>9, LenProperties
<1>11. NumNodes = 0 => JsonNodes(order) = <<>>
  BY <1>4, <1>6, <1>9, EmptySeq
<1> QED  BY <1>1, <1>7, <1>8, <1>9, <1>10, <1>11 DEF n

\* The index of a node is that of its row, and of its place in the exported file.
LEMMA IndexOfNode ==
  ASSUME TypeOK, CountInv, NEW order \in IterationOrders, NEW id \in Nodes
  PROVE  /\ id \in DOMAIN IdToIdx(order)
         /\ IdToIdx(order)[id] \in 0 .. NumNodes - 1
         /\ JsonNodes(order)[IdToIdx(order)[id] + 1].id = id
<1> DEFINE idx == IdToIdx(order)
<1>0. NumProcesses \in Nat /\ DOMAIN order = 1 .. NumProcesses
      /\ Len(events) \in Nat /\ DOMAIN events = 1 .. Len(events)
  BY OrderVisits, LenProperties DEF TypeOK
<1>1. CASE \E p \in DOMAIN processes : id = ProcId(p)
  <2>1. PICK p \in DOMAIN processes : id = ProcId(p)
    BY <1>1
  <2>2. id[1] = "proc" /\ id[2] = p
    BY <2>1 DEF ProcId
  <2> DEFINE k == CHOOSE i \in DOMAIN order : order[i] = p
  <2>3. k \in 1 .. NumProcesses /\ order[k] = p
    BY <1>0, OrderVisits
  <2>4. idx[id] = k - 1
    BY <2>2 DEF IdToIdx
  <2> HIDE DEF k, idx
  <2>5. idx[id] \in 0 .. NumNodes - 1 /\ idx[id] + 1 = k
    BY <1>0, <2>3, <2>4, NodesAre
  <2>6. JsonNodes(order)[k].id = id
    BY <2>1, <2>3, NodesAre
  <2> QED  BY <2>5, <2>6 DEF idx, IdToIdx
<1>2. CASE \E i \in DOMAIN events : id = EventId(events[i].seq)
  <2>1. PICK i \in DOMAIN events : id = EventId(events[i].seq)
    BY <1>2
  <2>2. id[1] # "proc" /\ id[2] = events[i].seq
    BY <2>1 DEF EventId
  <2> DEFINE same == {j \in DOMAIN events : events[j].seq = id[2]}
             k == Max(same)
  <2>3. k \in 1 .. Len(events) /\ events[k].seq = id[2]
    <3>1. same \in SUBSET (0 .. Len(events)) /\ i \in same
      BY <1>0, <2>2
    <3>2. k \in same
      BY <1>0, <3>1, MaxIsGreatest
    <3> QED  BY <1>0, <3>2
  <2>4. idx[id] = NumProcesses - 1 + k
    BY <2>2 DEF IdToIdx
  <2> HIDE DEF k, idx, same
  <2>5. idx[id] \in 0 .. NumNodes - 1 /\ idx[id] + 1 = NumProcesses + k
    BY <1>0, <2>3, <2>4, NodesAre
  <2>6. JsonNodes(order)[NumProcesses + k].id = EventId(events[k].seq)
    BY <2>3, NodesAre
  <2>7. EventId(events[k].seq) = id
    BY <2>1, <2>2, <2>3
  <2> QED  BY <2>5, <2>6, <2>7 DEF idx, IdToIdx
<1> QED  BY <1>1, <1>2 DEF Nodes

-----------------------------------------------------------------------------
\* What the loop over the edges has kept after edge k.
Kept(idx, live, k) ==
  IF k = 0 THEN <<>>
  ELSE IF edges[k].src \in DOMAIN idx /\ edges[k].dst \in DOMAIN idx
       THEN Append(live[k - 1], edges[k])
  ELSE live[k - 1]

\* An index of all nodes keeps every edge: the loop's "continue" is never taken.
LEMMA AllEdgesLive ==
  ASSUME TypeOK, EdgesJoinNodes, NEW idx, Nodes \subseteq DOMAIN idx
  PROVE  LiveEdges(idx) = edges
<1> DEFINE N == Len(edges)
           f == [k \in 0 .. N |-> [j \in 1 .. k |-> edges[j]]]
           live == CHOOSE g : g = [k \in 0 .. N |-> Kept(idx, g, k)]
           S == {edges[j] : j \in 1 .. N}
<1>0. N \in Nat /\ DOMAIN edges = 1 .. N /\ edges = [j \in 1 .. N |-> edges[j]]
  BY LenProperties DEF TypeOK
<1>1. \A k \in 1 .. N : edges[k].src \in DOMAIN idx /\ edges[k].dst \in DOMAIN idx
  BY <1>0 DEF EdgesJoinNodes
<1>2. \A k \in 1 .. N : Append([j \in 1 .. k - 1 |-> edges[j]], edges[k]) = [j \in 1 .. k |-> edges[j]]
  <2> SUFFICES ASSUME NEW k \in 1 .. N
               PROVE  Append([j \in 1 .. k - 1 |-> edges[j]], edges[k]) = [j \in 1 .. k |-> edges[j]]
    OBVIOUS
  <2> DEFINE a == [j \in 1 .. k - 1 |-> edges[j]]
             b == Append(a, edges[k])
  <2>1. k - 1 \in Nat /\ a \in [1 .. k - 1 -> S] /\ edges[k] \in S
    BY <1>0
  <2>2. a \in Seq(S) /\ Len(a) = k - 1
    <3> HIDE DEF a, S
    <3> QED  BY <2>1
  <2>3. \A j \in 1 .. k - 1 : a[j] = edges[j]
    OBVIOUS
  <2> HIDE DEF a, S
  <2>4. b \in Seq(S) /\ Len(b) = k /\ (\A j \in 1 .. k - 1 : b[j] = a[j]) /\ b[k] = edges[k]
    <3> HIDE DEF N
    <3> QED  BY <1>0, <2>1, <2>2, AppendProperties
  <2> HIDE DEF b
  <2>5. DOMAIN b = 1 .. k /\ b = [j \in DOMAIN b |-> b[j]]
    BY <1>0, <2>4, LenProperties
  <2>6. \A j \in 1 .. k : b[j] = edges[j]
    BY <1>0, <2>3, <2>4
  <2>7. b = [j \in 1 .. k |-> edges[j]]
    BY <2>5, <2>6
  <2> QED  BY <2>7 DEF a, b
<1>3. \A k \in 0 .. N : f[k] = Kept(idx, f, k)
  <2> SUFFICES ASSUME NEW k \in 0 .. N PROVE f[k] = Kept(idx, f, k)
    OBVIOUS
  <2>1. CASE k = 0
    BY <2>1 DEF Kept
  <2>2. CASE k # 0
    <3>1. k \in 1 .. N /\ k - 1 \in 0 .. N
      BY <1>0, <2>2
    <3>2. f[k] = [j \in 1 .. k |-> edges[j]] /\ f[k - 1] = [j \in 1 .. k - 1 |-> edges[j]]
      BY <3>1
    <3> HIDE DEF f
    <3> QED  BY <1>1, <1>2, <2>2, <3>1, <3>2 DEF Kept
  <2> QED  BY <2>1, <2>2
<1>4. f = [k \in 0 .. N |-> Kept(idx, f, k)]
  BY <1>3
<1>5. live = [k \in 0 .. N |-> Kept(idx, live, k)]
  <2> HIDE DEF f
  <2> QED  BY <1>4
<1>6. LiveEdges(idx) = live[N]
  BY DEF LiveEdges, Kept
<1> HIDE DEF live
<1>7. \A k \in Nat : k <= N => live[k] = f[k]
  <2> DEFINE T == {n \in Nat : n <= N => live[n] = f[n]}
  <2>1. 0 \in T
    <3>1. live[0] = Kept(idx, live, 0) /\ f[0] = Kept(idx, f, 0)
      <4> HIDE DEF f
      <4> QED  BY <1>0, <1>3, <1>5
    <3> HIDE DEF f
    <3> QED  BY <3>1 DEF Kept
  <2>2. ASSUME NEW n \in Nat, n \in T PROVE n + 1 \in T
    <3> SUFFICES ASSUME n + 1 <= N PROVE live[n + 1] = f[n + 1]
      OBVIOUS
    <3> DEFINE k == n + 1
    <3>1. k \in 0 .. N /\ k - 1 = n /\ k # 0 /\ n <= N
      BY <1>0
    <3>2. live[n] = f[n]
      BY <2>2, <3>1
    <3> HIDE DEF k, f
    <3>3. live[k] = Kept(idx, live, k) /\ f[k] = Kept(idx, f, k)
      BY <1>3, <1>5, <3>1
    <3>4. Kept(idx, live, k) = Kept(idx, f, k)
      BY <3>1, <3>2 DEF Kept
    <3> QED  BY <3>3, <3>4 DEF k
  <2> HIDE DEF T
  <2>3. \A n \in Nat : n \in T
    BY <2>1, <2>2, AllNumbers
  <2> HIDE DEF f, N
  <2> QED  BY <2>3, Zenon DEF T
<1>8. live[N] = f[N]
  <2> HIDE DEF f
  <2> QED  BY <1>0, <1>7
<1> QED  BY <1>0, <1>6, <1>8

-----------------------------------------------------------------------------
\* The tensors, and the two ways they are cut into columns.
LEMMA InputsAre ==
  ASSUME TypeOK, CountInv, EdgesJoinNodes, NEW order \in IterationOrders
  PROVE  LET inputs  == GnnInputs(order)
             request == GnnRequest(inputs)
             idx     == IdToIdx(order)
         IN  /\ request.x = FeatureRows(order) /\ request.batch = [n \in 1 .. NumNodes |-> 0]
             /\ DOMAIN request.edge_index = 1 .. Len(edges) /\ Len(request.edge_index) = Len(edges)
             /\ \A k \in 1 .. Len(edges) :
                  request.edge_index[k] = <<idx[edges[k].src], idx[edges[k].dst]>>
             /\ ForwardTensors(inputs) = IF NumNodes = 0 THEN NoTensors ELSE request
<1> DEFINE inputs  == GnnInputs(order)
           request == GnnRequest(inputs)
           idx     == IdToIdx(order)
           N       == Len(edges)
           src     == [k \in 1 .. N |-> idx[edges[k].src]]
           dst     == [k \in 1 .. N |-> idx[edges[k].dst]]
           S       == {src[k] : k \in 1 .. N} \cup {dst[k] : k \in 1 .. N}
           index   == src \o dst
<1>0. N \in Nat /\ DOMAIN edges = 1 .. N
  BY LenProperties DEF TypeOK
<1>1. LiveEdges(idx) = edges
  BY AllEdgesLive, IndexOfNode
<1>2. inputs = [x |-> FeatureRows(order), edge_index |-> index,
                batch |-> [n \in 1 .. NumNodes |-> 0], num_nodes |-> NumNodes, num_edges |-> N]
  BY <1>0, <1>1 DEF GnnInputs
<1>3. src \in [1 .. N -> S] /\ dst \in [1 .. N -> S]
  OBVIOUS
<1>4. /\ \A k \in 1 .. N : src[k] = idx[edges[k].src]
      /\ \A k \in 1 .. N : dst[k] = idx[edges[k].dst]
  OBVIOUS
<1>5. /\ Len(index) = N + N
      /\ \A k \in 1 .. N : index[k] = src[k] /\ index[N + k] = dst[k]
  <2> HIDE DEF src, dst, S, N
  <2>1. src \in Seq(S) /\ dst \in Seq(S) /\ Len(src) = N /\ Len(dst) = N
    BY <1>0, <1>3
  <2>2. /\ Len(src \o dst) = N + N
        /\ \A i \in 1 .. N + N : (src \o dst)[i] = IF i <= N THEN src[i] ELSE dst[i - N]
    <3>1. N \in Nat
      BY <1>0 DEF N
    <3> QED  BY <2>1, <3>1, ConcatProperties
  <2>3. ASSUME NEW k \in 1 .. N PROVE index[k] = src[k] /\ index[N + k] = dst[k]
    <3> DEFINE i == N + k
    <3>1. k \in 1 .. N + N /\ k <= N /\ i \in 1 .. N + N /\ ~(i <= N) /\ i - N = k
      BY <1>0
    <3>2. N + k = i
      OBVIOUS
    <3> HIDE DEF i
    <3> QED  BY <2>2, <3>1, <3>2
  <2> QED  BY <2>2, <2>3
<1> HIDE DEF index, src, dst, S, N, inputs, idx
<1>6. (N + N) \div 2 = N
  BY <1>0
<1>7. /\ inputs.x = FeatureRows(order) /\ inputs.edge_index = index
      /\ inputs.batch = [n \in 1 .. NumNodes |-> 0]
      /\ inputs.num_nodes = NumNodes /\ inputs.num_edges = N
  BY <1>2
<1>8. request = [x |-> FeatureRows(order),
                 edge_index |-> [k \in 1 .. N |-> <<index[k], index[N + k]>>],
                 batch |-> [n \in 1 .. NumNodes |-> 0]]
  BY <1>5, <1>6, <1>7 DEF GnnRequest
<1>9. ForwardTensors(inputs) = IF NumNodes = 0 THEN NoTensors ELSE request
  BY <1>7, <1>8 DEF ForwardTensors
<1>10. /\ request.x = FeatureRows(order) /\ request.batch = [n \in 1 .. NumNodes |-> 0]
       /\ request.edge_index = [k \in 1 .. N |-> <<index[k], index[N + k]>>]
  BY <1>8
<1> HIDE DEF request
<1>11. DOMAIN request.edge_index = 1 .. N /\ Len(request.edge_index) = N
  BY <1>0, <1>10
<1>12. \A k \in 1 .. N : request.edge_index[k] = <<idx[edges[k].src], idx[edges[k].dst]>>
  BY <1>4, <1>5, <1>10
<1> QED  BY <1>9, <1>10, <1>11, <1>12 DEF request, inputs, idx, N

\* A request has fields, whatever is in them.
LEMMA RequestIsThere ==
  ASSUME NEW inputs
  PROVE  GnnRequest(inputs) # NoTensors
<1> DEFINE request == GnnRequest(inputs)
<1>1. "x" \in DOMAIN request
  BY DEF GnnRequest
<1>2. "x" \notin DOMAIN NoTensors
  BY DEF NoTensors
<1> QED  BY <1>1, <1>2

\* There is a row for every node.
LEMMA RowsDomain ==
  ASSUME NEW order
  PROVE  DOMAIN FeatureRows(order) = 0 .. NumNodes - 1
BY DEF FeatureRows

\* All readers see the same graph, in a state that is well formed.
LEMMA AgreeStep ==
  ASSUME TypeOK, CountInv, EdgesJoinNodes
  PROVE  ReadersAgree
<1> SUFFICES ASSUME NEW order \in IterationOrders
             PROVE  LET inputs  == GnnInputs(order)
                        request == GnnRequest(inputs)
                        nodes   == JsonNodes(order)
                    IN  /\ Len(request.edge_index) = Len(JsonLinks)
                        /\ \A k \in DOMAIN JsonLinks :
                             LET column == request.edge_index[k]
                             IN  /\ column[1] \in DOMAIN request.x /\ column[2] \in DOMAIN request.x
                                 /\ nodes[column[1] + 1].id = JsonLinks[k].source
                                 /\ nodes[column[2] + 1].id = JsonLinks[k].target
                        /\ ForwardTensors(inputs) \in {NoTensors, request}
                        /\ ForwardTensors(inputs) = NoTensors => nodes = <<>>
  BY DEF ReadersAgree
<1> DEFINE inputs  == GnnInputs(order)
           request == GnnRequest(inputs)
           nodes   == JsonNodes(order)
           idx     == IdToIdx(order)
           N       == Len(edges)
<1>0. N \in Nat /\ DOMAIN edges = 1 .. N
  BY LenProperties DEF TypeOK
<1>1. /\ request.x = FeatureRows(order) /\ Len(request.edge_index) = N
      /\ \A k \in 1 .. N : request.edge_index[k] = <<idx[edges[k].src], idx[edges[k].dst]>>
      /\ ForwardTensors(inputs) = IF NumNodes = 0 THEN NoTensors ELSE request
  BY InputsAre
<1>2. /\ DOMAIN JsonLinks = 1 .. N /\ Len(JsonLinks) = N
      /\ \A k \in 1 .. N : JsonLinks[k].source = edges[k].src /\ JsonLinks[k].target = edges[k].dst
  BY <1>0 DEF JsonLinks
<1>3. \A id \in Nodes : idx[id] \in 0 .. NumNodes - 1 /\ nodes[idx[id] + 1].id = id
  BY IndexOfNode
<1>4. \A k \in 1 .. N : edges[k].src \in Nodes /\ edges[k].dst \in Nodes
  BY <1>0 DEF EdgesJoinNodes
<1>5. request # NoTensors
  BY RequestIsThere
<1>6. NumNodes = 0 => nodes = <<>>
  BY NodesAre
<1>7. DOMAIN request.x = 0 .. NumNodes - 1
  BY <1>1, RowsDomain
<1> HIDE DEF inputs, request, nodes, idx, N
<1>8. ASSUME NEW k \in 1 .. N
      PROVE  /\ request.edge_index[k][1] \in DOMAIN request.x
             /\ request.edge_index[k][2] \in DOMAIN request.x
             /\ nodes[request.edge_index[k][1] + 1].id = JsonLinks[k].source
             /\ nodes[request.edge_index[k][2] + 1].id = JsonLinks[k].target
  <2> DEFINE s == edges[k].src
             t == edges[k].dst
  <2>1. s \in Nodes /\ t \in Nodes /\ JsonLinks[k].source = s /\ JsonLinks[k].target = t
    BY <1>2, <1>4
  <2>2. request.edge_index[k] = <<idx[s], idx[t]>>
    BY <1>1
  <2>3. request.edge_index[k][1] = idx[s] /\ request.edge_index[k][2] = idx[t]
    BY <2>2
  <2> HIDE DEF s, t
  <2> QED  BY <1>3, <1>7, <2>1, <2>3
<1>9. /\ Len(request.edge_index) = Len(JsonLinks)
      /\ \A k \in DOMAIN JsonLinks :
           LET column == request.edge_index[k]
           IN  /\ column[1] \in DOMAIN request.x /\ column[2] \in DOMAIN request.x
               /\ nodes[column[1] + 1].id = JsonLinks[k].source
               /\ nodes[column[2] + 1].id = JsonLinks[k].target
  BY <1>1, <1>2, <1>8
<1>10. /\ ForwardTensors(inputs) \in {NoTensors, request}
       /\ ForwardTensors(inputs) = NoTensors => nodes = <<>>
  BY <1>1, <1>5, <1>6
<1> QED  BY <1>9, <1>10 DEF inputs, request, nodes

\* Until seq_ wraps, an event's row is its own.
LEMMA RowsStep ==
  ASSUME TypeOK, CountInv, EdgesJoinNodes, Numbered
  PROVE  RowsDescribeNodes
<1> SUFFICES ASSUME Len(events) <= SeqLimit, NEW order \in IterationOrders
             PROVE  LET request == GnnRequest(GnnInputs(order))
                        nodes   == JsonNodes(order)
                    IN  /\ Len(request.batch) = Len(nodes)
                        /\ DOMAIN request.x = 0 .. Len(nodes) - 1
                        /\ \A r \in DOMAIN request.x :
                             request.x[r] = IF r < NumProcesses THEN nodes[r + 1].id
                                            ELSE <<"ev", {nodes[r + 1].name}>>
  BY DEF RowsDescribeNodes
<1> DEFINE request == GnnRequest(GnnInputs(order))
           nodes   == JsonNodes(order)
           idx     == IdToIdx(order)
           n       == Len(events)
           rows    == FeatureRows(order)
           writers(r) == {i \in DOMAIN events : idx[EventId(events[i].seq)] = r}
<1>0. /\ NumProcesses \in Nat /\ n \in Nat /\ NumNodes = NumProcesses + n /\ NumNodes \in Nat
      /\ DOMAIN events = 1 .. n /\ DOMAIN order = 1 .. NumProcesses
  BY NodesAre, OrderVisits, LenProperties DEF TypeOK
<1>1. \A i \in 1 .. n : events[i].seq = i - 1
  BY <1>0 DEF Numbered
<1>2. request.x = rows /\ request.batch = [k \in 1 .. NumNodes |-> 0]
  BY InputsAre
<1>3. \A i \in 1 .. n : idx[EventId(events[i].seq)] = NumProcesses - 1 + i
  <2> SUFFICES ASSUME NEW i \in 1 .. n
               PROVE  idx[EventId(events[i].seq)] = NumProcesses - 1 + i
    OBVIOUS
  <2> DEFINE id   == EventId(events[i].seq)
             same == {j \in DOMAIN events : events[j].seq = id[2]}
  <2>1. id \in Nodes
    BY <1>0 DEF Nodes
  <2>2. id[1] # "proc" /\ id[2] = i - 1
    BY <1>1 DEF EventId
  <2>3. idx[id] = NumProcesses - 1 + Max(same)
    BY <2>1, <2>2 DEF IdToIdx
  <2> HIDE DEF id, n
  <2>4. same = {i}
    <3>1. \A j \in 1 .. n : events[j].seq = i - 1 <=> j = i
      BY <1>0, <1>1
    <3> QED  BY <1>0, <2>2, <3>1
  <2>5. same \in SUBSET (0 .. n) /\ same # {}
    <3> HIDE DEF same
    <3> QED  BY <1>0, <2>4
  <2>6. Max(same) = i
    BY <1>0, <2>4, <2>5, MaxIsGreatest
  <2> HIDE DEF idx
  <2> QED  BY <2>3, <2>6 DEF id
<1>4. /\ DOMAIN nodes = 1 .. NumNodes /\ Len(nodes) = NumNodes
      /\ \A k \in 1 .. NumProcesses : nodes[k].id = ProcId(order[k])
      /\ \A k \in 1 .. n : nodes[NumProcesses + k].name = events[k].type
  BY NodesAre
<1>5. \A r \in 0 .. NumNodes - 1 :
        rows[r] = IF r < NumProcesses THEN ProcId(order[r + 1])
                  ELSE IF writers(r) # {} THEN <<"ev", {events[i].type : i \in writers(r)}>>
                  ELSE <<"blank">>
  BY DEF FeatureRows
<1>6. DOMAIN rows = 0 .. NumNodes - 1
  BY RowsDomain
<1> HIDE DEF request, nodes, idx, n, rows
<1>7. Len(request.batch) = NumNodes
  BY <1>0, <1>2
<1>8. ASSUME NEW r \in 0 .. NumNodes - 1
      PROVE  rows[r] = IF r < NumProcesses THEN nodes[r + 1].id ELSE <<"ev", {nodes[r + 1].name}>>
  <2>1. CASE r < NumProcesses
    <3>1. r + 1 \in 1 .. NumProcesses
      BY <1>0, <2>1
    <3>2. rows[r] = ProcId(order[r + 1])
      BY <1>5, <2>1
    <3>3. nodes[r + 1].id = ProcId(order[r + 1])
      BY <1>4, <3>1
    <3> QED  BY <2>1, <3>2, <3>3
  <2>2. CASE ~(r < NumProcesses)
    <3> DEFINE i == r + 1 - NumProcesses
               W == writers(r)
    <3>1. i \in 1 .. n /\ r + 1 = NumProcesses + i /\ NumProcesses - 1 + i = r
      BY <1>0, <2>2
    <3> HIDE DEF i
    <3>2. W = {i}
      BY <1>0, <1>3, <3>1
    <3>3. rows[r] = <<"ev", {events[k].type : k \in W}>>
      BY <1>5, <2>2, <3>2
    <3> HIDE DEF W
    <3>4. {events[k].type : k \in W} = {events[i].type}
      BY <3>2
    <3>5. nodes[r + 1].name = events[i].type
      BY <1>4, <3>1
    <3> QED  BY <2>2, <3>3, <3>4, <3>5
  <2> QED  BY <2>1, <2>2
<1> QED  BY <1>2, <1>4, <1>6, <1>7, <1>8 DEF request, nodes

-----------------------------------------------------------------------------
\* Everything finite can be brought in an order of falling weight.
LEMMA SortedSequence ==
  ASSUME NEW A, NEW weight \in [A -> Nat], IsFiniteSet(A)
  PROVE  \E s \in SetToSeqs(A) : \A i, j \in DOMAIN s : i < j => weight[s[i]] >= weight[s[j]]
<1> DEFINE Sorted(S, n, s) ==
             /\ s \in [1 .. n -> S]
             /\ \A i, j \in 1 .. n : i < j => s[i] # s[j] /\ weight[s[i]] >= weight[s[j]]
           Good == {n \in Nat : \A S \in SUBSET A : IsFiniteSet(S) /\ Cardinality(S) = n =>
                                  \E s : Sorted(S, n, s)}
<1>1. 0 \in Good
  <2> SUFFICES ASSUME NEW S \in SUBSET A PROVE \E s : Sorted(S, 0, s)
    OBVIOUS
  <2>1. Sorted(S, 0, [k \in 1 .. 0 |-> 0])
    OBVIOUS
  <2> QED  BY <2>1
<1>2. ASSUME NEW n \in Nat, n \in Good PROVE n + 1 \in Good
  <2> SUFFICES ASSUME NEW S \in SUBSET A, IsFiniteSet(S), Cardinality(S) = n + 1
               PROVE  \E s : Sorted(S, n + 1, s)
    OBVIOUS
  <2>0. Cardinality(S) = n + 1
    OBVIOUS
  <2>1. S # {}
    BY FS_EmptySet
  <2> DEFINE W == {weight[x] : x \in S}
  <2>2. W \in SUBSET Nat /\ W # {}
    BY <2>1
  <2>3. PICK w \in W : \A v \in W : w <= v
    BY <2>2, LeastNumber
  <2>4. PICK x \in S : weight[x] = w
    OBVIOUS
  <2>5. \A y \in S : weight[y] \in Nat /\ weight[y] >= weight[x]
    BY <2>3, <2>4
  <2> DEFINE R == S \ {x}
  <2>6. R \in SUBSET A /\ IsFiniteSet(R) /\ Cardinality(R) = n
    <3>1. IsFiniteSet(R) /\ Cardinality(R) = Cardinality(S) - 1
      BY FS_RemoveElement
    <3> HIDE DEF R
    <3>2. Cardinality(R) = n
      BY <2>0, <3>1
    <3> QED  BY <3>1, <3>2 DEF R
  <2>7. PICK r : Sorted(R, n, r)
    BY <1>2, <2>6
  <2> DEFINE s == [k \in 1 .. n + 1 |-> IF k = n + 1 THEN x ELSE r[k]]
  <2>8. /\ \A k \in 1 .. n : k \in 1 .. n + 1 /\ k # n + 1
        /\ \A k \in 1 .. n + 1 : k # n + 1 => k \in 1 .. n
        /\ n + 1 \in 1 .. n + 1
    OBVIOUS
  <2>9. s[n + 1] = x /\ \A k \in 1 .. n : s[k] = r[k] /\ r[k] \in S /\ r[k] # x
    BY <2>7, <2>8
  <2>10. s \in [1 .. n + 1 -> S]
    BY <2>8, <2>9
  <2>11. ASSUME NEW i \in 1 .. n + 1, NEW j \in 1 .. n + 1, i < j
         PROVE  s[i] # s[j] /\ weight[s[i]] >= weight[s[j]]
    <3>1. i \in 1 .. n
      BY <2>11
    <3>2. CASE j = n + 1
      <4> HIDE DEF s, R
      <4> QED  BY <2>5, <2>9, <3>1, <3>2
    <3>3. CASE j # n + 1
      <4>1. j \in 1 .. n
        BY <2>8, <3>3
      <4>2. r[i] # r[j] /\ weight[r[i]] >= weight[r[j]]
        BY <2>7, <2>11, <3>1, <4>1
      <4> HIDE DEF s
      <4> QED  BY <2>9, <3>1, <4>1, <4>2
    <3> QED  BY <3>2, <3>3
  <2>12. Sorted(S, n + 1, s)
    BY <2>10, <2>11
  <2> QED  BY <2>12
<1>3. Cardinality(A) \in Nat
  BY FS_CardinalityType
<1>4. Cardinality(A) \in Good
  <2> HIDE DEF Good
  <2> QED  BY <1>1, <1>2, <1>3, AllNumbers
<1>5. PICK s : Sorted(A, Cardinality(A), s)
  BY <1>4
<1>6. \A i, j \in 1 .. Cardinality(A) : i # j => s[i] # s[j]
  <2> SUFFICES ASSUME NEW i \in 1 .. Cardinality(A), NEW j \in 1 .. Cardinality(A), i # j
               PROVE  s[i] # s[j]
    OBVIOUS
  <2>1. i < j \/ j < i
    BY <1>3
  <2> QED  BY <1>5, <2>1
<1>7. s \in SetToSeqs(A) /\ DOMAIN s = 1 .. Cardinality(A)
  BY <1>5, <1>6 DEF SetToSeqs
<1> QED  BY <1>5, <1>7

\* There are as many events as the graph is long.
LEMMA EventsFinite ==
  ASSUME TypeOK
  PROVE  IsFiniteSet(DOMAIN events) /\ Cardinality(DOMAIN events) = Len(events)
<1> DEFINE n == Len(events)
<1>1. n \in Nat /\ DOMAIN events = 1 .. n
  BY LenProperties DEF TypeOK
<1> HIDE DEF n
<1>2. IsFiniteSet(1 .. n) /\ Cardinality(1 .. n) = n
  BY <1>1, FS_Interval
<1> QED  BY <1>1, <1>2 DEF n

\* The names are no more than the events.
LEMMA NamesFinite ==
  ASSUME TypeOK
  PROVE  IsFiniteSet(Names) /\ \A name : IsFiniteSet(Occurrences(name))
<1> DEFINE f == [k \in DOMAIN events |-> events[k].type]
<1>2. IsFiniteSet(DOMAIN events)
  BY EventsFinite
<1>3. f \in Surjection(DOMAIN events, Names)
  BY DEF Surjection, Names
<1>4. IsFiniteSet(Names)
  BY <1>2, <1>3, FS_Surjection
<1>5. \A name : Occurrences(name) \in SUBSET (DOMAIN events)
  BY DEF Occurrences
<1>6. \A name : IsFiniteSet(Occurrences(name))
  BY <1>2, <1>5, FS_Subset
<1> QED  BY <1>4, <1>6

LEMMA CountIsNumber ==
  ASSUME TypeOK, NEW name
  PROVE  /\ Count(name) \in Nat /\ Cardinality(Occurrences(name)) \in Nat
         /\ (Cardinality(Occurrences(name)) < SeqLimit => Count(name) = Cardinality(Occurrences(name)))
<1> DEFINE c == Cardinality(Occurrences(name))
<1>1. c \in Nat
  BY NamesFinite, FS_CardinalityType
<1>2. Count(name) = c % SeqLimit
  BY DEF Count
<1> HIDE DEF c
<1>3. c % SeqLimit \in Nat /\ (c < SeqLimit => c % SeqLimit = c)
  BY <1>1, GraphAssumption
<1> QED  BY <1>1, <1>2, <1>3 DEF c

\* summary and to_gnn_inputs have an order to go by, in every state.
LEMMA OrdersExist ==
  ASSUME TypeOK, CountInv
  PROVE  Rankings # {} /\ IterationOrders # {}
<1>1. Rankings # {}
  <2> DEFINE weight == [name \in Names |-> Count(name)]
  <2>1. weight \in [Names -> Nat] /\ IsFiniteSet(Names)
    BY CountIsNumber, NamesFinite
  <2>2. \A name \in Names : weight[name] = Count(name)
    OBVIOUS
  <2> HIDE DEF weight
  <2>3. PICK s \in SetToSeqs(Names) :
          \A i, j \in DOMAIN s : i < j => weight[s[i]] >= weight[s[j]]
    BY <2>1, SortedSequence
  <2>4. \A i \in DOMAIN s : s[i] \in Names
    BY DEF SetToSeqs
  <2> QED  BY <2>2, <2>3, <2>4 DEF Rankings
<1>2. IterationOrders # {}
  <2> DEFINE weight == [p \in DOMAIN processes |-> 0]
  <2>1. weight \in [DOMAIN processes -> Nat] /\ IsFiniteSet(DOMAIN processes)
    BY DEF CountInv
  <2> HIDE DEF weight
  <2> QED  BY <2>1, SortedSequence DEF IterationOrders
<1> QED  BY <1>1, <1>2

-----------------------------------------------------------------------------
(* Request, local model and exported file agree on every node and edge, for *)
(* every number of events and also after seq_ has wrapped.                  *)
THEOREM Agreement == Spec => []ReadersAgree
BY Typing, Joining, CountHolds, AgreeStep, PTL

(* Until the wrap, every feature row describes the node it stands for.      *)
THEOREM RowsBelong == Spec => []RowsDescribeNodes
BY Typing, Joining, CountHolds, Numbering, RowsStep, PTL

-----------------------------------------------------------------------------
\* The events whose name is among the first k of the ranking.
Among(ranking, k) == {i \in DOMAIN events : \E j \in 1 .. k : events[i].type = ranking[j]}

\* Events of different names are different ones: their numbers add up.
LEMMA AmongGrows ==
  ASSUME TypeOK, NEW ranking \in SetToSeqs(Names), NEW k \in Nat, k + 1 <= Cardinality(Names)
  PROVE  Cardinality(Among(ranking, k + 1))
           = Cardinality(Among(ranking, k)) + Cardinality(Occurrences(ranking[k + 1]))
<1> DEFINE N    == Cardinality(Names)
           m    == k + 1
           old  == Among(ranking, k)
           next == Occurrences(ranking[m])
<1>1. N \in Nat /\ \A i, j \in 1 .. N : i # j => ranking[i] # ranking[j]
  BY NamesFinite, SeqsVisit
<1>2. m \in 1 .. N /\ \A j \in 1 .. k : j \in 1 .. N /\ j # m
  BY <1>1
<1>3. 1 .. m = (1 .. k) \cup {m}
  OBVIOUS
<1>4. Among(ranking, m) = old \cup next
  <2> HIDE DEF m
  <2> QED  BY <1>3 DEF Among, Occurrences
<1>5. old \cap next = {}
  <2> HIDE DEF m, N
  <2> QED  BY <1>1, <1>2 DEF Among, Occurrences
<1>6. IsFiniteSet(old) /\ IsFiniteSet(next)
  <2>1. IsFiniteSet(DOMAIN events)
    BY EventsFinite
  <2>2. old \in SUBSET (DOMAIN events) /\ next \in SUBSET (DOMAIN events)
    BY DEF Among, Occurrences
  <2> HIDE DEF old, next
  <2> QED  BY <2>1, <2>2, FS_Subset
<1> HIDE DEF old, next
<1>7. Cardinality(old \cup next) = Cardinality(old) + Cardinality(next) - Cardinality({})
  BY <1>5, <1>6, FS_Union
<1>8. Cardinality({}) = 0 /\ Cardinality(old) \in Nat /\ Cardinality(next) \in Nat
  BY <1>6, FS_EmptySet, FS_CardinalityType
<1>9. Cardinality(Among(ranking, m)) = Cardinality(old) + Cardinality(next)
  <2> HIDE DEF m
  <2> QED  BY <1>4, <1>7, <1>8
<1> QED  BY <1>9 DEF old, next, m

\* The recursion of Total, and that it adds up to the events it counts.
LEMMA TotalIs ==
  ASSUME TypeOK, NEW ranking \in SetToSeqs(Names), NEW top, NEW n \in Nat,
         DOMAIN top = 1 .. n, n <= Cardinality(Names),
         \A k \in 1 .. n : top[k].count = Cardinality(Occurrences(ranking[k]))
  PROVE  Total(top) = Cardinality(Among(ranking, n))
<1> DEFINE Sum(t, k) == IF k = 0 THEN 0 ELSE t[k - 1] + top[k].count
           f == [k \in 0 .. n |-> Cardinality(Among(ranking, k))]
           total == CHOOSE t : t = [k \in 0 .. n |-> Sum(t, k)]
<1>0. Len(top) = n
  OBVIOUS
<1>1. \A k \in 0 .. n : f[k] = Sum(f, k)
  <2> SUFFICES ASSUME NEW k \in 0 .. n PROVE f[k] = Sum(f, k)
    OBVIOUS
  <2>1. CASE k = 0
    <3>1. Among(ranking, 0) = {}
      BY DEF Among
    <3>2. Cardinality(Among(ranking, 0)) = 0
      BY <3>1, FS_EmptySet
    <3> QED  BY <2>1, <3>2
  <2>2. CASE k # 0
    <3> DEFINE j == k - 1
    <3>1. j \in 0 .. n /\ j \in Nat /\ j + 1 = k /\ k \in 1 .. n
      BY <2>2
    <3>2. Cardinality(Among(ranking, k)) = Cardinality(Among(ranking, j)) + Cardinality(Occurrences(ranking[k]))
      <4> HIDE DEF j
      <4>1. Cardinality(Names) \in Nat
        BY NamesFinite, FS_CardinalityType
      <4>2. j + 1 <= Cardinality(Names)
        BY <3>1, <4>1
      <4> QED  BY <3>1, <4>2, AmongGrows
    <3>3. top[k].count = Cardinality(Occurrences(ranking[k]))
      BY <3>1
    <3>4. f[k] = Cardinality(Among(ranking, k)) /\ f[j] = Cardinality(Among(ranking, j))
      BY <3>1
    <3> HIDE DEF f
    <3> QED  BY <2>2, <3>2, <3>3, <3>4
  <2> QED  BY <2>1, <2>2
<1>2. f = [k \in 0 .. n |-> Sum(f, k)]
  BY <1>1
<1>3. total = [k \in 0 .. n |-> Sum(total, k)]
  <2> HIDE DEF f
  <2> QED  BY <1>2
<1>4. Total(top) = total[n]
  BY <1>0 DEF Total
<1> HIDE DEF total
<1>5. \A k \in Nat : k <= n => total[k] = f[k]
  <2> DEFINE T == {k \in Nat : k <= n => total[k] = f[k]}
  <2>1. 0 \in T
    <3>1. total[0] = Sum(total, 0) /\ f[0] = Sum(f, 0)
      <4> HIDE DEF f, Sum
      <4> QED  BY <1>1, <1>3
    <3> HIDE DEF f
    <3> QED  BY <3>1
  <2>2. ASSUME NEW j \in Nat, j \in T PROVE j + 1 \in T
    <3> SUFFICES ASSUME j + 1 <= n PROVE total[j + 1] = f[j + 1]
      OBVIOUS
    <3> DEFINE k == j + 1
    <3>1. k \in 0 .. n /\ k - 1 = j /\ k # 0 /\ j <= n
      OBVIOUS
    <3>2. total[j] = f[j]
      BY <2>2, <3>1
    <3> HIDE DEF k, f
    <3>3. total[k] = Sum(total, k) /\ f[k] = Sum(f, k)
      <4> HIDE DEF Sum
      <4> QED  BY <1>1, <1>3, <3>1
    <3>4. Sum(total, k) = Sum(f, k)
      BY <3>1, <3>2
    <3> HIDE DEF Sum
    <3> QED  BY <3>3, <3>4 DEF k
  <2> HIDE DEF T
  <2>3. \A k \in Nat : k \in T
    BY <2>1, <2>2, AllNumbers
  <2> HIDE DEF f
  <2> QED  BY <2>3, Zenon DEF T
<1>6. total[n] = f[n]
  <2> HIDE DEF f
  <2> QED  BY <1>5
<1> QED  BY <1>4, <1>6

\* The numbers of the exit log belong together, in a state that is well formed.
LEMMA SummaryStep ==
  ASSUME TypeOK, EdgeCount
  PROVE  SummaryAddsUp
<1> SUFFICES ASSUME NEW ranking \in Rankings
             PROVE  LET top    == Summary(ranking).top_syscalls
                        listed == {top[k].type : k \in DOMAIN top}
                    IN  /\ EdgeCount
                        /\ Cardinality(listed) = Len(top)
                        /\ \A name \in Names \ listed :
                             Len(top) = TopCount /\ \A k \in DOMAIN top : Count(name) <= top[k].count
                        /\ Names \subseteq listed
                             /\ (\A name \in Names : Cardinality(Occurrences(name)) < SeqLimit)
                             => Total(top) = Summary(ranking).total_events
  BY DEF SummaryAddsUp
<1> DEFINE top    == Summary(ranking).top_syscalls
           listed == {top[k].type : k \in DOMAIN top}
           N      == Cardinality(Names)
           n      == Min({TopCount, Len(ranking)})
<1>0. ranking \in SetToSeqs(Names)
  BY DEF Rankings
<1>1. /\ N \in Nat /\ ranking \in [1 .. N -> Names] /\ DOMAIN ranking = 1 .. N
      /\ \A i, j \in 1 .. N : i # j => ranking[i] # ranking[j]
      /\ \A name \in Names : \E k \in 1 .. N : ranking[k] = name
  BY <1>0, NamesFinite, SeqsVisit
<1>2. \A i, j \in 1 .. N : i < j => Count(ranking[i]) >= Count(ranking[j])
  BY <1>1 DEF Rankings
<1>3. Len(ranking) = N
  <2> HIDE DEF N
  <2> QED  BY <1>1
<1>4. n \in 0 .. N /\ n <= TopCount /\ (n = TopCount \/ n = N)
  <2>1. n = Min({TopCount, N})
    BY <1>3
  <2>2. TopCount \in Nat
    BY ExportAssumption
  <2>3. \E x \in {TopCount, N} : \A y \in {TopCount, N} : x <= y
    BY <1>1, <2>2
  <2> HIDE DEF n, N
  <2>4. n \in {TopCount, N} /\ n <= TopCount /\ n <= N
    BY <2>1, <2>3 DEF Min
  <2> QED  BY <1>1, <2>2, <2>4
<1>5. top = [k \in 1 .. n |-> [type |-> ranking[k], count |-> Count(ranking[k])]]
  BY DEF Summary
<1>6. Summary(ranking).total_events = Len(events)
  BY DEF Summary
<1> HIDE DEF n, N, top
<1>7. /\ DOMAIN top = 1 .. n /\ Len(top) = n
      /\ \A k \in 1 .. n : top[k].type = ranking[k] /\ top[k].count = Count(ranking[k])
  BY <1>4, <1>5
<1>8. \A k \in 1 .. n : k \in 1 .. N
  BY <1>1, <1>4
<1>9. listed = {ranking[k] : k \in 1 .. n}
  BY <1>7
<1> HIDE DEF listed
<1>10. Cardinality(listed) = Len(top)
  <2> DEFINE f == [k \in 1 .. n |-> ranking[k]]
  <2>1. f \in Bijection(1 .. n, listed)
    BY <1>1, <1>8, <1>9 DEF Bijection, Injection, Surjection, IsInjective
  <2>2. IsFiniteSet(1 .. n) /\ Cardinality(1 .. n) = n
    BY <1>1, <1>4, FS_Interval
  <2>3. ExistsBijection(1 .. n, listed)
    BY <2>1 DEF ExistsBijection
  <2> QED  BY <1>7, <2>2, <2>3, FS_Bijection
<1>11. ASSUME NEW name \in Names \ listed
       PROVE  Len(top) = TopCount /\ \A k \in DOMAIN top : Count(name) <= top[k].count
  <2>1. PICK m \in 1 .. N : ranking[m] = name
    BY <1>1
  <2>2. m \notin 1 .. n
    BY <1>9, <2>1
  <2>3. m > n /\ n # N
    BY <1>1, <1>4, <2>2
  <2>4. ASSUME NEW k \in 1 .. n PROVE Count(name) <= Count(ranking[k])
    <3>1. k < m /\ k \in 1 .. N
      BY <1>1, <1>4, <1>8, <2>3
    <3>2. Count(ranking[k]) >= Count(ranking[m])
      BY <1>2, <3>1
    <3>3. Count(ranking[k]) \in Nat /\ Count(ranking[m]) \in Nat
      BY CountIsNumber
    <3> QED  BY <2>1, <3>2, <3>3
  <2> QED  BY <1>4, <1>7, <2>3, <2>4
<1>12. ASSUME Names \subseteq listed,
              \A name \in Names : Cardinality(Occurrences(name)) < SeqLimit
       PROVE  Total(top) = Len(events)
  <2>1. \A k \in 1 .. n : top[k].count = Cardinality(Occurrences(ranking[k]))
    BY <1>1, <1>7, <1>8, <1>12, CountIsNumber
  <2>2. Total(top) = Cardinality(Among(ranking, n))
    BY <1>0, <1>1, <1>4, <1>7, <2>1, TotalIs DEF N
  <2>3. Among(ranking, n) = DOMAIN events
    BY <1>9, <1>12 DEF Among, Names
  <2>4. Cardinality(DOMAIN events) = Len(events)
    BY EventsFinite
  <2> QED  BY <2>2, <2>3, <2>4
<1> QED  BY <1>6, <1>10, <1>11, <1>12 DEF top, listed

(* The exit log's counts and names fit the graph, for every number of       *)
(* names and events and however many of them are listed.                    *)
THEOREM Summing == Spec => []SummaryAddsUp
BY Typing, Counting, SummaryStep, PTL

(* There is always an order for the readers to go by: ReadersAgree,         *)
(* RowsDescribeNodes and SummaryAddsUp never speak of no order at all.      *)
THEOREM Ordered == Spec => [](Rankings # {} /\ IterationOrders # {})
BY Typing, CountHolds, OrdersExist, PTL

-----------------------------------------------------------------------------
(* id_to_idx never gives one index to two nodes, for every number of events; *)
(* and until seq_ wraps it is the inverse of the exported list: every node   *)
(* is listed once, at its index.                                             *)
OneIndexEach ==
  \A order \in IterationOrders :
    LET nodes == JsonNodes(order)
        idx   == IdToIdx(order)
    IN  /\ \A id1, id2 \in Nodes : idx[id1] = idx[id2] => id1 = id2
        /\ Len(events) <= SeqLimit =>
             /\ \A i \in DOMAIN nodes : nodes[i].id \in Nodes /\ idx[nodes[i].id] = i - 1
             /\ \A i, j \in DOMAIN nodes : nodes[i].id = nodes[j].id => i = j

LEMMA IndexStep ==
  ASSUME TypeOK, CountInv, Numbered
  PROVE  OneIndexEach
<1> SUFFICES ASSUME NEW order \in IterationOrders
             PROVE  LET nodes == JsonNodes(order)
                        idx   == IdToIdx(order)
                    IN  /\ \A id1, id2 \in Nodes : idx[id1] = idx[id2] => id1 = id2
                        /\ Len(events) <= SeqLimit =>
                             /\ \A i \in DOMAIN nodes :
                                  nodes[i].id \in Nodes /\ idx[nodes[i].id] = i - 1
                             /\ \A i, j \in DOMAIN nodes : nodes[i].id = nodes[j].id => i = j
  BY DEF OneIndexEach
<1> DEFINE nodes == JsonNodes(order)
           idx   == IdToIdx(order)
           n     == Len(events)
<1>1. /\ NumProcesses \in Nat /\ n \in Nat /\ NumNodes = NumProcesses + n /\ NumNodes \in Nat
      /\ DOMAIN events = 1 .. n /\ DOMAIN nodes = 1 .. NumNodes
      /\ order \in [1 .. NumProcesses -> DOMAIN processes]
      /\ \A k \in 1 .. NumProcesses : nodes[k].id = ProcId(order[k])
      /\ \A k \in 1 .. n : nodes[NumProcesses + k].id = EventId(events[k].seq)
  BY NodesAre, OrderVisits, LenProperties DEF TypeOK
<1>2. \A i, j \in 1 .. NumProcesses : order[i] = order[j] => i = j
  BY SeqsVisit DEF CountInv, IterationOrders, NumProcesses
<1>3. \A id \in Nodes : idx[id] \in 0 .. NumNodes - 1 /\ nodes[idx[id] + 1].id = id
  BY IndexOfNode
<1>4. \A p, k : ProcId(p) # EventId(k)
  BY DEF ProcId, EventId
<1>5. /\ \A p, q : ProcId(p) = ProcId(q) => p = q
      /\ \A p, q : EventId(p) = EventId(q) => p = q
  BY DEF ProcId, EventId
<1> HIDE DEF nodes, idx, n
<1>6. \A id1, id2 \in Nodes : idx[id1] = idx[id2] => id1 = id2
  BY <1>3
<1>7. ASSUME n <= SeqLimit
      PROVE  /\ \A i \in 1 .. NumNodes : nodes[i].id \in Nodes /\ idx[nodes[i].id] = i - 1
             /\ \A i, j \in 1 .. NumNodes : nodes[i].id = nodes[j].id => i = j
  <2>1. \A k \in 1 .. n : events[k].seq = k - 1
    BY <1>1, <1>7 DEF Numbered, n
  <2>2. ASSUME NEW i \in 1 .. NumNodes
        PROVE  \/ i \in 1 .. NumProcesses /\ nodes[i].id = ProcId(order[i])
                  /\ order[i] \in DOMAIN processes
               \/ /\ i - NumProcesses \in 1 .. n
                  /\ nodes[i].id = EventId(i - NumProcesses - 1)
                  /\ nodes[i].id = EventId(events[i - NumProcesses].seq)
    <3>1. CASE i <= NumProcesses
      BY <1>1, <3>1
    <3>2. CASE ~(i <= NumProcesses)
      <4> DEFINE k == i - NumProcesses
      <4>1. k \in 1 .. n /\ NumProcesses + k = i
        BY <1>1, <3>2
      <4> HIDE DEF k
      <4>2. nodes[i].id = EventId(events[k].seq) /\ events[k].seq = k - 1
        BY <1>1, <2>1, <4>1
      <4> QED  BY <4>1, <4>2 DEF k
    <3> QED  BY <3>1, <3>2
  <2>3. ASSUME NEW i \in 1 .. NumNodes, NEW j \in 1 .. NumNodes, nodes[i].id = nodes[j].id
        PROVE  i = j
    <3> DEFINE a == i - NumProcesses
               b == j - NumProcesses
    <3>1. /\ \/ i \in 1 .. NumProcesses /\ nodes[i].id = ProcId(order[i])
             \/ a \in 1 .. n /\ nodes[i].id = EventId(a - 1)
          /\ \/ j \in 1 .. NumProcesses /\ nodes[j].id = ProcId(order[j])
             \/ b \in 1 .. n /\ nodes[j].id = EventId(b - 1)
      BY <2>2
    <3> HIDE DEF a, b
    <3>2. CASE /\ i \in 1 .. NumProcesses /\ nodes[i].id = ProcId(order[i])
               /\ j \in 1 .. NumProcesses /\ nodes[j].id = ProcId(order[j])
      <4>1. order[i] = order[j]
        BY <1>5, <2>3, <3>2
      <4> QED  BY <1>2, <3>2, <4>1
    <3>3. CASE /\ a \in 1 .. n /\ nodes[i].id = EventId(a - 1)
               /\ b \in 1 .. n /\ nodes[j].id = EventId(b - 1)
      <4>1. a - 1 = b - 1
        BY <1>5, <2>3, <3>3
      <4>2. a = b
        BY <1>1, <3>3, <4>1
      <4> QED  BY <1>1, <4>2 DEF a, b
    <3> QED  BY <1>4, <2>3, <3>1, <3>2, <3>3
  <2>4. ASSUME NEW i \in 1 .. NumNodes
        PROVE  nodes[i].id \in Nodes /\ idx[nodes[i].id] = i - 1
    <3>1. nodes[i].id \in Nodes
      <4>1. CASE i \in 1 .. NumProcesses /\ nodes[i].id = ProcId(order[i])
                 /\ order[i] \in DOMAIN processes
        BY <4>1 DEF Nodes
      <4>2. CASE /\ i - NumProcesses \in 1 .. n
                 /\ nodes[i].id = EventId(events[i - NumProcesses].seq)
        BY <1>1, <4>2 DEF Nodes
      <4> QED  BY <2>2, <4>1, <4>2
    <3> DEFINE j == idx[nodes[i].id]
    <3>2. j \in 0 .. NumNodes - 1 /\ nodes[j + 1].id = nodes[i].id
      BY <1>3, <3>1
    <3> HIDE DEF j
    <3>3. j + 1 \in 1 .. NumNodes
      BY <1>1, <3>2
    <3>4. j + 1 = i
      BY <2>3, <3>2, <3>3
    <3>5. j = i - 1
      BY <1>1, <3>2, <3>4
    <3> QED  BY <3>1, <3>5 DEF j
  <2> QED  BY <2>3, <2>4
<1> QED  BY <1>1, <1>6, <1>7 DEF nodes, idx, n

(* The exported file lists no node twice and leaves none out, and the       *)
(* request numbers the nodes as the file lists them, until seq_ wraps; and  *)
(* no two nodes ever share an index.                                        *)
THEOREM Indexing == Spec => []OneIndexEach
BY Typing, CountHolds, Numbering, IndexStep, PTL
=============================================================================
