-------------------------- MODULE LogShipperProofs --------------------------
(***************************************************************************)
(* Theorems about LogShipper, for every set of lines and every threshold:  *)
(* no line is ever in two places, blocks are runs of consecutive lines,    *)
(* and the shipper implements LogDelivery.                                 *)
(***************************************************************************)
EXTENDS LogShipper, SequenceTheorems, TLAPS

USE DEF ShipperConstants

\* The lines of a sequence after one more.
LEMMA RangeAppend ==
  ASSUME NEW S, NEW s \in Seq(S), NEW x \in S
  PROVE  Range(Append(s, x)) = Range(s) \cup {x}
<1>1. /\ Append(s, x) \in Seq(S)
      /\ Len(Append(s, x)) = Len(s) + 1
      /\ \A i \in 1 .. Len(s) : Append(s, x)[i] = s[i]
      /\ Append(s, x)[Len(s) + 1] = x
  BY AppendProperties
<1>2. /\ DOMAIN s = 1 .. Len(s) /\ Len(s) \in Nat
      /\ DOMAIN Append(s, x) = 1 .. Len(s) + 1
  BY <1>1, LenProperties
<1> QED  BY <1>1, <1>2 DEF Range

LEMMA RangeEmpty == Range(<<>>) = {}
  BY DEF Range

LEMMA StoredAppend ==
  ASSUME TypeOK, NEW b \in Seq(Line), stored' = Append(stored, b)
  PROVE  StoredBlocks' = StoredBlocks \cup {b}
<1>1. /\ DOMAIN stored = 1 .. Len(stored) /\ Len(stored) \in Nat
      /\ DOMAIN stored' = 1 .. Len(stored) + 1
      /\ \A k \in 1 .. Len(stored) : stored'[k] = stored[k]
      /\ stored'[Len(stored) + 1] = b
  BY AppendProperties, LenProperties DEF TypeOK
<1> QED  BY <1>1 DEF StoredBlocks

(* The five variables keep their types.                                     *)
THEOREM Typing == Spec => []TypeOK
<1>1. Init => TypeOK
  BY ShipperAssumption DEF Init, TypeOK
<1>2. TypeOK /\ [Next]_shipperVars => TypeOK'
  <2> SUFFICES ASSUME TypeOK, [Next]_shipperVars
               PROVE  TypeOK'
    OBVIOUS
  <2>1. ASSUME NEW l \in Line, Record(l) PROVE TypeOK'
    <3>1. /\ Len(batch') = Len(batch) + 1
          /\ Len(batch) \in Nat /\ ~ (Len(batch) >= Threshold)
      BY <2>1, AppendProperties, LenProperties DEF Record, Full, TypeOK
    <3>2. Len(batch') <= Threshold
      BY <3>1, ShipperAssumption
    <3> QED  BY <2>1, <3>2, AppendProperties DEF Record, TypeOK
  <2>2. CASE Flush
    BY <2>2, ShipperAssumption DEF Flush, TypeOK
  <2>3. CASE PushStored
    BY <2>3, AppendProperties DEF PushStored, TypeOK
  <2>4. CASE PushLost
    BY <2>4 DEF PushLost, TypeOK
  <2>5. CASE PushAbandoned
    BY <2>5 DEF PushAbandoned, TypeOK
  <2>6. ASSUME NEW block \in wire, LateStore(block) PROVE TypeOK'
    BY <2>6, AppendProperties DEF LateStore, TypeOK
  <2>7. ASSUME NEW block \in wire, LateDrop(block) PROVE TypeOK'
    BY <2>7 DEF LateDrop, TypeOK
  <2>8. CASE UNCHANGED shipperVars
    BY <2>8 DEF shipperVars, TypeOK
  <2> QED
    BY <2>1, <2>2, <2>3, <2>4, <2>5, <2>6, <2>7, <2>8 DEF Next, PushEnds, LokiLate
<1> QED  BY <1>1, <1>2, PTL DEF Spec

-----------------------------------------------------------------------------
\* What makes OnePlacePerLine inductive: every line anywhere was recorded, so a
\* line that is recorded now is nowhere yet.
AllRecorded == Range(batch) \cup Gone \subseteq Range(recorded)

PlaceInv == TypeOK /\ AllRecorded /\ OnePlacePerLine

LEMMA PlaceInductive ==
  ASSUME PlaceInv, TypeOK', [Next]_shipperVars
  PROVE  PlaceInv'
<1> USE DEF PlaceInv
<1>1. ASSUME NEW l \in Line, Record(l)
      PROVE  PlaceInv'
  <2>1. /\ Range(recorded') = Range(recorded) \cup {l}
        /\ Range(batch') = Range(batch) \cup {l}
    BY <1>1, RangeAppend DEF Record, TypeOK
  <2>2. UNCHANGED <<push, wire, stored>> /\ l \notin Range(recorded)
    BY <1>1 DEF Record
  <2> QED
    BY <2>1, <2>2 DEF AllRecorded, OnePlacePerLine, Gone, StoredBlocks
<1>2. CASE Flush
  <2>1. /\ push = <<>> /\ push' = batch /\ batch' = <<>>
        /\ UNCHANGED <<recorded, wire, stored>>
    BY <1>2 DEF Flush, Pushing
  <2>2. Range(push) = {} /\ Range(batch') = {} /\ Range(push') = Range(batch)
    BY <2>1, RangeEmpty
  <2>3. StoredBlocks' = StoredBlocks
    BY <2>1 DEF StoredBlocks
  <2>4. Gone' = Gone \cup Range(batch)
    BY <2>1, <2>2, <2>3 DEF Gone
  <2>5. \A b \in wire \cup StoredBlocks : Range(b) \cap Range(batch) = {}
    BY DEF OnePlacePerLine, Gone
  <2>6. AllRecorded'
    BY <2>1, <2>2, <2>4 DEF AllRecorded
  <2>7. OnePlacePerLine'
    BY <2>1, <2>2, <2>3, <2>5 DEF OnePlacePerLine
  <2> QED  BY <2>6, <2>7
<1>3. CASE PushStored
  <2>1. /\ stored' = Append(stored, push) /\ push' = <<>>
        /\ UNCHANGED <<recorded, batch, wire>>
    BY <1>3 DEF PushStored
  <2>2. Range(push') = {}
    BY <2>1, RangeEmpty
  <2>3. StoredBlocks' = StoredBlocks \cup {push}
    BY <2>1, StoredAppend DEF TypeOK
  <2>4. \A j, k \in DOMAIN stored' : j # k => Range(stored'[j]) \cap Range(stored'[k]) = {}
    <3>1. /\ DOMAIN stored' = DOMAIN stored \cup {Len(stored) + 1}
          /\ \A k \in DOMAIN stored : stored'[k] = stored[k]
          /\ stored'[Len(stored) + 1] = push
      BY <2>1, AppendProperties DEF TypeOK
    <3> QED  BY <3>1 DEF OnePlacePerLine, StoredBlocks
  <2>5. Gone' = Gone
    BY <2>1, <2>2, <2>3 DEF Gone
  <2>6. AllRecorded'
    BY <2>1, <2>5 DEF AllRecorded
  <2>7. \A b \in wire, c \in StoredBlocks' : Range(b) \cap Range(c) = {}
    BY <2>3 DEF OnePlacePerLine
  <2>8. OnePlacePerLine'
    BY <2>1, <2>2, <2>4, <2>5, <2>7 DEF OnePlacePerLine
  <2> QED  BY <2>6, <2>8
<1>4. CASE PushLost
  <2>1. push' = <<>> /\ UNCHANGED <<recorded, batch, wire, stored>>
    BY <1>4 DEF PushLost
  <2>2. Range(push') = {}
    BY <2>1, RangeEmpty
  <2> QED
    BY <2>1, <2>2 DEF AllRecorded, OnePlacePerLine, Gone, StoredBlocks
<1>5. CASE PushAbandoned
  <2>1. /\ wire' = wire \cup {push} /\ push' = <<>>
        /\ UNCHANGED <<recorded, batch, stored>>
    BY <1>5 DEF PushAbandoned
  <2>2. Range(push') = {}
    BY <2>1, RangeEmpty
  <2> QED
    BY <2>1, <2>2 DEF AllRecorded, OnePlacePerLine, Gone, StoredBlocks
<1>6. ASSUME NEW block \in wire, LateStore(block)
      PROVE  PlaceInv'
  <2>1. /\ stored' = Append(stored, block) /\ wire' = wire \ {block}
        /\ UNCHANGED <<recorded, batch, push>>
        /\ block \in Seq(Line)
    BY <1>6 DEF LateStore, TypeOK
  <2>2. StoredBlocks' = StoredBlocks \cup {block}
    BY <2>1, StoredAppend
  <2>3. \A j, k \in DOMAIN stored' : j # k => Range(stored'[j]) \cap Range(stored'[k]) = {}
    <3>1. /\ DOMAIN stored' = DOMAIN stored \cup {Len(stored) + 1}
          /\ \A k \in DOMAIN stored : stored'[k] = stored[k]
          /\ stored'[Len(stored) + 1] = block
      BY <2>1, AppendProperties DEF TypeOK
    <3> QED  BY <3>1 DEF OnePlacePerLine, StoredBlocks
  <2> QED
    BY <2>1, <2>2, <2>3 DEF AllRecorded, OnePlacePerLine, Gone
<1>7. ASSUME NEW block \in wire, LateDrop(block)
      PROVE  PlaceInv'
  BY <1>7 DEF LateDrop, AllRecorded, OnePlacePerLine, Gone, StoredBlocks
<1>8. CASE UNCHANGED shipperVars
  BY <1>8 DEF shipperVars, AllRecorded, OnePlacePerLine, Gone, StoredBlocks
<1> QED
  BY <1>1, <1>2, <1>3, <1>4, <1>5, <1>6, <1>7, <1>8 DEF Next, PushEnds, LokiLate

(* No line is in two places, however pushes time out and however late Loki  *)
(* stores what was given up on: flush_logs clears what it copies and never  *)
(* retries, so a line reaches Loki at most once.                            *)
THEOREM Placing == Spec => []OnePlacePerLine
<1>1. Init => PlaceInv
  BY RangeEmpty, ShipperAssumption DEF Init, PlaceInv, TypeOK, AllRecorded, OnePlacePerLine, Gone, StoredBlocks
<1>2. PlaceInv /\ TypeOK' /\ [Next]_shipperVars => PlaceInv'
  BY PlaceInductive
<1>3. PlaceInv => OnePlacePerLine
  BY DEF PlaceInv
<1> QED  BY <1>1, <1>2, <1>3, Typing, PTL DEF Spec

-----------------------------------------------------------------------------
RunsInv == TypeOK /\ BlocksAreRuns

\* A run of the history stays one while the history grows.
LEMMA BlockStays ==
  ASSUME TypeOK, NEW l \in Line, recorded' = Append(recorded, l),
         NEW b \in Seq(Line), NEW lo \in Int, NEW hi \in Int, IsBlock(b, lo, hi)
  PROVE  /\ Len(b) = hi - lo + 1
         /\ lo \in 1 .. Len(recorded') /\ hi \in lo .. Len(recorded')
         /\ \A i \in 1 .. Len(b) : b[i] = recorded'[lo + i - 1]
         /\ lo \in DOMAIN recorded' /\ hi \in DOMAIN recorded'
<1>1. /\ Len(recorded) \in Nat
      /\ Len(recorded') = Len(recorded) + 1
      /\ DOMAIN recorded' = 1 .. Len(recorded) + 1
      /\ \A i \in 1 .. Len(recorded) : recorded'[i] = recorded[i]
  BY AppendProperties, LenProperties DEF TypeOK
<1>2. \A i \in 1 .. Len(b) : lo + i - 1 \in 1 .. Len(recorded)
  BY <1>1, LenProperties DEF IsBlock
<1> QED  BY <1>1, <1>2 DEF IsBlock

\* The blocks that have left the batch.
LeftBlocks == wire \cup StoredBlocks \cup {c \in {push} : c # <<>>}

LEMMA LeftBlocksType == TypeOK => LeftBlocks \subseteq Seq(Line)
  BY DEF LeftBlocks, StoredBlocks, TypeOK

\* Any step that records nothing and takes its blocks from those there were.
LEMMA RunsKept ==
  ASSUME RunsInv, TypeOK', UNCHANGED recorded,
         LeftBlocks' \subseteq LeftBlocks \cup {b \in {batch} : b # <<>>},
         batch' \in {batch, <<>>}
  PROVE  RunsInv'
<1>1. (batch # <<>> => IsBlock(batch, Len(recorded) - Len(batch) + 1, Len(recorded)))'
  BY DEF RunsInv, BlocksAreRuns, IsBlock
<1>2. ASSUME NEW b \in LeftBlocks'
      PROVE  \E lo, hi \in DOMAIN recorded : IsBlock(b, lo, hi)
  <2>1. CASE b \in LeftBlocks
    BY <2>1 DEF RunsInv, BlocksAreRuns, LeftBlocks
  <2>2. CASE b = batch /\ b # <<>>
    <3>1. /\ IsBlock(b, Len(recorded) - Len(batch) + 1, Len(recorded))
          /\ DOMAIN recorded = 1 .. Len(recorded) /\ Len(recorded) \in Nat
      BY <2>2, LenProperties DEF RunsInv, BlocksAreRuns, TypeOK
    <3>2. /\ Len(recorded) - Len(batch) + 1 \in DOMAIN recorded
          /\ Len(recorded) \in DOMAIN recorded
      BY <3>1 DEF IsBlock
    <3> QED  BY <3>1, <3>2
  <2> QED  BY <1>2, <2>1, <2>2
<1>3. \A b \in LeftBlocks' : \E lo, hi \in DOMAIN recorded' : IsBlock(b, lo, hi)'
  BY <1>2 DEF IsBlock
<1> QED  BY <1>1, <1>3 DEF RunsInv, BlocksAreRuns, LeftBlocks, IsBlock

(* Whatever Loki stores, and whatever is still under way, is a run of       *)
(* consecutive lines of the stream; the batch is its newest lines.          *)
THEOREM Runs == Spec => []BlocksAreRuns
<1>1. Init => RunsInv
  BY ShipperAssumption DEF Init, RunsInv, TypeOK, BlocksAreRuns, StoredBlocks
<1>2. RunsInv /\ TypeOK' /\ [Next]_shipperVars => RunsInv'
  <2> SUFFICES ASSUME RunsInv, TypeOK', [Next]_shipperVars
               PROVE  RunsInv'
    OBVIOUS
  <2>1. ASSUME NEW l \in Line, Record(l)
        PROVE  RunsInv'
    <3>1. /\ recorded' = Append(recorded, l) /\ batch' = Append(batch, l)
          /\ LeftBlocks' = LeftBlocks
          /\ TypeOK
      BY <2>1 DEF Record, LeftBlocks, StoredBlocks, RunsInv
    <3>2. /\ Len(recorded) \in Nat /\ Len(recorded') = Len(recorded) + 1
          /\ \A i \in 1 .. Len(recorded) : recorded'[i] = recorded[i]
          /\ recorded'[Len(recorded) + 1] = l
          /\ Len(batch) \in Nat /\ Len(batch') = Len(batch) + 1
          /\ \A i \in 1 .. Len(batch) : batch'[i] = batch[i]
          /\ batch'[Len(batch) + 1] = l
      BY <3>1, AppendProperties, LenProperties DEF TypeOK
    <3>3. (batch # <<>> => IsBlock(batch, Len(recorded) - Len(batch) + 1, Len(recorded)))'
      <4>1. CASE batch = <<>>
        <5>1. Len(batch) = 0
          BY <4>1
        <5> QED  BY <3>2, <5>1 DEF IsBlock
      <4>2. CASE batch # <<>>
        <5>1. IsBlock(batch, Len(recorded) - Len(batch) + 1, Len(recorded))
          BY <4>2 DEF RunsInv, BlocksAreRuns
        <5>2. /\ Len(batch) <= Len(recorded)
              /\ \A i \in 1 .. Len(batch) : batch[i] = recorded[Len(recorded) - Len(batch) + i]
          BY <3>2, <5>1 DEF IsBlock
        <5>3. \A i \in 1 .. Len(batch') :
                batch'[i] = recorded'[(Len(recorded') - Len(batch') + 1) + i - 1]
          BY <3>2, <5>2
        <5> QED  BY <3>2, <5>2, <5>3 DEF IsBlock
      <4> QED  BY <4>1, <4>2
    <3>4. \A b \in LeftBlocks' : \E lo, hi \in DOMAIN recorded' : IsBlock(b, lo, hi)'
      <4> SUFFICES ASSUME NEW b \in LeftBlocks
                   PROVE  \E lo, hi \in DOMAIN recorded' : IsBlock(b, lo, hi)'
        BY <3>1
      <4>1. PICK lo \in DOMAIN recorded, hi \in DOMAIN recorded : IsBlock(b, lo, hi)
        BY DEF RunsInv, BlocksAreRuns, LeftBlocks
      <4>2. b \in Seq(Line) /\ lo \in Int /\ hi \in Int
        BY <3>1, LeftBlocksType, LenProperties DEF TypeOK
      <4> QED  BY <3>1, <4>1, <4>2, BlockStays DEF IsBlock
    <3> QED  BY <3>3, <3>4 DEF RunsInv, BlocksAreRuns, LeftBlocks
  <2>2. CASE Flush
    BY <2>2, RunsKept DEF Flush, LeftBlocks, StoredBlocks
  <2>3. CASE PushStored
    <3>1. StoredBlocks' = StoredBlocks \cup {push}
      BY <2>3, StoredAppend DEF PushStored, RunsInv, TypeOK
    <3> QED  BY <2>3, <3>1, RunsKept DEF PushStored, Pushing, LeftBlocks
  <2>4. CASE PushLost
    BY <2>4, RunsKept DEF PushLost, LeftBlocks, StoredBlocks
  <2>5. CASE PushAbandoned
    BY <2>5, RunsKept DEF PushAbandoned, Pushing, LeftBlocks, StoredBlocks
  <2>6. ASSUME NEW block \in wire, LateStore(block)
        PROVE  RunsInv'
    <3>1. StoredBlocks' = StoredBlocks \cup {block}
      BY <2>6, StoredAppend DEF LateStore, RunsInv, TypeOK
    <3> QED  BY <2>6, <3>1, RunsKept DEF LateStore, LeftBlocks
  <2>7. ASSUME NEW block \in wire, LateDrop(block)
        PROVE  RunsInv'
    BY <2>7, RunsKept DEF LateDrop, LeftBlocks, StoredBlocks
  <2>8. CASE UNCHANGED shipperVars
    BY <2>8, RunsKept DEF shipperVars, LeftBlocks, StoredBlocks
  <2> QED
    BY <2>1, <2>2, <2>3, <2>4, <2>5, <2>6, <2>7, <2>8 DEF Next, PushEnds, LokiLate
<1>3. RunsInv => BlocksAreRuns
  BY DEF RunsInv
<1> QED  BY <1>1, <1>2, <1>3, Typing, PTL DEF Spec

-----------------------------------------------------------------------------
\* A run is the subsequence between its ends.
LEMMA RunIsSubSeq ==
  ASSUME TypeOK, NEW b \in Seq(Line), NEW lo \in DOMAIN recorded, NEW hi \in DOMAIN recorded,
         IsBlock(b, lo, hi)
  PROVE  b = SubSeq(recorded, lo, hi) /\ lo <= hi
<1>1. /\ DOMAIN b = 1 .. Len(b) /\ Len(b) \in Nat
      /\ lo \in 1 .. Len(recorded) /\ hi \in lo .. Len(recorded)
      /\ Len(b) = hi - lo + 1
      /\ \A i \in 1 .. Len(b) : b[i] = recorded[lo + i - 1]
  BY LenProperties DEF IsBlock, TypeOK
<1>2. recorded \in Seq(Line) /\ Len(recorded) \in Nat
  BY LenProperties DEF TypeOK
<1>3. lo \in 1 .. Len(recorded) + 1 /\ hi \in lo - 1 .. Len(recorded) /\ lo <= hi
  BY <1>1, <1>2
<1> DEFINE part == SubSeq(recorded, lo, hi)
<1>4. /\ part \in Seq(Line)
      /\ Len(part) = IF lo <= hi THEN hi - lo + 1 ELSE 0
      /\ \A i \in 1 .. hi - lo + 1 : part[i] = recorded[lo + i - 1]
  BY <1>2, <1>3, SubSeqProperties
<1> HIDE DEF part
<1>5. Len(b) = Len(part) /\ \A i \in 1 .. Len(b) : b[i] = part[i]
  BY <1>1, <1>3, <1>4
<1>6. b = part
  BY <1>4, <1>5, SeqEqual
<1> QED  BY <1>3, <1>6 DEF part

\* The step that stores a block of lines nobody has seen is a Deliver step.
LEMMA StoreDelivers ==
  ASSUME TypeOK, NEW b \in Seq(Line),
         stored' = Append(stored, b), UNCHANGED recorded,
         \A c \in StoredBlocks : Range(b) \cap Range(c) = {},
         \E lo, hi \in DOMAIN recorded : IsBlock(b, lo, hi)
  PROVE  Delivery!Next
<1>1. PICK lo \in DOMAIN recorded, hi \in DOMAIN recorded : IsBlock(b, lo, hi)
  OBVIOUS
<1>2. b = SubSeq(recorded, lo, hi) /\ lo <= hi
  BY <1>1, RunIsSubSeq
<1>3. \A k \in DOMAIN stored : Range(stored[k]) \cap Range(b) = {}
  BY DEF StoredBlocks
<1>4. Delivery!Deliver(lo, hi)
  <2>1. \A k \in DOMAIN stored :
          Range(stored[k]) \cap Range(SubSeq(recorded, lo, hi)) = {}
    BY <1>2, <1>3
  <2>2. stored' = Append(stored, SubSeq(recorded, lo, hi))
    BY <1>2
  <2> QED  BY <1>2, <2>1, <2>2 DEF Delivery!Deliver, Delivery!Range, Range
<1> QED  BY <1>4 DEF Delivery!Next

(* The shipper implements LogDelivery: batching, flushing, failed and timed *)
(* out pushes and late arrivals never show as anything but the at-most-once *)
(* delivery of whole blocks of consecutive lines.                           *)
THEOREM Delivering == Spec => DeliverySpec
<1>1. Init => Delivery!Init
  BY DEF Init, Delivery!Init
<1>2. /\ TypeOK /\ OnePlacePerLine /\ BlocksAreRuns
      /\ [Next]_shipperVars
      => [Delivery!Next]_Delivery!deliveryVars
  <2> SUFFICES ASSUME TypeOK, OnePlacePerLine, BlocksAreRuns, [Next]_shipperVars
               PROVE  Delivery!Next \/ UNCHANGED Delivery!deliveryVars
    OBVIOUS
  <2>1. ASSUME NEW l \in Line, Record(l)
        PROVE  Delivery!Next
    BY <2>1 DEF Record, Delivery!Next, Delivery!Record, Delivery!Range, Range
  <2>2. CASE PushStored
    <3>1. stored' = Append(stored, push) /\ push \in Seq(Line) /\ push # <<>>
      BY <2>2 DEF PushStored, Pushing, TypeOK
    <3>2. \A c \in StoredBlocks : Range(push) \cap Range(c) = {}
      BY DEF OnePlacePerLine
    <3>3. \E lo, hi \in DOMAIN recorded : IsBlock(push, lo, hi)
      BY <3>1 DEF BlocksAreRuns
    <3>4. UNCHANGED recorded
      BY <2>2 DEF PushStored
    <3> QED  BY <3>1, <3>2, <3>3, <3>4, StoreDelivers
  <2>3. ASSUME NEW block \in wire, LateStore(block)
        PROVE  Delivery!Next
    <3>1. stored' = Append(stored, block) /\ block \in Seq(Line)
      BY <2>3 DEF LateStore, TypeOK
    <3>2. \A c \in StoredBlocks : Range(block) \cap Range(c) = {}
      BY DEF OnePlacePerLine
    <3>3. \E lo, hi \in DOMAIN recorded : IsBlock(block, lo, hi)
      BY DEF BlocksAreRuns
    <3>4. UNCHANGED recorded
      BY <2>3 DEF LateStore
    <3> QED  BY <3>1, <3>2, <3>3, <3>4, StoreDelivers
  <2>4. CASE Flush \/ PushLost \/ PushAbandoned \/ UNCHANGED shipperVars
    BY <2>4 DEF Flush, PushLost, PushAbandoned, shipperVars, Delivery!deliveryVars
  <2>5. ASSUME NEW block \in wire, LateDrop(block)
        PROVE  UNCHANGED Delivery!deliveryVars
    BY <2>5 DEF LateDrop, Delivery!deliveryVars
  <2> QED
    BY <2>1, <2>2, <2>3, <2>4, <2>5 DEF Next, PushEnds, LokiLate
<1> QED
  BY <1>1, <1>2, Typing, Placing, Runs, PTL DEF Spec, DeliverySpec, Delivery!Spec
=============================================================================
