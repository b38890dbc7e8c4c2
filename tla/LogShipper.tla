----------------------------- MODULE LogShipper -----------------------------
(***************************************************************************)
(* The runtime log stream: the batch of runBpfMonitor (cli.cpp), its       *)
(* flush_logs, and LokiClient::push (utils/loki.cpp) over HttpClient.      *)
(*                                                                         *)
(* All calls are made by the one monitor thread, so at most one push is in *)
(* progress, and while it is, nothing else happens to the batch.  A push   *)
(* ends in one of four ways: Loki stores the block and answers 204; it     *)
(* answers anything else; the request fails before Loki has it; or the     *)
(* request fails (60 s timeout, reset) although Loki may already have it,  *)
(* and may still store it at any later time.  push() returns normally in   *)
(* every case and flush_logs never puts the lines back.                    *)
(*                                                                         *)
(* Abstracted: a line is an element of Line, told apart from others by the *)
(* event it is of; its text and its timestamp, a whole second, are left    *)
(* out and may be those of another line.  buildPayload does not escape: a  *)
(* line with a quote, backslash or control character in it (Unescaped)     *)
(* makes the whole payload invalid JSON, which Loki refuses.               *)
(***************************************************************************)
EXTENDS Integers, Sequences, Functions

CONSTANTS
  Line,        \* log lines, one for each event
  Unescaped,   \* the lines that do not survive buildPayload
  Threshold    \* batch size at which the callback flushes: 50 in the code

ShipperConstants ==
  /\ Unescaped \subseteq Line
  /\ Threshold \in Nat \ {0}

ASSUME ShipperAssumption == ShipperConstants

VARIABLES
  recorded,    \* history: every line ever pushed onto the batch, in order
  batch,       \* the vector<LokiEntry> shared by callback and flush
  push,        \* batch_copy, while loki.push is running; <<>> otherwise
  wire,        \* blocks of requests given up on that Loki may still act on
  stored       \* blocks Loki has stored, in the order they arrived

shipperVars == <<recorded, batch, push, wire, stored>>

-----------------------------------------------------------------------------
Pushing == push # <<>>

\* should_flush, as the callback computes it after its push_back.
Full == Len(batch) >= Threshold

Acceptable(block) == Range(block) \cap Unescaped = {}

Init ==
  /\ recorded = <<>>
  /\ batch = <<>>
  /\ push = <<>>
  /\ wire = {}
  /\ stored = <<>>

\* The callback's push_back.  A full batch is flushed before the callback
\* returns, so it never runs with one.
\* (Mutants: the threshold is not looked at; the newest line comes first.)
RecordUnbounded(l) ==
  /\ ~Pushing
  /\ l \notin Range(recorded)
  /\ recorded' = Append(recorded, l)
  /\ batch' = Append(batch, l)
  /\ UNCHANGED <<push, wire, stored>>

RecordFront(l) ==
  /\ ~Pushing /\ ~Full
  /\ l \notin Range(recorded)
  /\ recorded' = Append(recorded, l)
  /\ batch' = <<l>> \o batch
  /\ UNCHANGED <<push, wire, stored>>

Record(l) ==
  /\ ~Pushing /\ ~Full
  /\ l \notin Range(recorded)
  /\ recorded' = Append(recorded, l)
  /\ batch' = Append(batch, l)
  /\ UNCHANGED <<push, wire, stored>>

\* flush_logs up to loki.push: copy and clear under the lock.
\* (Mutant: the clear() is missing.)
FlushKeeps ==
  /\ ~Pushing
  /\ batch # <<>>
  /\ push' = batch
  /\ UNCHANGED <<recorded, batch, wire, stored>>

Flush ==
  /\ ~Pushing
  /\ batch # <<>>
  /\ push' = batch
  /\ batch' = <<>>
  /\ UNCHANGED <<recorded, wire, stored>>

\* 204.
PushStored ==
  /\ Pushing
  /\ Acceptable(push)
  /\ stored' = Append(stored, push)
  /\ push' = <<>>
  /\ UNCHANGED <<recorded, batch, wire>>

\* Any other status, or a failure before the request was sent.
PushLost ==
  /\ Pushing
  /\ push' = <<>>
  /\ UNCHANGED <<recorded, batch, wire, stored>>

\* The client gives up on a request that is on its way.
\* (Mutant: the lines are put back, to be tried again.)
PushAbandonedRetries ==
  /\ Pushing
  /\ wire' = wire \cup {push}
  /\ push' = <<>>
  /\ batch' = push
  /\ UNCHANGED <<recorded, stored>>

PushAbandoned ==
  /\ Pushing
  /\ wire' = wire \cup {push}
  /\ push' = <<>>
  /\ UNCHANGED <<recorded, batch, stored>>

\* How loki.push can end.
PushEnds == PushStored \/ PushLost \/ PushAbandoned

\* Loki acts on an abandoned request, or the network drops it.
LateStore(block) ==
  /\ block \in wire
  /\ Acceptable(block)
  /\ stored' = Append(stored, block)
  /\ wire' = wire \ {block}
  /\ UNCHANGED <<recorded, batch, push>>

LateDrop(block) ==
  /\ block \in wire
  /\ wire' = wire \ {block}
  /\ UNCHANGED <<recorded, batch, push, stored>>

LokiLate == \E block \in wire : LateStore(block) \/ LateDrop(block)

Next ==
  \/ \E l \in Line : Record(l)
  \/ Flush
  \/ PushEnds
  \/ LokiLate

Spec == Init /\ [][Next]_shipperVars

-----------------------------------------------------------------------------
\* Types; the batch never outgrows the threshold that flushes it.
TypeOK ==
  /\ recorded \in Seq(Line)
  /\ batch \in Seq(Line) /\ Len(batch) <= Threshold
  /\ push \in Seq(Line)
  /\ wire \in SUBSET Seq(Line)
  /\ stored \in Seq(Seq(Line))

\* Block b is the lines lo..hi of the history.
IsBlock(b, lo, hi) ==
  /\ lo \in 1 .. Len(recorded) /\ hi \in lo .. Len(recorded)
  /\ Len(b) = hi - lo + 1
  /\ \A i \in 1 .. Len(b) : b[i] = recorded[lo + i - 1]

StoredBlocks == {stored[k] : k \in DOMAIN stored}

\* The lines that have left the batch for good.
Gone == Range(push) \cup UNION {Range(b) : b \in wire \cup StoredBlocks}

(* No line is ever in two places: in the batch, in the push in progress, in *)
(* a request that may still arrive, or in a stored block.  With the blocks  *)
(* at Loki pairwise disjoint, a timed-out push that Loki stores late cannot *)
(* make a line appear twice, because flush_logs never retries.              *)
OnePlacePerLine ==
  /\ Range(batch) \cap Gone = {}
  /\ \A b \in wire \cup StoredBlocks : Range(b) \cap Range(push) = {}
  /\ \A b \in wire, c \in StoredBlocks : Range(b) \cap Range(c) = {}
  /\ \A b, c \in wire : b # c => Range(b) \cap Range(c) = {}
  /\ \A j, k \in DOMAIN stored : j # k => Range(stored[j]) \cap Range(stored[k]) = {}

(* The batch is exactly the newest lines of the history, and every block    *)
(* that left it is a run of consecutive older lines: the clear() of a flush *)
(* removes what was copied, no more and no less.                            *)
BlocksAreRuns ==
  /\ batch # <<>> => IsBlock(batch, Len(recorded) - Len(batch) + 1, Len(recorded))
  /\ \A b \in wire \cup StoredBlocks \cup {c \in {push} : c # <<>>} :
       \E lo, hi \in DOMAIN recorded : IsBlock(b, lo, hi)

(* The shipper keeps the promise of LogDelivery: the blocks Loki stores are  *)
(* runs of lines that never arrived before.                                 *)
Delivery == INSTANCE LogDelivery WITH delivered <- stored

DeliverySpec == Delivery!Spec
=============================================================================
