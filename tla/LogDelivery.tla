---------------------------- MODULE LogDelivery -----------------------------
(***************************************************************************)
(* What the runtime log stream promises, without batches, flushes, HTTP    *)
(* requests or time: every line is handed over once, and whatever reaches  *)
(* Loki reaches it at most once, as a block of consecutive lines that      *)
(* arrives whole or not at all.  Nothing is promised about a line arriving *)
(* at all, and nothing about the order in which blocks arrive.             *)
(***************************************************************************)
EXTENDS Integers, Sequences, Functions

CONSTANT Line     \* log lines; distinct events make distinct lines

VARIABLES
  recorded,       \* the lines handed over so far, in order
  delivered       \* the blocks Loki holds, in the order they arrived

deliveryVars == <<recorded, delivered>>

Init == recorded = <<>> /\ delivered = <<>>

Record(l) ==
  /\ l \notin Range(recorded)
  /\ recorded' = Append(recorded, l)
  /\ UNCHANGED delivered

\* The lines from position lo to position hi arrive, none of them for a second time.
Deliver(lo, hi) ==
  LET block == SubSeq(recorded, lo, hi)
  IN  /\ lo <= hi
      /\ \A k \in DOMAIN delivered : Range(delivered[k]) \cap Range(block) = {}
      /\ delivered' = Append(delivered, block)
      /\ UNCHANGED recorded

Next == \/ \E l \in Line : Record(l)
        \/ \E lo, hi \in DOMAIN recorded : Deliver(lo, hi)

Spec == Init /\ [][Next]_deliveryVars
=============================================================================
