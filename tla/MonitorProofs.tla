--------------------------- MODULE MonitorProofs ---------------------------
(***************************************************************************)
(* Theorems about Monitor, for every set of processes and CPUs, every      *)
(* interval and every bound: the monitor uses Tracer, SyscallGraph and     *)
(* LogShipper as those modules describe, so what is proved of them holds   *)
(* of the whole; its two timers keep what they promise, its exit log       *)
(* describes the run, and nothing leads back into the loop once the        *)
(* container is gone.                                                      *)
(***************************************************************************)
EXTENDS Monitor, SequenceTheorems, FiniteSetTheorems, TLAPS

\* The components again, with their theorems.
TP == INSTANCE TracerProofs
LP == INSTANCE LogShipperProofs WITH Line <- T!TraceEvent,
                                     Unescaped <- {e \in T!TraceEvent : e.pid \in BadComm},
                                     recorded <- seen
GP == INSTANCE SyscallGraphProofs WITH Type <- Type \cup {"exit"}, MaxEvents <- MaxHits

-----------------------------------------------------------------------------
(* Every step of the monitor is a step of Tracer or leaves it alone.        *)
THEOREM TracerUsed == Spec => T!Spec
<1>1. Init => T!Init
  BY DEF Init
<1>2. [Next]_vars => [T!Next]_(T!tracerVars)
  <2> SUFFICES ASSUME [Next]_vars PROVE [T!Next]_(T!tracerVars)
    OBVIOUS
  <2> USE DEF T!tracerVars, T!kernelVars, T!runnerVars, kernelVars, runnerVars
  <2>1. CASE Load \/ Start \/ Started
    BY <2>1 DEF Load, Start, Started, T!Next, T!Runner
  <2>2. CASE Fails \/ \E delivered \in BOOLEAN : Done(delivered)
    BY <2>2 DEF Fails, Done, T!Next, T!Runner
  <2>3. CASE ChildGone
    BY <2>3 DEF ChildGone, T!Next
  <2>4. CASE Poll \/ Callback \/ NextRing
    BY <2>4 DEF Poll, Callback, NextRing, T!Next, T!Runner
  <2>5. CASE ChildAlive \/ PollReturns \/ FlushNothing \/ FlushStarts \/ FlushEnds
    BY <2>5 DEF ChildAlive, PollReturns, FlushNothing, FlushStarts, FlushEnds
  <2>6. CASE GnnTimer \/ FinalGnn \/ SaveGraph \/ \E outcome \in GnnOutcomes : FinalPredict(outcome)
    BY <2>6 DEF GnnTimer, FinalGnn, SaveGraph, FinalPredict
  <2>7. CASE Checks \/ LokiLate \/ Tick
    BY <2>7 DEF Checks, LokiLate, Tick
  <2>8. CASE System
    BY <2>8 DEF System, T!Next
  <2>9. CASE UNCHANGED vars
    BY <2>9 DEF vars
  <2> QED  BY <2>1, <2>2, <2>3, <2>4, <2>5, <2>6, <2>7, <2>8, <2>9 DEF Next, MonitorThread
<1> QED  BY <1>1, <1>2, PTL DEF Spec, T!Spec

\* The tracer of the theorems is this one.
LEMMA TracerIsTracer == T!Spec => TP!Spec
<1>1. T!Init => TP!Init
  BY DEF T!Init, TP!Init
<1>2. [T!Next]_(T!tracerVars) => [TP!Next]_(TP!tracerVars)
  <2>1. T!tracerVars = TP!tracerVars
    BY DEF T!tracerVars, TP!tracerVars, T!kernelVars, TP!kernelVars, T!runnerVars, TP!runnerVars
  <2> USE DEF T!kernelVars, TP!kernelVars, T!runnerVars, TP!runnerVars
  <2>2. T!Kernel => TP!Kernel
    BY DEF T!Kernel, TP!Kernel, T!Syscall, TP!Syscall, T!Spawn, TP!Spawn, T!Exit, TP!Exit,
           T!ChildExits, TP!ChildExits, T!ChildZombie, TP!ChildZombie, T!Trace, TP!Trace,
           T!Without, TP!Without
  <2>3. T!BeginPoll => TP!BeginPoll
    BY DEF T!BeginPoll, TP!BeginPoll, T!SetToSeqs, TP!SetToSeqs,
           T!Cardinality, TP!Cardinality
  <2>4. T!Runner => TP!Runner
    BY <2>3 DEF T!Runner, TP!Runner, T!Construct, TP!Construct, T!SetCallback, TP!SetCallback,
           T!AttachProbe, TP!AttachProbe, T!OpenBuffer, TP!OpenBuffer, T!Destroy, TP!Destroy,
           T!HandleEvent, TP!HandleEvent, T!NextRing, TP!NextRing
  <2>5. T!Reap => TP!Reap
    BY DEF T!Reap, TP!Reap
  <2>6. T!Next => TP!Next
    BY <2>2, <2>4, <2>5 DEF T!Next, TP!Next
  <2> QED  BY <2>1, <2>6 DEF T!tracerVars, TP!tracerVars
<1> QED  BY <1>1, <1>2, PTL DEF T!Spec, TP!Spec

\* What is proved of Tracer holds here: ranges, no hit is handed over twice, the
\* events of one CPU are in order, and every event names a process and a CPU it
\* may run on.
Traced == T!TypeOK /\ T!EveryHitInOnePlace /\ T!CpuOrderKept /\ TP!EventsPlausible

LEMMA TracerHolds == T!Spec => []Traced
<1>1. T!Spec => TP!Spec
  BY TracerIsTracer
<1>2. TP!TracerConstants
  BY ComponentAssumptions DEF T!TracerConstants, TP!TracerConstants, T!IsFiniteSet, TP!IsFiniteSet
<1>3. TP!Spec => []TP!TypeOK
  BY <1>2, TP!Typing
<1>4. TP!Spec => []TP!EveryHitInOnePlace
  BY <1>2, TP!Accounting
<1>5. TP!Spec => []TP!CpuOrderKept
  BY <1>2, TP!CpuOrder
<1>6. TP!Spec => []TP!EventsPlausible
  BY <1>2, TP!Plausibility
<1>7. TP!TypeOK => T!TypeOK
  BY DEF T!TypeOK, TP!TypeOK, T!TraceEvent, TP!TraceEvent
<1>8. TP!EveryHitInOnePlace => T!EveryHitInOnePlace
  BY DEF TP!EveryHitInOnePlace, T!EveryHitInOnePlace, T!InRings, TP!InRings, T!Seen, TP!Seen
<1>9. TP!CpuOrderKept => T!CpuOrderKept
  BY DEF TP!CpuOrderKept, T!CpuOrderKept, T!Seen, TP!Seen
<1> QED  BY <1>1, <1>3, <1>4, <1>5, <1>6, <1>7, <1>8, <1>9, PTL DEF Traced

-----------------------------------------------------------------------------
(* The batch.  It is empty while a push runs, and full only on the way into *)
(* flush_logs; the callback runs with callback_ set and no push running.    *)
BatchInv ==
  /\ ret \in {"drain", "gnnTimer", "finalGnn"}
  /\ runner \in {"starting", "open"} => callback
  /\ pc \notin {"start", "done", "failed"} => runner = "open"
  /\ batch \in Seq(T!TraceEvent)
  /\ push # <<>> <=> pc = "push"
  /\ pc \in {"start", "push"} => batch = <<>>
  /\ pc # "flush" => Len(batch) < Threshold

LEMMA BatchInit == Init => BatchInv
  BY ComponentAssumptions DEF Init, T!Init, BatchInv, L!ShipperConstants

\* The event the callback is given comes from a ring: it is typed and was not seen before.
LEMMA CallbackEvent ==
  ASSUME Traced, T!HandleEvent
  PROVE  /\ Head(ring[Head(ready)]) \in T!TraceEvent
         /\ Head(ring[Head(ready)]) \notin L!Range(seen)
<1> DEFINE c == Head(ready)
           e == Head(ring[c])
<1>1. c \in Cpu
  BY DEF Traced, T!TypeOK, T!HandleEvent
<1>2. ring[c] \in Seq(T!TraceEvent) /\ ring[c] # <<>>
  BY <1>1 DEF Traced, T!TypeOK, T!HandleEvent
<1>3. 1 \in DOMAIN ring[c] /\ e = ring[c][1] /\ e \in T!TraceEvent
  BY <1>2
<1>4. e \in T!InRings
  BY <1>1, <1>3 DEF T!InRings
<1>5. L!Range(seen) = T!Seen
  BY DEF L!Range, T!Seen
<1> QED  BY <1>3, <1>4, <1>5 DEF Traced, T!EveryHitInOnePlace

LEMMA BatchStep == Traced /\ BatchInv /\ [Next]_vars => BatchInv'
<1> SUFFICES ASSUME Traced, BatchInv, [Next]_vars PROVE BatchInv'
  OBVIOUS
<1> USE DEF BatchInv, kernelVars, runnerVars, T!kernelVars, T!runnerVars, shipperVars, Goto, CallFlush
<1>1. CASE Load \/ Start \/ Started
  BY <1>1, ComponentAssumptions DEF Load, Start, Started, T!Construct, T!SetCallback, T!AttachProbe,
     T!OpenBuffer, L!ShipperConstants
<1>2. CASE Fails \/ \E delivered \in BOOLEAN : Done(delivered)
  BY <1>2 DEF Fails, Done, T!Destroy
<1>3. CASE ChildGone \/ ChildAlive \/ Poll \/ NextRing \/ PollReturns
  BY <1>3 DEF ChildGone, ChildAlive, Poll, NextRing, PollReturns, T!Reap, T!BeginPoll, T!NextRing
<1>4. CASE Callback
  <2> DEFINE e == Head(ring[Head(ready)])
  <2>1. e \in T!TraceEvent
    BY <1>4, CallbackEvent DEF Callback
  <2>2. batch' = Append(batch, e) /\ FlushIfFull /\ pc = "drain"
    BY <1>4 DEF Callback
  <2>3. batch' \in Seq(T!TraceEvent)
    BY <2>1, <2>2
  <2>4. UNCHANGED <<push, runner, callback>>
    BY <1>4 DEF Callback, T!HandleEvent
  <2>5. CASE Len(batch') >= Threshold
    BY <2>2, <2>3, <2>4, <2>5 DEF FlushIfFull
  <2>6. CASE ~(Len(batch') >= Threshold)
    BY <2>2, <2>3, <2>4, <2>6, ComponentAssumptions DEF FlushIfFull, L!ShipperConstants
  <2> QED  BY <2>5, <2>6
<1>5. CASE FlushNothing \/ FlushStarts \/ FlushEnds
  <2>1. Len(<<>>) < Threshold
    BY ComponentAssumptions DEF L!ShipperConstants
  <2>2. CASE FlushNothing
    BY <2>1, <2>2 DEF FlushNothing
  <2>3. CASE FlushStarts
    BY <2>1, <2>3 DEF FlushStarts, L!Flush
  <2>4. CASE FlushEnds
    BY <2>1, <2>4 DEF FlushEnds, L!PushEnds, L!PushStored, L!PushLost, L!PushAbandoned
  <2> QED  BY <1>5, <2>2, <2>3, <2>4
<1>6. CASE GnnTimer \/ FinalGnn \/ SaveGraph \/ \E outcome \in GnnOutcomes : FinalPredict(outcome)
  BY <1>6 DEF GnnTimer, FinalGnn, SaveGraph, FinalPredict
<1>7. CASE Checks \/ LokiLate \/ Tick
  BY <1>7 DEF Checks, LokiLate, Tick, L!LokiLate, L!LateStore, L!LateDrop
<1>8. CASE System
  BY <1>8 DEF System, T!Kernel, T!Syscall, T!Spawn, T!Exit, T!ChildExits, T!ChildZombie
<1>9. CASE UNCHANGED vars
  BY <1>9 DEF vars
<1> QED  BY <1>1, <1>2, <1>3, <1>4, <1>5, <1>6, <1>7, <1>8, <1>9 DEF Next, MonitorThread

LEMMA Batched == Spec => [](Traced /\ BatchInv)
<1>1. Spec => []Traced
  BY TracerUsed, TracerHolds
<1> QED  BY <1>1, BatchInit, BatchStep, PTL DEF Spec

(* The monitor uses the shipper as LogShipper describes: it never appends   *)
(* to a full batch or while a push is running, never records an event twice *)
(* and never puts a line back.                                              *)
THEOREM ShipperUsed == Spec => ShipperSpec
<1>1. Init => L!Init
  BY DEF Init, T!Init, L!Init
<1>2. Traced /\ BatchInv /\ [Next]_vars => [L!Next]_(L!shipperVars)
  <2> SUFFICES ASSUME Traced, BatchInv, [Next]_vars PROVE [L!Next]_(L!shipperVars)
    OBVIOUS
  <2> USE DEF L!shipperVars, shipperVars, kernelVars, runnerVars, T!kernelVars, T!runnerVars
  <2>1. CASE Load \/ Start \/ Started
    BY <2>1 DEF Load, Start, Started, T!Construct, T!SetCallback, T!AttachProbe, T!OpenBuffer
  <2>2. CASE Fails \/ \E delivered \in BOOLEAN : Done(delivered)
    BY <2>2 DEF Fails, Done, T!Destroy
  <2>3. CASE ChildGone \/ ChildAlive \/ Poll \/ NextRing \/ PollReturns
    BY <2>3 DEF ChildGone, ChildAlive, Poll, NextRing, PollReturns, T!Reap, T!BeginPoll, T!NextRing
  <2>4. CASE Callback
    <3> DEFINE e == Head(ring[Head(ready)])
    <3>1. e \in T!TraceEvent /\ e \notin L!Range(seen)
      BY <2>4, CallbackEvent DEF Callback
    <3>2. pc = "drain" /\ callback
      BY <2>4 DEF Callback, BatchInv
    <3>3. ~L!Pushing /\ ~L!Full
      BY <3>2, ComponentAssumptions DEF BatchInv, L!Pushing, L!Full, L!ShipperConstants
    <3>4. seen' = Append(seen, e) /\ batch' = Append(batch, e) /\ UNCHANGED <<push, wire, stored>>
      BY <2>4, <3>2 DEF Callback, T!HandleEvent
    <3>5. L!Record(e)
      BY <3>1, <3>3, <3>4 DEF L!Record
    <3> QED  BY <3>1, <3>5 DEF L!Next
  <2>5. CASE FlushNothing \/ FlushStarts \/ FlushEnds
    BY <2>5 DEF FlushNothing, FlushStarts, FlushEnds, L!Next
  <2>6. CASE GnnTimer \/ FinalGnn \/ SaveGraph \/ \E outcome \in GnnOutcomes : FinalPredict(outcome)
    BY <2>6 DEF GnnTimer, FinalGnn, SaveGraph, FinalPredict
  <2>7. CASE Checks \/ LokiLate \/ Tick
    BY <2>7 DEF Checks, LokiLate, Tick, L!Next
  <2>8. CASE System
    BY <2>8 DEF System, T!Kernel, T!Syscall, T!Spawn, T!Exit, T!ChildExits, T!ChildZombie
  <2>9. CASE UNCHANGED vars
    BY <2>9 DEF vars
  <2> QED  BY <2>1, <2>2, <2>3, <2>4, <2>5, <2>6, <2>7, <2>8, <2>9 DEF Next, MonitorThread
<1> QED  BY <1>1, <1>2, Batched, PTL DEF Spec, ShipperSpec, L!Spec

\* The shipper of the theorems is this one.
LEMMA ShipperIsShipper == L!Spec => LP!Spec
<1>1. L!Init => LP!Init
  BY DEF L!Init, LP!Init
<1>2. [L!Next]_(L!shipperVars) => [LP!Next]_(LP!shipperVars)
  <2>1. L!Next => LP!Next
    BY DEF L!Next, LP!Next, L!Record, LP!Record, L!Full, LP!Full, L!Pushing, LP!Pushing,
           L!Range, LP!Range, L!Flush, LP!Flush, L!PushEnds, LP!PushEnds,
           L!PushStored, LP!PushStored, L!Acceptable, LP!Acceptable, L!PushLost, LP!PushLost,
           L!PushAbandoned, LP!PushAbandoned, L!LokiLate, LP!LokiLate,
           L!LateStore, LP!LateStore, L!LateDrop, LP!LateDrop
  <2> QED  BY <2>1 DEF L!shipperVars, LP!shipperVars
<1> QED  BY <1>1, <1>2, PTL DEF L!Spec, LP!Spec

(* What LogDelivery promises of the shipper holds of the whole monitor: no  *)
(* event reaches Loki twice, and events reach it in runs.                   *)
THEOREM EventsDelivered == Spec => L!DeliverySpec
<1>1. L!Spec => LP!Spec
  BY ShipperIsShipper
<1>2. LP!ShipperConstants
  BY ComponentAssumptions DEF L!ShipperConstants, LP!ShipperConstants
<1>3. LP!Spec => LP!DeliverySpec
  BY <1>2, LP!Delivering
<1>4. LP!DeliverySpec => L!DeliverySpec
  <2>1. LP!Delivery!Init => L!Delivery!Init
    BY DEF LP!Delivery!Init, L!Delivery!Init
  <2>2. [LP!Delivery!Next]_(LP!Delivery!deliveryVars) => [L!Delivery!Next]_(L!Delivery!deliveryVars)
    BY DEF LP!Delivery!Next, L!Delivery!Next, LP!Delivery!Record, L!Delivery!Record,
           LP!Delivery!Deliver, L!Delivery!Deliver, LP!Delivery!Range, L!Delivery!Range,
           LP!Delivery!deliveryVars, L!Delivery!deliveryVars
  <2> QED  BY <2>1, <2>2, PTL DEF LP!DeliverySpec, L!DeliverySpec, LP!Delivery!Spec, L!Delivery!Spec
<1> QED  BY <1>1, <1>3, <1>4, ShipperUsed, PTL DEF ShipperSpec

-----------------------------------------------------------------------------
(* The timers.  A check is stamped with the time it starts, so none is      *)
(* stamped after last_gnn; a batch that is not flushed when poll() returns  *)
(* is young, and stays as it is until the end of the turn.                  *)

TimerInv ==
  /\ clock \in Nat /\ now \in 0 .. clock /\ lastFlush \in 0 .. clock /\ lastGnn \in 0 .. clock
  /\ ret \in {"drain", "gnnTimer", "finalGnn"}
  /\ pc = "start" => batch = <<>> /\ events = <<>>
  /\ pc = "push" => batch = <<>>
  /\ pc = "gnnTimer" => (batch # <<>> => now - lastFlush < FlushInterval)
  /\ NothingOverdue

LEMMA TimerInit == Init => TimerInv
  BY DEF Init, G!Init, TimerInv, NothingOverdue

LEMMA TimerStep == TimerInv /\ [Next]_vars => TimerInv'
<1> SUFFICES ASSUME TimerInv, [Next]_vars PROVE TimerInv'
  OBVIOUS
<1> USE MonitorAssumption DEF TimerInv, NothingOverdue, graphVars, shipperVars, timerVars, Goto, CallFlush
<1>1. CASE Load \/ Start \/ Started
  BY <1>1 DEF Load, Start, Started
<1>2. CASE Fails \/ \E delivered \in BOOLEAN : Done(delivered)
  BY <1>2 DEF Fails, Done
<1>3. CASE ChildGone \/ ChildAlive \/ Poll \/ NextRing
  BY <1>3 DEF ChildGone, ChildAlive, Poll, NextRing
<1>4. CASE PollReturns
  BY <1>4 DEF PollReturns, FlushDue
<1>5. CASE Callback
  BY <1>5 DEF Callback, FlushIfFull
<1>6. CASE FlushNothing \/ FlushStarts \/ FlushEnds
  BY <1>6 DEF FlushNothing, FlushStarts, FlushEnds, L!Flush, L!PushEnds, L!PushStored,
     L!PushLost, L!PushAbandoned
<1>7. CASE GnnTimer
  BY <1>7 DEF GnnTimer, RunGnn
<1>8. CASE FinalGnn \/ SaveGraph \/ \E outcome \in GnnOutcomes : FinalPredict(outcome)
  BY <1>8 DEF FinalGnn, RunGnn, SaveGraph, FinalPredict
<1>9. CASE Checks \/ Tick \/ System
  BY <1>9 DEF Checks, Tick, System
<1>10. CASE LokiLate
  BY <1>10 DEF LokiLate, L!LokiLate, L!LateStore, L!LateDrop
<1>11. CASE UNCHANGED vars
  BY <1>11 DEF vars
<1> QED  BY <1>1, <1>2, <1>3, <1>4, <1>5, <1>6, <1>7, <1>8, <1>9, <1>10, <1>11 DEF Next, MonitorThread

(* At the end of each turn of the loop nothing is overdue that was due when *)
(* poll() returned.                                                         *)
THEOREM Timely == Spec => []NothingOverdue
<1>1. TimerInv => NothingOverdue
  BY DEF TimerInv
<1> QED  BY <1>1, TimerInit, TimerStep, PTL DEF Spec

-----------------------------------------------------------------------------
(* The checks.  None is stamped after last_gnn, so the next one, which the  *)
(* timer starts when the loop's time is an interval past last_gnn, is an    *)
(* interval past all of them.                                               *)
Check == [ts : Nat, size : Nat, phase : {"predict", "push", "pushed", "over"}, by : Nat]

SpacingInv ==
  /\ seq \in Nat /\ events \in Seq([seq : Nat, type : Type \cup {"exit"}, pid : Pid])
  /\ checks \in Seq(Check)
  /\ \A i \in DOMAIN checks : checks[i].ts <= lastGnn
  /\ ChecksSpaced

Final == {"save", "predict", "exitLog", "done"}

\* Changing the phases and deadlines of the checks changes none of this.
LEMMA Relabelled ==
  ASSUME SpacingInv, UNCHANGED <<lastGnn, seq, events>>,
         checks' = [k \in DOMAIN checks |-> checks'[k]],
         \A k \in DOMAIN checks : checks'[k] \in Check /\ checks'[k].ts = checks[k].ts,
         pc' \in Final \/ pc \notin Final
  PROVE  SpacingInv'
<1>1. DOMAIN checks = 1 .. Len(checks) /\ Len(checks) \in Nat
  BY DEF SpacingInv
<1>2. checks' \in [1 .. Len(checks) -> Check]
  BY <1>1
<1>3. checks' \in Seq(Check) /\ Len(checks') = Len(checks) /\ DOMAIN checks' = DOMAIN checks
  BY <1>1, <1>2
<1>4. Timed' \subseteq Timed
  BY <1>3 DEF Timed, Final
<1>5. \A i \in Timed : checks'[i].ts = checks[i].ts
  BY DEF Timed
<1> QED  BY <1>3, <1>4, <1>5 DEF SpacingInv, ChecksSpaced

\* So does a step that leaves the checks alone.
LEMMA ChecksLeft ==
  ASSUME SpacingInv, UNCHANGED <<checks, lastGnn, seq, events>>, pc' \in Final \/ pc \notin Final
  PROVE  SpacingInv'
<1>1. \A k \in DOMAIN checks : checks[k] \in Check
  BY DEF SpacingInv
<1>2. checks = [k \in DOMAIN checks |-> checks[k]]
  BY DEF SpacingInv
<1> QED  BY <1>1, <1>2, Relabelled

\* A check that run_gnn starts is stamped with the clock, which is past every
\* earlier stamp, by the interval unless the check is the one after the loop.
LEMMA OneMore ==
  ASSUME SpacingInv, TimerInv, RunGnn, UNCHANGED <<clock, now>>, UNCHANGED graphVars,
         \/ pc = "finalGnn" /\ pc' = "save"
         \/ pc = "gnnTimer" /\ pc' = "wait" /\ now - lastGnn >= GnnInterval
  PROVE  SpacingInv'
<1>1. CASE events = <<>>
  <2>1. UNCHANGED <<checks, lastGnn>>
    BY <1>1 DEF RunGnn
  <2>2. Timed' \subseteq Timed
    BY <2>1 DEF Timed
  <2> QED  BY <2>1, <2>2 DEF SpacingInv, ChecksSpaced, graphVars
<1>2. CASE events # <<>>
  <2> DEFINE c == [ts |-> clock, size |-> Len(events), phase |-> "predict", by |-> clock + HttpTimeout]
  <2>1. c \in Check
    BY MonitorAssumption DEF SpacingInv, TimerInv, Check
  <2>2. checks' = Append(checks, c) /\ lastGnn' = clock
    BY <1>2 DEF RunGnn
  <2>3. c.ts = clock /\ clock \in Nat /\ lastGnn \in Nat /\ now \in Nat /\ lastGnn <= clock /\ now <= clock
    BY DEF TimerInv
  <2> HIDE DEF c
  <2>4. /\ checks' \in Seq(Check) /\ Len(checks') = Len(checks) + 1
        /\ \A i \in DOMAIN checks : checks'[i] = checks[i]
        /\ checks'[Len(checks) + 1] = c
        /\ DOMAIN checks' = DOMAIN checks \cup {Len(checks) + 1}
    BY <2>1, <2>2 DEF SpacingInv
  <2>5. \A i \in DOMAIN checks : checks[i].ts \in Nat /\ checks[i].ts <= lastGnn
    <3>1. \A i \in DOMAIN checks : checks[i] \in Check
      BY DEF SpacingInv
    <3> QED  BY <3>1 DEF SpacingInv, Check
  <2>6. \A i \in DOMAIN checks' : checks'[i].ts <= lastGnn'
    BY <2>2, <2>3, <2>4, <2>5
  <2>7. Len(checks) \in Nat /\ DOMAIN checks = 1 .. Len(checks)
    BY DEF SpacingInv
  <2>8. ASSUME NEW i \in Timed', NEW j \in Timed', i < j
        PROVE  checks'[j].ts - checks'[i].ts >= GnnInterval
    <3>1. i \in DOMAIN checks /\ i \in Timed
      <4>1. i \in 1 .. Len(checks) + 1 /\ j \in 1 .. Len(checks) + 1
        BY <2>4, <2>7 DEF Timed
      <4>2. i \in 1 .. Len(checks)
        BY <4>1, <2>7, <2>8
      <4> QED  BY <4>2, <2>7 DEF Timed
    <3>2. CASE j \in DOMAIN checks
      <4>1. j \in Timed
        BY <3>2, <2>4, <2>7, <2>8 DEF Timed
      <4> QED  BY <3>1, <3>2, <4>1, <2>4, <2>8 DEF SpacingInv, ChecksSpaced
    <3>3. CASE j = Len(checks) + 1
      <4>1. pc' = "wait" /\ now - lastGnn >= GnnInterval
        BY <3>3, <2>4, <2>7 DEF Timed
      <4>2. checks'[j].ts = clock /\ checks'[i].ts \in Nat /\ checks'[i].ts <= lastGnn
        BY <3>1, <3>3, <2>3, <2>4, <2>5
      <4> QED  BY <4>1, <4>2, <2>3, MonitorAssumption
    <3> QED  BY <3>2, <3>3, <2>4 DEF Timed
  <2> QED  BY <2>4, <2>6, <2>8 DEF SpacingInv, ChecksSpaced, graphVars
<1> QED  BY <1>1, <1>2

LEMMA SpacingStep == Traced /\ TimerInv /\ SpacingInv /\ [Next]_vars => SpacingInv'
<1> SUFFICES ASSUME Traced, TimerInv, SpacingInv, [Next]_vars PROVE SpacingInv'
  OBVIOUS
<1> USE DEF graphVars, timerVars, Goto, CallFlush
<1>1. \A k \in DOMAIN checks : checks[k] \in Check
  BY DEF SpacingInv
<1>2. CASE Load \/ Start \/ Started
  <2>1. CASE Load
    <3>1. checks' = checks /\ lastGnn' = clock /\ lastGnn <= clock /\ UNCHANGED <<seq, events, pc>>
      BY <2>1 DEF Load, TimerInv
    <3>2. Timed' = Timed
      BY <3>1 DEF Timed
    <3>3. \A k \in DOMAIN checks : checks[k].ts <= clock
      BY <1>1, <3>1 DEF SpacingInv, TimerInv, Check
    <3> QED  BY <3>1, <3>2, <3>3 DEF SpacingInv, ChecksSpaced
  <2>2. CASE Start \/ Started
    BY <2>2, ChecksLeft DEF Start, Started, Final
  <2> QED  BY <1>2, <2>1, <2>2
<1>3. CASE Fails \/ \E delivered \in BOOLEAN : Done(delivered)
  <2>1. \A k \in DOMAIN checks : /\ [checks[k] EXCEPT !.phase = "over"] \in Check
                                /\ [checks[k] EXCEPT !.phase = "over"].ts = checks[k].ts
    BY <1>1 DEF Check
  <2>2. /\ checks' = [k \in DOMAIN checks |-> checks'[k]]
        /\ \A k \in DOMAIN checks : checks'[k] \in {checks[k], [checks[k] EXCEPT !.phase = "over"]}
        /\ UNCHANGED <<lastGnn, seq, events>>
        /\ pc' \in Final \/ pc \notin Final
    BY <1>3 DEF Fails, Done, Final
  <2> QED  BY <1>1, <2>1, <2>2, Relabelled
<1>4. CASE ChildGone \/ ChildAlive \/ Poll \/ NextRing \/ PollReturns
  BY <1>4, ChecksLeft DEF ChildGone, ChildAlive, Poll, NextRing, PollReturns, Final
<1>5. CASE Callback
  <2> DEFINE e == Head(ring[Head(ready)])
  <2>1. e \in T!TraceEvent
    BY <1>5, CallbackEvent DEF Callback
  <2>2. /\ events' = Append(events, [seq |-> seq, type |-> e.type, pid |-> e.pid])
        /\ seq' = (seq + 1) % SeqLimit
        /\ UNCHANGED <<checks, lastGnn>> /\ pc = "drain"
    BY <1>5 DEF Callback, G!AddEvent, G!NextSeq
  <2>3. e.type \in Type \cup {"exit"} /\ e.pid \in Pid
    BY <2>1 DEF T!TraceEvent
  <2>4. seq' \in Nat /\ events' \in Seq([seq : Nat, type : Type \cup {"exit"}, pid : Pid])
    BY <2>2, <2>3, ComponentAssumptions DEF SpacingInv, G!GraphAssumption
  <2>5. ChecksSpaced'
    <3>1. Timed' \subseteq Timed
      BY <2>2 DEF Timed
    <3> QED  BY <2>2, <3>1 DEF SpacingInv, ChecksSpaced
  <2> QED  BY <2>2, <2>4, <2>5 DEF SpacingInv
<1>6. CASE FlushNothing \/ FlushStarts \/ FlushEnds
  BY <1>6, ChecksLeft DEF FlushNothing, FlushStarts, FlushEnds, Final
<1>7. CASE GnnTimer \/ FinalGnn
  <2>1. CASE (GnnTimer /\ now - lastGnn >= GnnInterval) \/ FinalGnn
    BY <2>1, OneMore DEF GnnTimer, FinalGnn
  <2>2. CASE GnnTimer /\ ~(now - lastGnn >= GnnInterval)
    BY <2>2, ChecksLeft DEF GnnTimer, Final
  <2> QED  BY <1>7, <2>1, <2>2
<1>8. CASE SaveGraph \/ \E outcome \in GnnOutcomes : FinalPredict(outcome)
  BY <1>8, ChecksLeft DEF SaveGraph, FinalPredict, Final
<1>9. CASE Checks
  <2>1. PICK i \in DOMAIN checks : \/ \E outcome \in GnnOutcomes : CheckPredicts(i, outcome)
                                   \/ \E delivered \in BOOLEAN : CheckPushEnds(i, delivered)
    BY <1>9 DEF Checks
  <2>2. PICK phase \in {"over", "push", "pushed"}, by1 \in {checks[i].by, clock + HttpTimeout} :
          checks' = [checks EXCEPT ![i] = [checks[i] EXCEPT !.phase = phase, !.by = by1]]
    <3>1. CASE \E outcome \in GnnOutcomes : CheckPredicts(i, outcome)
      BY <3>1 DEF CheckPredicts
    <3>2. CASE \E delivered \in BOOLEAN : CheckPushEnds(i, delivered)
      BY <1>1, <3>2 DEF CheckPushEnds, Check
    <3> QED  BY <2>1, <3>1, <3>2
  <2>3. by1 \in Nat
    BY <1>1, MonitorAssumption DEF Check, TimerInv
  <2>4. /\ [checks[i] EXCEPT !.phase = phase, !.by = by1] \in Check
        /\ [checks[i] EXCEPT !.phase = phase, !.by = by1].ts = checks[i].ts
    BY <1>1, <2>3 DEF Check
  <2>5. /\ checks' = [k \in DOMAIN checks |-> checks'[k]]
        /\ \A k \in DOMAIN checks : checks'[k] \in Check /\ checks'[k].ts = checks[k].ts
    BY <1>1, <2>2, <2>4
  <2>6. UNCHANGED <<lastGnn, seq, events, pc>>
    BY <1>9 DEF Checks
  <2> QED  BY <2>5, <2>6, Relabelled
<1>10. CASE System \/ LokiLate \/ Tick
  BY <1>10, ChecksLeft DEF System, LokiLate, Tick
<1>11. CASE UNCHANGED vars
  BY <1>11, ChecksLeft DEF vars
<1> QED  BY <1>2, <1>3, <1>4, <1>5, <1>6, <1>7, <1>8, <1>9, <1>10, <1>11 DEF Next, MonitorThread

LEMMA SpacingInit == Init => SpacingInv
  BY DEF Init, G!Init, SpacingInv, ChecksSpaced, Timed

(* Two GNN checks of the timer start at least the interval apart.           *)
THEOREM Spacing == Spec => []ChecksSpaced
<1>1. Spec => []Traced
  BY TracerUsed, TracerHolds
<1>2. Spec => []TimerInv
  BY TimerInit, TimerStep, PTL DEF Spec
<1>3. Spec => []SpacingInv
  BY <1>1, <1>2, SpacingInit, SpacingStep, PTL DEF Spec
<1>4. SpacingInv => ChecksSpaced
  BY DEF SpacingInv
<1> QED  BY <1>3, <1>4, PTL

-----------------------------------------------------------------------------
\* The event the callback is given has not been seen, so there was room for it.
LEMMA RoomForEvent ==
  ASSUME Traced, T!HandleEvent
  PROVE  Len(seen) < MaxHits
<1> DEFINE e == Head(ring[Head(ready)])
           n == Len(seen)
           at == [i \in 1 .. n + 1 |-> IF i = n + 1 THEN e.at ELSE seen[i].at]
<1>1. e \in T!TraceEvent /\ e \in T!InRings /\ e \notin T!Seen
  <2> DEFINE c == Head(ready)
  <2>1. c \in Cpu
    BY DEF Traced, T!TypeOK, T!HandleEvent
  <2>2. ring[c] \in Seq(T!TraceEvent) /\ ring[c] # <<>>
    BY <2>1 DEF Traced, T!TypeOK, T!HandleEvent
  <2>3. 1 \in DOMAIN ring[c] /\ e = ring[c][1] /\ e \in T!TraceEvent
    BY <2>2
  <2>4. e \in T!InRings
    BY <2>1, <2>3 DEF T!InRings
  <2> QED  BY <2>3, <2>4 DEF Traced, T!EveryHitInOnePlace
<1>2. n \in Nat /\ DOMAIN seen = 1 .. n /\ \A i \in 1 .. n : seen[i] \in T!TraceEvent /\ seen[i] \in T!Seen
  BY DEF Traced, T!TypeOK, T!Seen
<1>3. \A x \in T!TraceEvent : x.at \in 1 .. MaxHits
  BY DEF T!TraceEvent
<1> HIDE DEF e, n
<1>4. at \in [1 .. n + 1 -> 1 .. MaxHits]
  BY <1>1, <1>2, <1>3
<1>5. ASSUME NEW i \in 1 .. n + 1, NEW j \in 1 .. n + 1, at[i] = at[j] PROVE i = j
  <2>1. \A x, y \in T!InRings \cup T!Seen : x.at = y.at => x = y
    BY DEF Traced, T!EveryHitInOnePlace
  <2>2. \A k, l \in 1 .. n : seen[k] = seen[l] => k = l
    BY <1>2 DEF Traced, T!EveryHitInOnePlace
  <2>3. CASE i = n + 1 \/ j = n + 1
    BY <1>1, <1>2, <1>5, <2>1, <2>3
  <2>4. CASE i # n + 1 /\ j # n + 1
    BY <1>2, <1>5, <2>1, <2>2, <2>4
  <2> QED  BY <2>3, <2>4
<1>6. at \in Injection(1 .. n + 1, 1 .. MaxHits)
  BY <1>4, <1>5 DEF Injection, IsInjective
<1>7. MaxHits \in Nat
  BY ComponentAssumptions DEF T!TracerConstants
<1>8. IsFiniteSet(1 .. MaxHits) /\ Cardinality(1 .. MaxHits) = MaxHits
  BY <1>7, FS_Interval
<1>9. Cardinality(1 .. n + 1) = n + 1
  BY <1>2, FS_Interval
<1>10. n + 1 <= MaxHits
  <2> HIDE DEF at
  <2> QED  BY <1>6, <1>8, <1>9, FS_Injection
<1> QED  BY <1>2, <1>7, <1>10 DEF n

(* The graph holds one event for every event handed to the callback, of the *)
(* same process.                                                            *)
SeenInv ==
  /\ Len(events) = Len(seen) /\ Len(seen) <= MaxHits
  /\ \A i \in DOMAIN seen : events[i].pid = seen[i].pid

LEMMA SeenInit == Init => SeenInv
  BY ComponentAssumptions DEF Init, T!Init, G!Init, SeenInv, T!TracerConstants

\* What the callback does to the graph and to the history.
LEMMA CallbackAdds ==
  ASSUME Traced, BatchInv, SpacingInv, SeenInv, Callback
  PROVE  /\ SeenInv'
         /\ Len(events) < MaxHits /\ Len(events') = Len(events) + 1
         /\ \E e \in G!Event : G!AddEvent(e)
<1> DEFINE x == Head(ring[Head(ready)])
           e == [pid |-> x.pid, ppid |-> x.ppid, type |-> x.type]
           new == [seq |-> seq, type |-> e.type, pid |-> e.pid]
<1>1. T!HandleEvent /\ callback /\ G!AddEvent(e)
  BY DEF Callback, BatchInv
<1>2. x \in T!TraceEvent
  BY <1>1, CallbackEvent
<1>3. x \in T!InRings
  <2> DEFINE c == Head(ready)
  <2>1. c \in Cpu
    BY <1>1 DEF Traced, T!TypeOK, T!HandleEvent
  <2>2. ring[c] \in Seq(T!TraceEvent) /\ ring[c] # <<>>
    BY <1>1, <2>1 DEF Traced, T!TypeOK, T!HandleEvent
  <2>3. 1 \in DOMAIN ring[c] /\ x = ring[c][1]
    BY <2>2
  <2> QED  BY <2>1, <2>3 DEF T!InRings
<1>4. x.pid # x.ppid
  <2>1. T!InRings = TP!InRings
    BY DEF T!InRings, TP!InRings
  <2> QED  BY <1>3, <2>1 DEF Traced, TP!EventsPlausible, TP!Plausible
<1>5. e \in G!Event
  BY <1>2, <1>4 DEF T!TraceEvent, G!Event
<1>6. seen' = Append(seen, x) /\ events' = Append(events, new) /\ new.pid = x.pid
  BY <1>1 DEF T!HandleEvent, G!AddEvent
<1>7. new \in [seq : Nat, type : Type \cup {"exit"}, pid : Pid]
  BY <1>2 DEF SpacingInv, T!TraceEvent
<1>8. seen \in Seq(T!TraceEvent) /\ events \in Seq([seq : Nat, type : Type \cup {"exit"}, pid : Pid])
  BY DEF Traced, T!TypeOK, SpacingInv
<1> HIDE DEF x, new
<1>9. /\ Len(seen') = Len(seen) + 1 /\ Len(events') = Len(events) + 1
      /\ DOMAIN seen' = 1 .. Len(seen) + 1 /\ DOMAIN seen = 1 .. Len(seen)
      /\ \A i \in 1 .. Len(seen) : seen'[i] = seen[i]
      /\ \A i \in 1 .. Len(events) : events'[i] = events[i]
      /\ seen'[Len(seen) + 1] = x /\ events'[Len(events) + 1] = new
      /\ Len(seen) \in Nat
  BY <1>2, <1>6, <1>7, <1>8, AppendProperties, LenProperties
<1>10. \A i \in 1 .. Len(seen) + 1 : i \in 1 .. Len(seen) \/ i = Len(seen) + 1
  BY <1>9
<1>11. Len(events) < MaxHits
  BY <1>1, RoomForEvent DEF SeenInv
<1>12. Len(seen') <= MaxHits
  BY <1>9, <1>11, ComponentAssumptions DEF SeenInv, T!TracerConstants
<1>13. SeenInv'
  BY <1>6, <1>9, <1>10, <1>12 DEF SeenInv
<1> QED  BY <1>1, <1>5, <1>9, <1>11, <1>13

\* Nothing but the callback touches the graph or the history.
LEMMA OthersLeaveGraph ==
  ASSUME [Next]_vars, ~Callback
  PROVE  UNCHANGED <<graphVars, seen>>
<1> USE DEF kernelVars, runnerVars, T!kernelVars, T!runnerVars
<1>1. CASE Load \/ Start \/ Started
  BY <1>1 DEF Load, Start, Started, T!Construct, T!SetCallback, T!AttachProbe, T!OpenBuffer
<1>2. CASE Fails \/ \E delivered \in BOOLEAN : Done(delivered)
  BY <1>2 DEF Fails, Done, T!Destroy
<1>3. CASE ChildGone \/ ChildAlive \/ Poll \/ NextRing \/ PollReturns
  BY <1>3 DEF ChildGone, ChildAlive, Poll, NextRing, PollReturns, T!Reap, T!BeginPoll, T!NextRing
<1>4. CASE FlushNothing \/ FlushStarts \/ FlushEnds
  BY <1>4 DEF FlushNothing, FlushStarts, FlushEnds
<1>5. CASE GnnTimer \/ FinalGnn \/ SaveGraph \/ \E outcome \in GnnOutcomes : FinalPredict(outcome)
  BY <1>5 DEF GnnTimer, FinalGnn, SaveGraph, FinalPredict
<1>6. CASE Checks \/ LokiLate \/ Tick
  BY <1>6 DEF Checks, LokiLate, Tick
<1>7. CASE System
  BY <1>7 DEF System, T!Kernel, T!Syscall, T!Spawn, T!Exit, T!ChildExits, T!ChildZombie
<1>8. CASE UNCHANGED vars
  BY <1>8 DEF vars
<1> QED  BY <1>1, <1>2, <1>3, <1>4, <1>5, <1>6, <1>7, <1>8 DEF Next, MonitorThread

LEMMA SeenStep == Traced /\ BatchInv /\ SpacingInv /\ SeenInv /\ [Next]_vars => SeenInv'
<1> SUFFICES ASSUME Traced, BatchInv, SpacingInv, SeenInv, [Next]_vars PROVE SeenInv'
  OBVIOUS
<1>1. CASE Callback
  BY <1>1, CallbackAdds
<1>2. CASE ~Callback
  BY <1>2, OthersLeaveGraph DEF SeenInv, graphVars
<1> QED  BY <1>1, <1>2

\* Everything known so far.
Running == Traced /\ BatchInv /\ TimerInv /\ SpacingInv /\ SeenInv

LEMMA RunningHolds == Spec => []Running
<1>1. Spec => [](Traced /\ BatchInv)
  BY Batched
<1>2. Spec => []TimerInv
  BY TimerInit, TimerStep, PTL DEF Spec
<1>3. Spec => []SpacingInv
  BY <1>1, <1>2, SpacingInit, SpacingStep, PTL DEF Spec
<1>4. Spec => []SeenInv
  BY <1>1, <1>3, SeenInit, SeenStep, PTL DEF Spec
<1> QED  BY <1>1, <1>2, <1>3, <1>4, PTL DEF Running

(* The monitor uses the graph as SyscallGraph describes: every event it     *)
(* adds names a process other than its parent, and a graph never gets more  *)
(* events than there were probe hits.                                       *)
THEOREM GraphUsed == Spec => G!Spec
<1>1. Init => G!Init
  BY DEF Init
<1>2. Running /\ [Next]_vars => [G!Next]_(G!graphVars)
  <2> SUFFICES ASSUME Running, [Next]_vars PROVE [G!Next]_(G!graphVars)
    OBVIOUS
  <2>1. CASE Callback
    <3>1. Len(events) < MaxHits /\ \E e \in G!Event : G!AddEvent(e)
      BY <2>1, CallbackAdds DEF Running
    <3> QED  BY <3>1 DEF G!Next
  <2>2. CASE ~Callback
    BY <2>2, OthersLeaveGraph DEF graphVars, G!graphVars
  <2> QED  BY <2>1, <2>2
<1> QED  BY <1>1, <1>2, RunningHolds, PTL DEF Spec, G!Spec

\* The graph of the theorems is this one.
LEMMA GraphIsGraph == G!Spec => GP!Spec
<1>1. G!Init => GP!Init
  BY DEF G!Init, GP!Init
<1>2. [G!Next]_(G!graphVars) => [GP!Next]_(GP!graphVars)
  BY DEF G!Next, GP!Next, G!graphVars, GP!graphVars, G!Event, GP!Event, G!AddEvent, GP!AddEvent,
         G!ProcessesWith, GP!ProcessesWith, G!NewEdges, GP!NewEdges, G!SpawnEdge, GP!SpawnEdge,
         G!InvokeEdge, GP!InvokeEdge, G!SequenceEdge, GP!SequenceEdge, G!NextSeq, GP!NextSeq,
         G!Edge, GP!Edge, G!ProcId, GP!ProcId, G!EventId, GP!EventId
<1> QED  BY <1>1, <1>2, PTL DEF G!Spec, GP!Spec

\* So what is proved of SyscallGraph holds here.
Graphed == G!TypeOK /\ G!SequencesExact /\ GP!CountInv /\ GP!Numbered

LEMMA GraphHolds == Spec => []Graphed
<1>1. G!Spec => GP!Spec
  BY GraphIsGraph
<1>2. GP!GraphAssumption
  BY ComponentAssumptions DEF G!GraphAssumption, GP!GraphAssumption
<1>3. GP!Spec => []GP!TypeOK
  BY <1>2, GP!Typing
<1>4. GP!Spec => []GP!SequencesExact
  BY <1>2, GP!Chaining
<1>5. GP!Spec => []GP!CountInv
  BY <1>2, GP!CountHolds
<1>6. GP!Spec => []GP!Numbered
  BY <1>2, GP!Numbering
<1>7. GP!TypeOK => G!TypeOK
  BY DEF GP!TypeOK, G!TypeOK, GP!NodeId, G!NodeId, GP!Relation, G!Relation
<1>8. GP!SequencesExact => G!SequencesExact
  BY DEF GP!SequencesExact, G!SequencesExact, GP!Links, G!Links, GP!EventId, G!EventId,
         GP!Follows, G!Follows
<1> QED  BY <1>1, <1>3, <1>4, <1>5, <1>6, <1>7, <1>8, GraphUsed, PTL DEF Graphed

-----------------------------------------------------------------------------
(* A "sequences" edge that leads back in time (SequencesInTimeOrder fails   *)
(* of it) always joins events made on two CPUs: between events of one CPU   *)
(* it is in the order of the system calls, until the numbers of the events  *)
(* wrap, also of processes that move or have threads on every CPU.  A ring  *)
(* keeps the order of its CPU, the callback passes it on, and the graph     *)
(* links consecutive events.                                                *)
SourceOf(link) == seen[link[1][2] + 1]
TargetOf(link) == seen[link[2][2] + 1]

THEOREM TimeOrder ==
  Spec => [](Len(events) <= SeqLimit =>
               \A link \in G!Links("sequences") :
                 SourceOf(link).at < TargetOf(link).at \/ SourceOf(link).cpu # TargetOf(link).cpu)
<1>1. ASSUME Running, Graphed, Len(events) <= SeqLimit, NEW link \in G!Links("sequences"),
             SourceOf(link).cpu = TargetOf(link).cpu
      PROVE  SourceOf(link).at < TargetOf(link).at
  <2>1. PICK i \in DOMAIN events, j \in DOMAIN events :
          /\ link = <<G!EventId(events[i].seq), G!EventId(events[j].seq)>>
          /\ G!Follows(i, j)
    BY <1>1 DEF Graphed, G!SequencesExact
  <2>2. link[1][2] = events[i].seq /\ link[2][2] = events[j].seq
    BY <2>1 DEF G!EventId
  <2>3. events[i].seq = i - 1 /\ events[j].seq = j - 1
    BY <1>1 DEF Graphed, GP!Numbered
  <2>4. DOMAIN events = DOMAIN seen /\ i \in Nat /\ j \in Nat
    BY <1>1 DEF Running, SeenInv, SpacingInv, Traced, T!TypeOK
  <2>5. seen[i] \in T!TraceEvent /\ seen[j] \in T!TraceEvent /\ seen[i] \in T!Seen /\ seen[j] \in T!Seen
    BY <1>1, <2>4 DEF Running, Traced, T!TypeOK, T!Seen
  <2>6. seen[i].pid = seen[j].pid /\ i < j
    BY <1>1, <2>1, <2>4 DEF G!Follows, Running, SeenInv
  <2>7. link[1][2] + 1 = i /\ link[2][2] + 1 = j
    BY <2>2, <2>3, <2>4
  <2>8. seen[i].cpu = seen[j].cpu
    BY <1>1, <2>7 DEF SourceOf, TargetOf
  <2>9. seen[i].at < seen[j].at
    BY <1>1, <2>4, <2>6, <2>8 DEF Running, Traced, T!CpuOrderKept
  <2> QED  BY <2>7, <2>9 DEF SourceOf, TargetOf
<1>2. Running /\ Graphed => (Len(events) <= SeqLimit =>
        \A link \in G!Links("sequences") :
          SourceOf(link).at < TargetOf(link).at \/ SourceOf(link).cpu # TargetOf(link).cpu)
  BY <1>1
<1> QED  BY <1>2, RunningHolds, GraphHolds, PTL

-----------------------------------------------------------------------------
(* After the loop.  The last flush leaves the batch empty, no callback runs *)
(* any more, and so the last check, the graph file and the exit log all     *)
(* find the graph as the callback left it.                                  *)
Ended == {"finalGnn", "save", "predict", "exitLog", "done"}

ExitInv ==
  /\ pc \in Ended => batch = <<>> /\ push = <<>>
  /\ pc \in Final /\ events # <<>> => checks # <<>> /\ checks[Len(checks)].size = Len(events)
  /\ pc \in {"predict", "exitLog", "done"} => saved \in {Len(events), -1}
  /\ pc \in {"exitLog", "done"} =>
       /\ exitLog.events = Len(events)
       /\ exitLog.processes = Cardinality(DOMAIN processes)
       /\ exitLog.edges = Len(edges)

LEMMA ExitInit == Init => ExitInv
  BY DEF Init, ExitInv, Ended, Final

\* A new phase and deadline leave the size of a check.
LEMMA SizesKept ==
  ASSUME SpacingInv, ExitInv, pc \in Final, events # <<>>,
         checks' = [k \in DOMAIN checks |-> checks'[k]],
         \A k \in DOMAIN checks : checks'[k].size = checks[k].size
  PROVE  checks' # <<>> /\ checks'[Len(checks')].size = Len(events)
<1>1. checks # <<>> /\ checks \in Seq(Check)
  BY DEF SpacingInv, ExitInv
<1>2. DOMAIN checks = 1 .. Len(checks) /\ Len(checks) \in Nat /\ Len(checks) \in DOMAIN checks
  BY <1>1
<1>3. checks' \in [1 .. Len(checks) -> {checks'[k] : k \in DOMAIN checks}]
  BY <1>2
<1>4. Len(checks') = Len(checks) /\ checks' # <<>>
  BY <1>2, <1>3, SeqDef, LenProperties
<1> QED  BY <1>2, <1>4 DEF ExitInv

LEMMA ExitStep == Running /\ ExitInv /\ [Next]_vars => ExitInv'
<1> SUFFICES ASSUME Running, ExitInv, [Next]_vars PROVE ExitInv'
  OBVIOUS
<1> USE DEF Ended, Final, graphVars, shipperVars, timerVars, resultVars, Goto, CallFlush
<1>1. CASE Load \/ Start \/ Started
  BY <1>1 DEF Load, Start, Started, ExitInv
<1>2. CASE Fails
  BY <1>2 DEF Fails, ExitInv
<1>3. CASE \E delivered \in BOOLEAN : Done(delivered)
  <2>1. PICK delivered \in BOOLEAN : Done(delivered)
    BY <1>3
  <2>2. pc = "exitLog" /\ pc' = "done" /\ UNCHANGED <<batch, push, saved, events, edges, processes>>
    BY <2>1 DEF Done
  <2>3. /\ exitLog'.events = exitLog.events /\ exitLog'.processes = exitLog.processes
        /\ exitLog'.edges = exitLog.edges
    BY <2>1 DEF Done
  <2>4. events # <<>> => checks' # <<>> /\ checks'[Len(checks')].size = Len(events)
    <3>1. \A k \in DOMAIN checks : checks[k] \in Check
      BY DEF Running, SpacingInv
    <3>2. \A k \in DOMAIN checks : [checks[k] EXCEPT !.phase = "over"].size = checks[k].size
      BY <3>1 DEF Check
    <3>3. /\ checks' = [k \in DOMAIN checks |-> checks'[k]]
          /\ \A k \in DOMAIN checks : checks'[k].size = checks[k].size
      BY <2>1, <3>2 DEF Done
    <3> QED  BY <2>2, <3>3, SizesKept DEF Running
  <2> QED  BY <2>2, <2>3, <2>4 DEF ExitInv
<1>4. CASE ChildGone \/ ChildAlive \/ Poll \/ Callback \/ NextRing \/ PollReturns
  <2>1. pc \notin Ended /\ pc' \notin Ended
    BY <1>4 DEF ChildGone, ChildAlive, Poll, Callback, NextRing, PollReturns, FlushIfFull
  <2> QED  BY <2>1 DEF ExitInv
<1>5. CASE FlushNothing \/ FlushStarts \/ FlushEnds
  <2>1. ret \in {"drain", "gnnTimer", "finalGnn"}
    BY DEF Running, BatchInv
  <2>2. CASE FlushNothing
    BY <2>1, <2>2 DEF FlushNothing, ExitInv, Running, BatchInv
  <2>3. CASE FlushStarts
    BY <2>3 DEF FlushStarts, ExitInv
  <2>4. CASE FlushEnds
    BY <2>1, <2>4 DEF FlushEnds, ExitInv, Running, BatchInv, L!PushEnds, L!PushStored, L!PushLost,
       L!PushAbandoned
  <2> QED  BY <1>5, <2>2, <2>3, <2>4
<1>6. CASE GnnTimer
  BY <1>6 DEF GnnTimer, ExitInv
<1>7. CASE FinalGnn
  <2>1. pc = "finalGnn" /\ pc' = "save" /\ UNCHANGED <<batch, push, events>> /\ RunGnn
    BY <1>7 DEF FinalGnn
  <2>2. ASSUME events # <<>> PROVE checks' # <<>> /\ checks'[Len(checks')].size = Len(events)
    <3> DEFINE c == [ts |-> clock, size |-> Len(events), phase |-> "predict", by |-> clock + HttpTimeout]
    <3>1. checks' = Append(checks, c) /\ c.size = Len(events)
      BY <2>1, <2>2 DEF RunGnn
    <3>2. c \in Check /\ checks \in Seq(Check)
      BY MonitorAssumption DEF Running, SpacingInv, TimerInv, Check
    <3> HIDE DEF c
    <3> QED  BY <3>1, <3>2
  <2> QED  BY <2>1, <2>2 DEF ExitInv
<1>8. CASE SaveGraph \/ \E outcome \in GnnOutcomes : FinalPredict(outcome)
  <2>1. CASE SaveGraph
    BY <2>1 DEF SaveGraph, ExitInv
  <2>2. ASSUME NEW outcome \in GnnOutcomes, FinalPredict(outcome) PROVE ExitInv'
    BY <2>2 DEF FinalPredict, ExitInv
  <2> QED  BY <1>8, <2>1, <2>2
<1>9. CASE Checks
  <2>1. UNCHANGED <<pc, batch, push, events, edges, processes, saved, exitLog>>
    BY <1>9 DEF Checks
  <2>2. PICK i \in DOMAIN checks : \/ \E outcome \in GnnOutcomes : CheckPredicts(i, outcome)
                                   \/ \E delivered \in BOOLEAN : CheckPushEnds(i, delivered)
    BY <1>9 DEF Checks
  <2>3. checks[i] \in Check
    BY DEF Running, SpacingInv
  <2>4. PICK phase \in {"over", "push", "pushed"}, by1 \in {checks[i].by, clock + HttpTimeout} :
          checks' = [checks EXCEPT ![i] = [checks[i] EXCEPT !.phase = phase, !.by = by1]]
    <3>1. CASE \E outcome \in GnnOutcomes : CheckPredicts(i, outcome)
      BY <3>1 DEF CheckPredicts
    <3>2. CASE \E delivered \in BOOLEAN : CheckPushEnds(i, delivered)
      BY <2>3, <3>2 DEF CheckPushEnds, Check
    <3> QED  BY <2>2, <3>1, <3>2
  <2>5. [checks[i] EXCEPT !.phase = phase, !.by = by1].size = checks[i].size
    BY <2>3 DEF Check
  <2>6. /\ checks' = [k \in DOMAIN checks |-> checks'[k]]
        /\ \A k \in DOMAIN checks : checks'[k].size = checks[k].size
    BY <2>4, <2>5
  <2>7. pc \in Final /\ events # <<>> => checks' # <<>> /\ checks'[Len(checks')].size = Len(events)
    BY <2>6, SizesKept DEF Running
  <2> QED  BY <2>1, <2>7 DEF ExitInv
<1>10. CASE System \/ Tick
  BY <1>10 DEF System, Tick, ExitInv
<1>11. CASE LokiLate
  BY <1>11 DEF LokiLate, L!LokiLate, L!LateStore, L!LateDrop, ExitInv
<1>12. CASE UNCHANGED vars
  BY <1>12 DEF vars, ExitInv
<1> QED  BY <1>1, <1>2, <1>3, <1>4, <1>5, <1>6, <1>7, <1>8, <1>9, <1>10, <1>11, <1>12
         DEF Next, MonitorThread

(* When the exit log is written, every event that reached the callback has  *)
(* been handed to Loki, and the exit log, the last GNN check and the graph  *)
(* file describe the same, final graph.                                     *)
THEOREM ExitDescribes == Spec => []ExitDescribesRun
<1>1. ASSUME Running, Graphed, ExitInv PROVE ExitDescribesRun
  <2> SUFFICES ASSUME pc \in {"exitLog", "done"}
               PROVE  /\ batch = <<>> /\ push = <<>>
                      /\ exitLog.events = Len(seen) /\ saved \in {-1, Len(seen)}
                      /\ seen # <<>> => checks[Len(checks)].size = Len(seen)
                      /\ exitLog.edges = 2 * exitLog.events - exitLog.processes
                                           + Cardinality(G!Links("spawns"))
    BY DEF ExitDescribesRun
  <2>1. Len(events) = Len(seen) /\ (seen # <<>> => events # <<>>)
    BY <1>1 DEF Running, SeenInv, Traced, T!TypeOK
  <2>2. G!Links("spawns") = GP!Links("spawns")
    BY DEF G!Links, GP!Links
  <2>3. \A S : GP!Cardinality(S) = Cardinality(S)
    BY DEF GP!Cardinality, Cardinality
  <2>4. Len(edges) = 2 * Len(events) - Cardinality(DOMAIN processes) + Cardinality(G!Links("spawns"))
    BY <1>1, <2>2, <2>3 DEF Graphed, GP!CountInv
  <2> QED  BY <1>1, <2>1, <2>4 DEF ExitInv, Ended, Final
<1>2. Spec => []ExitInv
  BY RunningHolds, ExitInit, ExitStep, PTL DEF Spec
<1> QED  BY <1>1, <1>2, RunningHolds, GraphHolds, PTL

-----------------------------------------------------------------------------
\* How \div rounds.
LEMMA Quotient ==
  ASSUME NEW a \in Nat, NEW g \in Nat \ {0}
  PROVE  a \div g \in Nat /\ g * (a \div g) <= a /\ a < g * (a \div g) + g
<1>1. a \div g \in Nat
  OBVIOUS
<1>2. g * (a \div g) <= a
  OBVIOUS
<1>3. a < g * (a \div g) + g
  OBVIOUS
<1> QED  BY <1>1, <1>2, <1>3

\* Numbers a divisor apart have different quotients.
LEMMA QuotientsDiffer ==
  ASSUME NEW a \in Nat, NEW b \in Nat, NEW g \in Nat \ {0}, a - b >= g
  PROVE  a \div g # b \div g
<1> DEFINE p == a \div g
           q == b \div g
<1>1. p \in Nat /\ q \in Nat /\ g * q <= b /\ a < g * p + g
  BY Quotient
<1> HIDE DEF p, q
<1>2. g * p \in Nat /\ g * q \in Nat
  BY <1>1
<1>3. p # q
  BY <1>1, <1>2
<1> QED  BY <1>3 DEF p, q

\* A larger number has no smaller quotient.
LEMMA QuotientGrows ==
  ASSUME NEW a \in Nat, NEW b \in Nat, NEW g \in Nat \ {0}, a <= b
  PROVE  a \div g \in 0 .. b \div g
<1> DEFINE p == a \div g
           q == b \div g
<1>1. p \in Nat /\ q \in Nat /\ g * p <= a /\ b < g * q + g
  BY Quotient
<1> HIDE DEF p, q
<1>2. ASSUME p > q PROVE FALSE
  <2>1. p - q - 1 \in Nat
    BY <1>1, <1>2
  <2>2. g * (p - q - 1) \in Nat
    BY <2>1
  <2>3. g * (p - q - 1) = g * p - g * q - g
    BY <1>1
  <2>4. g * p \in Nat /\ g * q \in Nat
    BY <1>1
  <2> QED  BY <1>1, <2>2, <2>3, <2>4
<1>3. p <= q
  BY <1>1, <1>2
<1> QED  BY <1>1, <1>3 DEF p, q

(* A check that is still alive has its deadline ahead: its prediction ends  *)
(* one request timeout after it started at the latest, its push two.        *)
InTime(c, t) ==
  /\ c.phase = "predict" => t <= c.by /\ c.by <= c.ts + HttpTimeout
  /\ c.phase = "push" => t <= c.by /\ c.by <= c.ts + 2 * HttpTimeout

LifeInv == \A i \in DOMAIN checks : InTime(checks[i], clock)

LEMMA LifeInit == Init => LifeInv
  BY DEF Init, LifeInv

\* run_gnn's check starts with a whole request timeout.
LEMMA NewInTime ==
  ASSUME Running, LifeInv, RunGnn, UNCHANGED clock
  PROVE  LifeInv'
<1>1. CASE events = <<>>
  BY <1>1 DEF RunGnn, LifeInv
<1>2. CASE events # <<>>
  <2> DEFINE c == [ts |-> clock, size |-> Len(events), phase |-> "predict", by |-> clock + HttpTimeout]
  <2>1. checks' = Append(checks, c)
    BY <1>2 DEF RunGnn
  <2>2. c \in Check /\ checks \in Seq(Check) /\ clock \in Nat
    BY MonitorAssumption DEF Running, SpacingInv, TimerInv, Check
  <2>3. InTime(c, clock)
    BY <2>2, MonitorAssumption DEF InTime
  <2> HIDE DEF c
  <2>4. \A i \in DOMAIN checks' : (i \in DOMAIN checks /\ checks'[i] = checks[i]) \/ checks'[i] = c
    BY <2>1, <2>2
  <2> QED  BY <2>3, <2>4 DEF LifeInv
<1> QED  BY <1>1, <1>2

LEMMA LifeStep == Running /\ LifeInv /\ [Next]_vars => LifeInv'
<1> SUFFICES ASSUME Running, LifeInv, [Next]_vars PROVE LifeInv'
  OBVIOUS
<1> USE DEF timerVars
<1>1. ASSUME UNCHANGED <<clock, checks>> PROVE LifeInv'
  BY <1>1 DEF LifeInv
<1>2. \A k \in DOMAIN checks : checks[k] \in Check
  BY DEF Running, SpacingInv
<1>3. CASE Load \/ Start \/ Started
  BY <1>1, <1>3 DEF Load, Start, Started
<1>4. CASE Fails \/ \E delivered \in BOOLEAN : Done(delivered)
  <2>1. \A k \in DOMAIN checks : [checks[k] EXCEPT !.phase = "over"].phase = "over"
    BY <1>2 DEF Check
  <2>2. /\ DOMAIN checks' = DOMAIN checks /\ UNCHANGED clock
        /\ \A k \in DOMAIN checks : checks'[k] \in {checks[k], [checks[k] EXCEPT !.phase = "over"]}
    BY <1>4 DEF Fails, Done
  <2> QED  BY <2>1, <2>2 DEF LifeInv, InTime
<1>5. CASE ChildGone \/ ChildAlive \/ Poll \/ Callback \/ NextRing \/ PollReturns
  BY <1>1, <1>5 DEF ChildGone, ChildAlive, Poll, Callback, NextRing, PollReturns
<1>6. CASE FlushNothing \/ FlushStarts \/ FlushEnds
  BY <1>1, <1>6 DEF FlushNothing, FlushStarts, FlushEnds
<1>7. CASE GnnTimer \/ FinalGnn
  BY <1>1, <1>7, NewInTime DEF GnnTimer, FinalGnn
<1>8. CASE SaveGraph \/ \E outcome \in GnnOutcomes : FinalPredict(outcome)
  BY <1>1, <1>8 DEF SaveGraph, FinalPredict
<1>9. CASE Checks
  <2>1. PICK i \in DOMAIN checks : \/ \E outcome \in GnnOutcomes : CheckPredicts(i, outcome)
                                   \/ \E delivered \in BOOLEAN : CheckPushEnds(i, delivered)
    BY <1>9 DEF Checks
  <2>2. UNCHANGED clock /\ clock \in Nat
    BY <1>9 DEF Checks, Running, TimerInv
  <2>3. \A k \in DOMAIN checks : k # i => checks'[k] = checks[k]
    BY <2>1 DEF CheckPredicts, CheckPushEnds
  <2>4. InTime(checks'[i], clock)
    <3>1. CASE \E outcome \in GnnOutcomes : CheckPredicts(i, outcome)
      <4>1. PICK phase \in {"over", "push"} :
              /\ checks'[i] = [checks[i] EXCEPT !.phase = phase, !.by = clock + HttpTimeout]
              /\ checks[i].phase = "predict"
        BY <3>1 DEF CheckPredicts
      <4>2. /\ checks'[i].ts = checks[i].ts /\ checks'[i].phase = phase
            /\ checks'[i].by = clock + HttpTimeout /\ checks[i].ts \in Nat /\ checks[i].by \in Nat
        BY <1>2, <4>1 DEF Check
      <4>3. clock <= checks[i].by /\ checks[i].by <= checks[i].ts + HttpTimeout
        BY <4>1 DEF LifeInv, InTime
      <4> QED  BY <2>2, <4>2, <4>3, MonitorAssumption DEF InTime
    <3>2. CASE \E delivered \in BOOLEAN : CheckPushEnds(i, delivered)
      <4>1. PICK phase \in {"over", "pushed"} : checks'[i] = [checks[i] EXCEPT !.phase = phase]
        BY <3>2 DEF CheckPushEnds
      <4>2. checks'[i].phase \in {"over", "pushed"}
        BY <1>2, <4>1 DEF Check
      <4> QED  BY <4>2 DEF InTime
    <3> QED  BY <2>1, <3>1, <3>2
  <2>5. DOMAIN checks' = DOMAIN checks
    BY <2>1 DEF CheckPredicts, CheckPushEnds
  <2> QED  BY <2>2, <2>3, <2>4, <2>5 DEF LifeInv
<1>10. CASE Tick
  <2>1. /\ clock' = clock + 1 /\ UNCHANGED checks
        /\ \A i \in DOMAIN checks : checks[i].phase \in {"predict", "push"} => clock < checks[i].by
    BY <1>10 DEF Tick, Alive
  <2>2. clock \in Nat /\ \A k \in DOMAIN checks : checks[k].by \in Nat
    BY <1>2 DEF Running, TimerInv, Check
  <2>3. \A k \in DOMAIN checks : InTime(checks[k], clock + 1)
    BY <2>1, <2>2 DEF LifeInv, InTime
  <2> QED  BY <2>1, <2>3 DEF LifeInv
<1>11. CASE System \/ LokiLate
  BY <1>1, <1>11 DEF System, LokiLate
<1>12. CASE UNCHANGED vars
  BY <1>1, <1>12 DEF vars
<1> QED  BY <1>3, <1>4, <1>5, <1>6, <1>7, <1>8, <1>9, <1>10, <1>11, <1>12 DEF Next, MonitorThread

(* The detached threads do not pile up behind a slow inference API: those   *)
(* of the timer are an interval apart and at most two request timeouts old, *)
(* so their ages fall into different intervals of that span.                *)
THEOREM Bounding == Spec => []ChecksBounded
<1>1. ASSUME Running, LifeInv PROVE ChecksBounded
  <2> SUFFICES ASSUME GnnInterval > 0
               PROVE  Cardinality({i \in DOMAIN checks : Alive(i)})
                        <= (2 * HttpTimeout) \div GnnInterval + 2
    BY DEF ChecksBounded
  <2> DEFINE alive == {i \in DOMAIN checks : Alive(i)}
             timed == alive \cap Timed
             slots == 0 .. (2 * HttpTimeout) \div GnnInterval
             slot  == [i \in timed |-> (clock - checks[i].ts) \div GnnInterval]
  <2>1. GnnInterval \in Nat \ {0} /\ 2 * HttpTimeout \in Nat /\ clock \in Nat
    BY <1>1, MonitorAssumption DEF Running, TimerInv
  <2>2. (2 * HttpTimeout) \div GnnInterval \in Nat
    BY <2>1, Quotient
  <2>3. ASSUME NEW i \in alive
        PROVE  clock - checks[i].ts \in 0 .. 2 * HttpTimeout
    <3>1. checks[i] \in Check
      BY <1>1 DEF Running, SpacingInv
    <3>2. checks[i].ts \in Nat /\ checks[i].by \in Nat
      BY <3>1 DEF Check
    <3>3. checks[i].ts <= lastGnn /\ lastGnn \in Nat /\ lastGnn <= clock
      BY <1>1 DEF Running, SpacingInv, TimerInv
    <3>4. InTime(checks[i], clock) /\ checks[i].phase \in {"predict", "push"}
      BY <1>1 DEF LifeInv, Alive
    <3> QED  BY <2>1, <3>2, <3>3, <3>4, MonitorAssumption DEF InTime
  <2>4. \A i \in timed : slot[i] \in slots
    <3> SUFFICES ASSUME NEW i \in timed PROVE slot[i] \in slots
      OBVIOUS
    <3>1. clock - checks[i].ts \in Nat /\ clock - checks[i].ts <= 2 * HttpTimeout
      BY <2>1, <2>3
    <3> QED  BY <2>1, <3>1, QuotientGrows
  <2>5. ASSUME NEW i \in timed, NEW j \in timed, i < j PROVE slot[i] # slot[j]
    <3> DEFINE a == clock - checks[i].ts
               b == clock - checks[j].ts
    <3>1. checks[j].ts - checks[i].ts >= GnnInterval
      BY <1>1, <2>5 DEF Running, SpacingInv, ChecksSpaced
    <3>2. a \in Nat /\ b \in Nat
      BY <2>1, <2>3
    <3>3. checks[i].ts \in Nat /\ checks[j].ts \in Nat
      <4>1. checks[i] \in Check /\ checks[j] \in Check
        BY <1>1 DEF Running, SpacingInv
      <4> QED  BY <4>1 DEF Check
    <3>4. a - b >= GnnInterval
      BY <2>1, <3>1, <3>3
    <3> HIDE DEF a, b
    <3>5. a \div GnnInterval # b \div GnnInterval
      BY <2>1, <3>2, <3>4, QuotientsDiffer
    <3> QED  BY <3>5 DEF a, b
  <2>6. timed \subseteq Nat
    BY <1>1 DEF Running, SpacingInv
  <2> HIDE DEF slots
  <2>7. slot \in Injection(timed, slots)
    <3>1. \A i, j \in timed : slot[i] = slot[j] => i = j
      <4> HIDE DEF slot, timed
      <4> QED  BY <2>5, <2>6
    <3>2. slot \in [timed -> slots]
      BY <2>4
    <3> HIDE DEF slot, timed
    <3> QED  BY <3>1, <3>2 DEF Injection, IsInjective
  <2>8. IsFiniteSet(slots) /\ Cardinality(slots) = (2 * HttpTimeout) \div GnnInterval + 1
    BY <2>2, FS_Interval DEF slots
  <2>9. IsFiniteSet(timed) /\ Cardinality(timed) <= (2 * HttpTimeout) \div GnnInterval + 1
    <3> HIDE DEF slot, timed
    <3> QED  BY <2>7, <2>8, FS_Injection
  <2>10. alive \subseteq timed \cup {Len(checks)}
    BY <1>1 DEF Running, SpacingInv, Timed
  <2> HIDE DEF alive, timed
  <2>11. /\ IsFiniteSet(timed \cup {Len(checks)})
         /\ Cardinality(timed \cup {Len(checks)}) <= Cardinality(timed) + 1
    <3> DEFINE last == Len(checks)
    <3> HIDE DEF last
    <3>1. Cardinality(timed) \in Nat
      BY <2>9, FS_CardinalityType
    <3>2. /\ IsFiniteSet(timed \cup {last})
          /\ Cardinality(timed \cup {last}) =
               IF last \in timed THEN Cardinality(timed) ELSE Cardinality(timed) + 1
      BY <2>9, FS_AddElement
    <3> QED  BY <3>1, <3>2 DEF last
  <2>12. IsFiniteSet(alive) /\ Cardinality(alive) <= Cardinality(timed \cup {Len(checks)})
    BY <2>10, <2>11, FS_Subset
  <2>13. Cardinality(alive) \in Nat /\ Cardinality(timed) \in Nat /\ Cardinality(timed \cup {Len(checks)}) \in Nat
    BY <2>9, <2>11, <2>12, FS_CardinalityType
  <2>14. Cardinality(alive) <= (2 * HttpTimeout) \div GnnInterval + 2
    BY <2>2, <2>9, <2>11, <2>12, <2>13
  <2> QED  BY <2>14 DEF alive
<1>2. Spec => []LifeInv
  BY RunningHolds, LifeInit, LifeStep, PTL DEF Spec
<1> QED  BY <1>1, <1>2, RunningHolds, PTL

-----------------------------------------------------------------------------
(* Types of the monitor's own variables; the components' hold by their own  *)
(* theorems.  The stamps and sizes of the checks are bounded by the clock   *)
(* and by the graph, which only grow.                                       *)
CheckNow ==
  [ts : 0 .. clock, size : 1 .. Len(events), phase : {"predict", "push", "pushed", "over"},
   by : 0 .. MaxClock + HttpTimeout]

ControlOK ==
  /\ pc \in {"start", "wait", "poll", "drain", "flush", "push", "gnnTimer", "finalGnn",
             "save", "predict", "exitLog", "done", "failed"}
  /\ clock \in 0 .. MaxClock
  /\ by \in 0 .. MaxClock + HttpTimeout

ExitLog ==
  [events : Nat, processes : Nat, edges : Nat,
   verdict : {"malicious", "clean", "unavailable"}, stored : BOOLEAN]

ResultsOK ==
  /\ checks \in Seq(CheckNow)
  /\ saved \in -1 .. MaxHits
  /\ exitLog = <<>> \/ exitLog \in ExitLog
  /\ pc = "exitLog" => exitLog \in ExitLog

LEMMA Bounds == MaxClock \in Nat /\ HttpTimeout \in Nat /\ MaxHits \in Nat
  BY MonitorAssumption, ComponentAssumptions DEF T!TracerConstants

LEMMA ControlInit == Init => ControlOK
  BY Bounds DEF Init, ControlOK

LEMMA ControlStep == BatchInv /\ ControlOK /\ [Next]_vars => ControlOK'
<1> SUFFICES ASSUME BatchInv, ControlOK, [Next]_vars PROVE ControlOK'
  OBVIOUS
<1> USE Bounds DEF ControlOK, timerVars, Goto, CallFlush
<1>1. CASE Load \/ Start \/ Started
  BY <1>1 DEF Load, Start, Started
<1>2. CASE Fails \/ \E delivered \in BOOLEAN : Done(delivered)
  BY <1>2 DEF Fails, Done
<1>3. CASE ChildGone \/ ChildAlive \/ Poll \/ NextRing \/ PollReturns
  BY <1>3 DEF ChildGone, ChildAlive, Poll, NextRing, PollReturns
<1>4. CASE Callback
  BY <1>4 DEF Callback, FlushIfFull
<1>5. CASE FlushNothing \/ FlushStarts \/ FlushEnds
  BY <1>5 DEF FlushNothing, FlushStarts, FlushEnds, BatchInv
<1>6. CASE GnnTimer \/ FinalGnn
  BY <1>6 DEF GnnTimer, FinalGnn
<1>7. CASE SaveGraph \/ \E outcome \in GnnOutcomes : FinalPredict(outcome)
  BY <1>7 DEF SaveGraph, FinalPredict
<1>8. CASE Checks \/ LokiLate \/ System
  BY <1>8 DEF Checks, LokiLate, System
<1>9. CASE Tick
  BY <1>9 DEF Tick
<1>10. CASE UNCHANGED vars
  BY <1>10 DEF vars
<1> QED  BY <1>1, <1>2, <1>3, <1>4, <1>5, <1>6, <1>7, <1>8, <1>9, <1>10 DEF Next, MonitorThread

\* A check stays typed while the clock and the graph grow.
LEMMA ChecksTyped ==
  ASSUME Running, ControlOK, ControlOK', ResultsOK, clock <= clock', Len(events) <= Len(events'),
         Len(events') \in Nat,
         checks' = [k \in DOMAIN checks |-> checks'[k]],
         \A k \in DOMAIN checks : checks'[k] \in CheckNow \cup CheckNow'
  PROVE  checks' \in Seq(CheckNow')
<1>1. CheckNow \subseteq CheckNow'
  <2>1. 0 .. clock \subseteq 0 .. clock' /\ 1 .. Len(events) \subseteq 1 .. Len(events')
    BY DEF ControlOK, Running, SpacingInv
  <2> QED  BY <2>1 DEF CheckNow
<1>2. DOMAIN checks = 1 .. Len(checks) /\ Len(checks) \in Nat
  BY DEF ResultsOK
<1>3. checks' \in [1 .. Len(checks) -> CheckNow']
  BY <1>1, <1>2
<1> QED  BY <1>2, <1>3, SeqDef

LEMMA RunGnnTyped ==
  ASSUME Running, ControlOK, ControlOK', ResultsOK, RunGnn, UNCHANGED <<clock, events>>
  PROVE  checks' \in Seq(CheckNow')
<1>1. CheckNow' = CheckNow
  BY DEF CheckNow
<1>2. CASE events = <<>>
  BY <1>1, <1>2 DEF RunGnn, ResultsOK
<1>3. CASE events # <<>>
  <2>1. Len(events) \in Nat /\ Len(events) >= 1
    BY <1>3 DEF Running, SpacingInv
  <2>2. [ts |-> clock, size |-> Len(events), phase |-> "predict", by |-> clock + HttpTimeout] \in CheckNow
    BY <2>1, Bounds DEF CheckNow, ControlOK
  <2> QED  BY <1>1, <1>3, <2>2 DEF RunGnn, ResultsOK
<1> QED  BY <1>2, <1>3

\* Time and the graph only grow.
LEMMA Onward ==
  ASSUME Running, [Next]_vars
  PROVE  /\ clock <= clock' /\ Len(events) <= Len(events')
         /\ Len(events) \in Nat /\ Len(events') \in Nat
<1> USE DEF timerVars
<1>1. clock \in Nat /\ Len(events) \in Nat
  BY DEF Running, TimerInv, SpacingInv
<1>2. CASE Callback
  <2>1. Len(events') = Len(events) + 1
    BY <1>2, CallbackAdds DEF Running
  <2> QED  BY <1>1, <1>2, <2>1 DEF Callback
<1>3. CASE ~Callback
  <2>1. UNCHANGED events
    BY <1>3, OthersLeaveGraph DEF graphVars
  <2>2. clock' \in {clock, clock + 1}
    <3>1. CASE Load \/ Start \/ Started \/ Fails \/ \E delivered \in BOOLEAN : Done(delivered)
      BY <3>1 DEF Load, Start, Started, Fails, Done
    <3>2. CASE ChildGone \/ ChildAlive \/ Poll \/ NextRing \/ PollReturns
      BY <3>2 DEF ChildGone, ChildAlive, Poll, NextRing, PollReturns
    <3>3. CASE FlushNothing \/ FlushStarts \/ FlushEnds \/ GnnTimer \/ FinalGnn \/ SaveGraph
      BY <3>3 DEF FlushNothing, FlushStarts, FlushEnds, GnnTimer, FinalGnn, SaveGraph
    <3>4. CASE \E outcome \in GnnOutcomes : FinalPredict(outcome)
      BY <3>4 DEF FinalPredict
    <3>5. CASE Checks \/ LokiLate \/ System \/ Tick
      BY <3>5 DEF Checks, LokiLate, System, Tick
    <3>6. CASE UNCHANGED vars
      BY <3>6 DEF vars
    <3> QED  BY <1>3, <3>1, <3>2, <3>3, <3>4, <3>5, <3>6 DEF Next, MonitorThread
  <2> QED  BY <1>1, <2>1, <2>2
<1> QED  BY <1>2, <1>3

LEMMA ResultsStep ==
  ASSUME Running, Graphed, ControlOK, ControlOK', ResultsOK, [Next]_vars
  PROVE  ResultsOK'
<1> USE DEF resultVars, timerVars, graphVars, Goto, CallFlush
<1>1. \A k \in DOMAIN checks : checks[k] \in CheckNow
  BY DEF ResultsOK
<1>2. ASSUME UNCHANGED <<saved, exitLog>>, pc' = "exitLog" => pc = "exitLog",
             checks' \in Seq(CheckNow')
      PROVE  ResultsOK'
  BY <1>2 DEF ResultsOK
<1>3. ASSUME UNCHANGED <<saved, exitLog, checks>>, pc' = "exitLog" => pc = "exitLog"
      PROVE  ResultsOK'
  <2>1. checks' = [k \in DOMAIN checks |-> checks'[k]]
    BY <1>3 DEF ResultsOK
  <2>2. checks' \in Seq(CheckNow')
    BY <1>1, <1>3, <2>1, Onward, ChecksTyped
  <2> QED  BY <1>2, <1>3, <2>2
<1>4. CASE Load \/ Start \/ Started
  BY <1>3, <1>4 DEF Load, Start, Started
<1>5. CASE Fails \/ \E delivered \in BOOLEAN : Done(delivered)
  <2>1. \A k \in DOMAIN checks : [checks[k] EXCEPT !.phase = "over"] \in CheckNow
    BY <1>1 DEF CheckNow
  <2>2. /\ checks' = [k \in DOMAIN checks |-> checks'[k]]
        /\ \A k \in DOMAIN checks : checks'[k] \in {checks[k], [checks[k] EXCEPT !.phase = "over"]}
        /\ UNCHANGED saved /\ pc' # "exitLog"
    BY <1>5 DEF Fails, Done
  <2>3. checks' \in Seq(CheckNow')
    BY <1>1, <2>1, <2>2, Onward, ChecksTyped
  <2>4. CASE Fails
    BY <1>2, <2>3, <2>4 DEF Fails
  <2>5. ASSUME NEW delivered \in BOOLEAN, Done(delivered) PROVE ResultsOK'
    <3>1. exitLog \in ExitLog /\ exitLog' = [exitLog EXCEPT !.stored = delivered]
      BY <2>5 DEF Done, ResultsOK
    <3>2. exitLog' \in ExitLog
      BY <3>1 DEF ExitLog
    <3> QED  BY <2>2, <2>3, <3>2 DEF ResultsOK
  <2> QED  BY <1>5, <2>4, <2>5
<1>6. CASE ChildGone \/ ChildAlive \/ Poll \/ NextRing \/ PollReturns
  BY <1>3, <1>6 DEF ChildGone, ChildAlive, Poll, NextRing, PollReturns
<1>7. CASE Callback
  BY <1>3, <1>7 DEF Callback, FlushIfFull
<1>8. CASE FlushNothing \/ FlushStarts \/ FlushEnds
  BY <1>3, <1>8 DEF FlushNothing, FlushStarts, FlushEnds, Running, BatchInv
<1>9. CASE GnnTimer \/ FinalGnn
  <2>1. CASE RunGnn
    <3>1. UNCHANGED <<clock, events, saved, exitLog>> /\ pc' # "exitLog"
      BY <1>9 DEF GnnTimer, FinalGnn
    <3>2. checks' \in Seq(CheckNow')
      BY <2>1, <3>1, RunGnnTyped
    <3> QED  BY <1>2, <3>1, <3>2
  <2>2. CASE ~RunGnn
    BY <1>3, <1>9, <2>2 DEF GnnTimer, FinalGnn
  <2> QED  BY <2>1, <2>2
<1>10. CASE SaveGraph
  <2>1. UNCHANGED <<clock, events, exitLog, checks>> /\ pc' # "exitLog" /\ saved' \in {Len(events), -1}
    BY <1>10 DEF SaveGraph
  <2>2. saved' \in -1 .. MaxHits
    BY <2>1, Onward, Bounds DEF Running, SeenInv
  <2>3. CheckNow' = CheckNow
    BY <2>1 DEF CheckNow
  <2> QED  BY <2>1, <2>2, <2>3 DEF ResultsOK
<1>11. ASSUME NEW outcome \in GnnOutcomes, FinalPredict(outcome) PROVE ResultsOK'
  <2>1. outcome \in {"failed", "malicious", "clean"}
    BY DEF GnnOutcomes, V!GnnOutcome
  <2>2. Cardinality(DOMAIN processes) \in Nat
    <3>1. IsFiniteSet(DOMAIN processes)
      BY DEF Graphed, GP!CountInv, GP!IsFiniteSet, IsFiniteSet
    <3> QED  BY <3>1, FS_CardinalityType
  <2>3. Len(edges) \in Nat /\ Len(events) \in Nat
    BY Onward DEF Graphed, G!TypeOK
  <2>4. exitLog' \in ExitLog
    BY <1>11, <2>1, <2>2, <2>3 DEF FinalPredict, ExitLog
  <2>5. UNCHANGED <<clock, events, saved, checks>>
    BY <1>11 DEF FinalPredict
  <2>6. CheckNow' = CheckNow
    BY <2>5 DEF CheckNow
  <2> QED  BY <2>4, <2>5, <2>6 DEF ResultsOK
<1>12. CASE Checks
  <2>1. PICK i \in DOMAIN checks : \/ \E outcome \in GnnOutcomes : CheckPredicts(i, outcome)
                                   \/ \E delivered \in BOOLEAN : CheckPushEnds(i, delivered)
    BY <1>12 DEF Checks
  <2>2. PICK phase \in {"over", "push", "pushed"}, by1 \in {checks[i].by, clock + HttpTimeout} :
          checks' = [checks EXCEPT ![i] = [checks[i] EXCEPT !.phase = phase, !.by = by1]]
    <3>1. CASE \E outcome \in GnnOutcomes : CheckPredicts(i, outcome)
      BY <3>1 DEF CheckPredicts
    <3>2. CASE \E delivered \in BOOLEAN : CheckPushEnds(i, delivered)
      BY <1>1, <3>2 DEF CheckPushEnds, CheckNow
    <3> QED  BY <2>1, <3>1, <3>2
  <2>3. by1 \in 0 .. MaxClock + HttpTimeout
    BY <1>1, Bounds DEF CheckNow, ControlOK
  <2>4. [checks[i] EXCEPT !.phase = phase, !.by = by1] \in CheckNow
    BY <1>1, <2>3 DEF CheckNow
  <2>5. /\ checks' = [k \in DOMAIN checks |-> checks'[k]]
        /\ \A k \in DOMAIN checks : checks'[k] \in CheckNow
    BY <1>1, <2>2, <2>4
  <2>6. checks' \in Seq(CheckNow')
    BY <2>5, Onward, ChecksTyped
  <2>7. UNCHANGED <<saved, exitLog, pc>>
    BY <1>12 DEF Checks
  <2> QED  BY <1>2, <2>6, <2>7
<1>13. CASE System \/ LokiLate \/ Tick
  BY <1>3, <1>13 DEF System, LokiLate, Tick
<1>14. CASE UNCHANGED vars
  BY <1>3, <1>14 DEF vars
<1> QED  BY <1>4, <1>5, <1>6, <1>7, <1>8, <1>9, <1>10, <1>11, <1>12, <1>13, <1>14
         DEF Next, MonitorThread

LEMMA ResultsInit == Init => ResultsOK
  BY Bounds DEF Init, ResultsOK

\* The shipper keeps its types.
LEMMA ShipperTyped == Spec => []L!TypeOK
<1>1. L!Spec => LP!Spec
  BY ShipperIsShipper
<1>2. LP!ShipperConstants
  BY ComponentAssumptions DEF L!ShipperConstants, LP!ShipperConstants
<1>3. LP!Spec => []LP!TypeOK
  BY <1>2, LP!Typing
<1>4. LP!TypeOK => L!TypeOK
  BY DEF LP!TypeOK, L!TypeOK
<1> QED  BY <1>1, <1>3, <1>4, ShipperUsed, PTL DEF ShipperSpec

(* All variables of the monitor keep their types: the clocks never run      *)
(* ahead of each other, no check is larger than the graph, and the exit log *)
(* has a verdict.                                                           *)
THEOREM Typing == Spec => []TypeOK
<1>1. Spec => []ControlOK
  BY ControlInit, ControlStep, Batched, PTL DEF Spec
<1>2. Spec => []ResultsOK
  BY <1>1, ResultsInit, ResultsStep, RunningHolds, GraphHolds, PTL DEF Spec
<1>3. Running /\ Graphed /\ ControlOK /\ ResultsOK /\ L!TypeOK => TypeOK
  BY DEF Running, Traced, BatchInv, TimerInv, Graphed, ControlOK, ResultsOK, TypeOK, CheckNow, ExitLog
<1> QED  BY <1>1, <1>2, <1>3, RunningHolds, GraphHolds, ShipperTyped, PTL

-----------------------------------------------------------------------------
(* The graph of the whole monitor.  Whatever order the rings are read in,   *)
(* its edges join nodes of it, and the "sequences" and "spawns" edges are   *)
(* exactly those the events the callback was given call for; the edge count *)
(* of the exit log follows from the other two and the "spawns" edges; and   *)
(* no node or edge that a GNN check was given ever changes.                 *)
THEOREM GraphIsExact ==
  Spec => /\ [](G!EdgesJoinNodes /\ G!SequencesExact /\ G!SpawnsExact /\ G!EdgeCount)
          /\ G!GraphOnlyGrows
<1>1. GP!GraphAssumption
  BY ComponentAssumptions DEF G!GraphAssumption, GP!GraphAssumption
<1>2. GP!Spec => []GP!EdgesJoinNodes
  BY <1>1, GP!Joining
<1>3. GP!Spec => []GP!SpawnsExact
  BY <1>1, GP!Parenting
<1>4. GP!Spec => []GP!EdgeCount
  <2>1. GP!Spec => [](GP!EdgeCount /\ GP!Cardinality(GP!SpawnEdges) = GP!Cardinality(GP!Links("spawns")))
    BY <1>1, GP!Counting
  <2> QED  BY <2>1, PTL
<1>5. GP!Spec => GP!GraphOnlyGrows
  BY <1>1, GP!Growing
<1>6. GP!EdgesJoinNodes => G!EdgesJoinNodes
  BY DEF GP!EdgesJoinNodes, G!EdgesJoinNodes, GP!Nodes, G!Nodes, GP!ProcId, G!ProcId, GP!EventId, G!EventId
<1>7. GP!SpawnsExact => G!SpawnsExact
  BY DEF GP!SpawnsExact, G!SpawnsExact, GP!Links, G!Links, GP!ProcId, G!ProcId,
         GP!SeenBefore, G!SeenBefore, GP!FirstEventOf, G!FirstEventOf
<1>8. GP!EdgeCount => G!EdgeCount
  BY DEF GP!EdgeCount, G!EdgeCount, GP!Cardinality, G!Cardinality
<1>9. GP!GraphOnlyGrows => G!GraphOnlyGrows
  <2>1. [/\ \A p \in DOMAIN processes : p \in DOMAIN processes' /\ processes'[p] = processes[p]
         /\ \A i \in DOMAIN events : i \in DOMAIN events' /\ events'[i] = events[i]
         /\ \A k \in DOMAIN edges : k \in DOMAIN edges' /\ edges'[k] = edges[k]]_(GP!graphVars)
        => [/\ \A p \in DOMAIN processes : p \in DOMAIN processes' /\ processes'[p] = processes[p]
            /\ \A i \in DOMAIN events : i \in DOMAIN events' /\ events'[i] = events[i]
            /\ \A k \in DOMAIN edges : k \in DOMAIN edges' /\ edges'[k] = edges[k]]_(G!graphVars)
    BY DEF GP!graphVars, G!graphVars
  <2> QED  BY <2>1, PTL DEF GP!GraphOnlyGrows, G!GraphOnlyGrows
<1>10. Spec => []G!SequencesExact
  BY GraphHolds, PTL DEF Graphed
<1> QED  BY <1>2, <1>3, <1>4, <1>5, <1>6, <1>7, <1>8, <1>9, <1>10, GraphUsed, GraphIsGraph, PTL

-----------------------------------------------------------------------------
\* The places a line can be in, and the blocks, as LogShipper states them.
LinesKept == L!OnePlacePerLine /\ L!BlocksAreRuns

LEMMA LinesHold == Spec => []LinesKept
<1>1. LP!ShipperConstants
  BY ComponentAssumptions DEF L!ShipperConstants, LP!ShipperConstants
<1>2. LP!Spec => []LP!OnePlacePerLine
  BY <1>1, LP!Placing
<1>3. LP!Spec => []LP!BlocksAreRuns
  BY <1>1, LP!Runs
<1>4. LP!OnePlacePerLine => L!OnePlacePerLine
  BY DEF LP!OnePlacePerLine, L!OnePlacePerLine, LP!Gone, L!Gone, LP!StoredBlocks, L!StoredBlocks,
         LP!Range, L!Range
<1>5. LP!BlocksAreRuns => L!BlocksAreRuns
  BY DEF LP!BlocksAreRuns, L!BlocksAreRuns, LP!IsBlock, L!IsBlock, LP!StoredBlocks, L!StoredBlocks
<1> QED  BY <1>2, <1>3, <1>4, <1>5, ShipperUsed, ShipperIsShipper, PTL DEF ShipperSpec, LinesKept

\* No probe hit is at Loki twice, neither in one block nor in two.
HitsStoredOnce ==
  \A j, k \in DOMAIN stored : \A a \in DOMAIN stored[j], b \in DOMAIN stored[k] :
    stored[j][a].at = stored[k][b].at => j = k /\ a = b

\* Within a block, the hits of one CPU are in their order.
BlocksInCpuOrder ==
  \A k \in DOMAIN stored : \A a, b \in DOMAIN stored[k] :
    a < b /\ stored[k][a].cpu = stored[k][b].cpu => stored[k][a].at < stored[k][b].at

\* A stored block is a run of the events the callback was given.
LEMMA BlockOfSeen ==
  ASSUME L!TypeOK, LinesKept, NEW k \in DOMAIN stored
  PROVE  \E lo \in Nat \ {0} :
           \A a \in DOMAIN stored[k] : /\ a \in Nat /\ lo + a - 1 \in DOMAIN seen
                                       /\ stored[k][a] = seen[lo + a - 1]
<1>1. stored[k] \in L!StoredBlocks
  BY DEF L!StoredBlocks
<1>2. PICK lo, hi \in DOMAIN seen : L!IsBlock(stored[k], lo, hi)
  BY <1>1 DEF LinesKept, L!BlocksAreRuns
<1>3. /\ seen \in Seq(T!TraceEvent) /\ stored \in Seq(Seq(T!TraceEvent))
  BY DEF L!TypeOK
<1>4. /\ DOMAIN stored[k] = 1 .. Len(stored[k]) /\ DOMAIN seen = 1 .. Len(seen)
      /\ Len(stored[k]) \in Nat /\ Len(seen) \in Nat
  BY <1>3
<1>5. /\ lo \in 1 .. Len(seen) /\ hi \in lo .. Len(seen) /\ Len(stored[k]) = hi - lo + 1
      /\ \A a \in 1 .. Len(stored[k]) : stored[k][a] = seen[lo + a - 1]
  BY <1>2 DEF L!IsBlock
<1>6. \A a \in DOMAIN stored[k] : a \in Nat /\ lo + a - 1 \in DOMAIN seen
  BY <1>4, <1>5
<1>7. lo \in Nat \ {0}
  BY <1>4, <1>5
<1>8. \A a \in DOMAIN stored[k] : stored[k][a] = seen[lo + a - 1]
  BY <1>4, <1>5
<1> QED  BY <1>6, <1>7, <1>8

LEMMA HitsAtLoki == Traced /\ L!TypeOK /\ LinesKept => HitsStoredOnce /\ BlocksInCpuOrder
<1> SUFFICES ASSUME Traced, L!TypeOK, LinesKept PROVE HitsStoredOnce /\ BlocksInCpuOrder
  OBVIOUS
<1>1. HitsStoredOnce
  <2> SUFFICES ASSUME NEW j \in DOMAIN stored, NEW k \in DOMAIN stored,
                      NEW a \in DOMAIN stored[j], NEW b \in DOMAIN stored[k],
                      stored[j][a].at = stored[k][b].at
               PROVE  j = k /\ a = b
    BY DEF HitsStoredOnce
  <2>1. PICK m \in Nat \ {0} : \A i \in DOMAIN stored[j] :
          i \in Nat /\ m + i - 1 \in DOMAIN seen /\ stored[j][i] = seen[m + i - 1]
    BY BlockOfSeen
  <2>2. PICK n \in Nat \ {0} : \A i \in DOMAIN stored[k] :
          i \in Nat /\ n + i - 1 \in DOMAIN seen /\ stored[k][i] = seen[n + i - 1]
    BY BlockOfSeen
  <2>3. stored[j][a] \in T!Seen /\ stored[k][b] \in T!Seen
    BY <2>1, <2>2 DEF T!Seen
  <2>4. stored[j][a] = stored[k][b]
    BY <2>3 DEF Traced, T!EveryHitInOnePlace
  <2>5. j = k
    <3>1. stored[j][a] \in L!Range(stored[j]) /\ stored[k][b] \in L!Range(stored[k])
      BY DEF L!Range
    <3> QED  BY <2>4, <3>1 DEF LinesKept, L!OnePlacePerLine
  <2>6. m + a - 1 \in DOMAIN seen /\ m + b - 1 \in DOMAIN seen /\ seen[m + a - 1] = seen[m + b - 1]
    BY <2>1, <2>4, <2>5
  <2>7. m + a - 1 = m + b - 1
    BY <2>6 DEF Traced, T!EveryHitInOnePlace
  <2> QED  BY <2>1, <2>2, <2>5, <2>7
<1>2. BlocksInCpuOrder
  <2> SUFFICES ASSUME NEW k \in DOMAIN stored, NEW a \in DOMAIN stored[k], NEW b \in DOMAIN stored[k],
                      a < b, stored[k][a].cpu = stored[k][b].cpu
               PROVE  stored[k][a].at < stored[k][b].at
    BY DEF BlocksInCpuOrder
  <2>1. PICK m \in Nat \ {0} : \A i \in DOMAIN stored[k] :
          i \in Nat /\ m + i - 1 \in DOMAIN seen /\ stored[k][i] = seen[m + i - 1]
    BY BlockOfSeen
  <2>2. /\ m + a - 1 \in DOMAIN seen /\ m + b - 1 \in DOMAIN seen /\ m + a - 1 < m + b - 1
        /\ stored[k][a] = seen[m + a - 1] /\ stored[k][b] = seen[m + b - 1]
    BY <2>1
  <2> QED  BY <2>2 DEF Traced, T!CpuOrderKept
<1> QED  BY <1>1, <1>2

(* From the probe to Loki.  Whatever is lost on the way, nothing that       *)
(* arrives is there twice: not two lines of one probe hit, whichever pushes *)
(* were late or abandoned; and a stored block keeps the order of the hits   *)
(* of each CPU.                                                             *)
THEOREM OnceAtLoki == Spec => [](HitsStoredOnce /\ BlocksInCpuOrder)
BY RunningHolds, ShipperTyped, LinesHold, HitsAtLoki, PTL DEF Running

-----------------------------------------------------------------------------
\* What the exit log does not speak of: hits the kernel missed, and at most RingCap
\* per CPU that no poll has read.
ExitAccounts ==
  pc \in {"exitLog", "done"} =>
    /\ hits = exitLog.events + Cardinality(missed) + Cardinality(T!InRings)
    /\ Cardinality(T!InRings) <= Cardinality(Cpu) * RingCap

(* The number of events the exit log reports falls short of the probe hits  *)
(* by what the kernel missed and by what is still in the rings, which the   *)
(* monitor does not read again after the container is gone, and by nothing  *)
(* else.                                                                    *)
THEOREM ExitCount == Spec => []ExitAccounts
<1>1. TP!TracerConstants
  BY ComponentAssumptions DEF T!TracerConstants, TP!TracerConstants, T!IsFiniteSet, TP!IsFiniteSet
<1>2. TP!Spec => []TP!HitsAddUp
  BY <1>1, TP!AddingUp
<1>3. TP!HitsAddUp => /\ hits = Cardinality(missed) + Cardinality(T!InRings) + Len(seen)
                      /\ Cardinality(T!InRings) <= Cardinality(Cpu) * RingCap
  BY DEF TP!HitsAddUp, TP!Cardinality, Cardinality, TP!InRings, T!InRings
<1>4. TP!HitsAddUp => IsFiniteSet(missed) /\ IsFiniteSet(T!InRings)
  BY DEF TP!HitsAddUp, TP!IsFiniteSet, IsFiniteSet, TP!InRings, T!InRings
<1>5. ASSUME TP!HitsAddUp, ExitDescribesRun, Running PROVE ExitAccounts
  <2> SUFFICES ASSUME pc \in {"exitLog", "done"}
               PROVE  /\ hits = exitLog.events + Cardinality(missed) + Cardinality(T!InRings)
                      /\ Cardinality(T!InRings) <= Cardinality(Cpu) * RingCap
    BY DEF ExitAccounts
  <2>1. exitLog.events = Len(seen)
    BY <1>5 DEF ExitDescribesRun
  <2>2. Len(seen) \in Nat
    BY <1>5 DEF Running, Traced, T!TypeOK
  <2>3. Cardinality(missed) \in Nat /\ Cardinality(T!InRings) \in Nat
    BY <1>4, <1>5, FS_CardinalityType
  <2> QED  BY <1>3, <1>5, <2>1, <2>2, <2>3
<1> QED  BY <1>2, <1>5, TracerUsed, TracerIsTracer, ExitDescribes, RunningHolds, PTL

-----------------------------------------------------------------------------
(* The way out.  DrainedExit needs the fairness of the monitor thread, and  *)
(* stays with TLC; what does not need it is that nothing leads back into    *)
(* the loop, where poll() may block.                                        *)
StepsToEnd ==
  CASE pc = "flush" -> 7
    [] pc = "push" -> 6
    [] pc = "finalGnn" -> 5
    [] pc = "save" -> 4
    [] pc = "predict" -> 3
    [] pc = "exitLog" -> 2
    [] OTHER -> 0

OnTheWayOut ==
  child = "reaped" =>
    \/ pc \in {"finalGnn", "save", "predict", "exitLog", "done", "failed"}
    \/ pc \in {"flush", "push"} /\ ret = "finalGnn"

\* A step brings the monitor nearer to its end, or is none of the monitor thread.
EndsSoon ==
  child = "reaped" =>
    /\ child' = "reaped"
    /\ \/ StepsToEnd' < StepsToEnd
       \/ UNCHANGED <<pc, ret, by, timerVars, batch, push, graphVars, runnerVars, resultVars>>

LEMMA WayStep == OnTheWayOut /\ [Next]_vars => OnTheWayOut' /\ EndsSoon
<1> SUFFICES ASSUME OnTheWayOut, [Next]_vars PROVE OnTheWayOut' /\ EndsSoon
  OBVIOUS
<1> USE DEF OnTheWayOut, EndsSoon, Goto, CallFlush
<1> USE DEF kernelVars, runnerVars, shipperVars, timerVars, graphVars, resultVars
<1>1. CASE Load \/ Start \/ Started
  BY <1>1 DEF Load, Start, Started, T!Construct, T!SetCallback, T!AttachProbe, T!OpenBuffer, T!kernelVars
<1>2. CASE Fails
  BY <1>2 DEF Fails, T!Destroy, T!kernelVars, StepsToEnd
<1>3. CASE ChildGone \/ ChildAlive \/ Poll \/ NextRing \/ PollReturns
  BY <1>3 DEF ChildGone, ChildAlive, Poll, NextRing, PollReturns, T!Reap, T!BeginPoll, T!NextRing,
              T!kernelVars, T!runnerVars
<1>4. CASE Callback
  BY <1>4 DEF Callback, T!HandleEvent
<1>5. CASE FlushNothing \/ FlushStarts \/ FlushEnds
  BY <1>5 DEF FlushNothing, FlushStarts, FlushEnds, StepsToEnd
<1>6. CASE GnnTimer \/ FinalGnn \/ SaveGraph
  BY <1>6 DEF GnnTimer, FinalGnn, SaveGraph, StepsToEnd
<1>7. CASE \/ \E outcome \in GnnOutcomes : FinalPredict(outcome)
           \/ \E delivered \in BOOLEAN : Done(delivered)
  BY <1>7 DEF FinalPredict, Done, T!Destroy, T!kernelVars, StepsToEnd
<1>8. CASE Checks \/ LokiLate \/ Tick
  BY <1>8 DEF Checks, LokiLate, L!LokiLate, L!LateStore, L!LateDrop, Tick
<1>9. CASE System
  <2>1. child = "reaped" => child' = "reaped"
    BY <1>9 DEF System, T!Kernel, T!Syscall, T!Spawn, T!Exit, T!ChildExits, T!ChildZombie
  <2>2. UNCHANGED runnerVars
    BY <1>9 DEF System, T!Kernel, T!Syscall, T!Spawn, T!Exit, T!ChildExits, T!ChildZombie, T!runnerVars
  <2>3. child' = "reaped" => child = "reaped"
    BY <1>9 DEF System, T!Kernel, T!Syscall, T!Spawn, T!Exit, T!ChildExits, T!ChildZombie
  <2> QED  BY <1>9, <2>1, <2>2, <2>3 DEF System
<1>10. CASE UNCHANGED vars
  BY <1>10 DEF vars
<1> QED  BY <1>1, <1>2, <1>3, <1>4, <1>5, <1>6, <1>7, <1>8, <1>9, <1>10 DEF Next, MonitorThread

(* Once waitpid has returned the container process, the monitor is at most  *)
(* seven steps of its thread from its end: none of them polls, and neither  *)
(* a full batch, a flush timer nor anything outside leads back to a step    *)
(* that waits for events.                                                   *)
THEOREM Ending == Spec => []OnTheWayOut /\ [][EndsSoon]_vars
<1>1. Init => OnTheWayOut
  BY DEF Init, T!Init, OnTheWayOut
<1> QED  BY <1>1, WayStep, PTL DEF Spec
=============================================================================
