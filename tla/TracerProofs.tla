---------------------------- MODULE TracerProofs ----------------------------
(***************************************************************************)
(* Theorems about Tracer, for every set of processes and CPUs and every    *)
(* size of the rings: no probe hit is dropped or repeated between a ring   *)
(* and the callback, the events of one CPU arrive in their order, and the  *)
(* hits add up.                                                            *)
(***************************************************************************)
EXTENDS Tracer, SequenceTheorems, FiniteSetTheorems, TLAPS

USE DEF TracerConstants

\* An event that a handler reports is well typed.
LEMMA TracedType ==
  ASSUME TypeOK, NEW p \in DOMAIN parent, NEW type \in Type \cup {"exit"}, NEW c \in Cpu,
         hits < MaxHits
  PROVE  [pid |-> p, ppid |-> parent[p], type |-> type, at |-> hits + 1, cpu |-> c]
            \in TraceEvent
<1>1. p \in Pid /\ parent[p] \in Pid \cup {0}
  BY DEF TypeOK
<1>2. hits + 1 \in 1 .. MaxHits
  BY TracerAssumption DEF TypeOK
<1> QED  BY <1>1, <1>2 DEF TraceEvent

\* What a handler does to the rings and to the missed hits keeps their types.
LEMMA TraceType ==
  ASSUME TypeOK, NEW p \in DOMAIN parent, NEW type \in Type \cup {"exit"}, NEW c \in Cpu,
         Trace(p, type, c)
  PROVE  /\ hits' \in 0 .. MaxHits
         /\ missed' \in SUBSET TraceEvent
         /\ ring' \in [Cpu -> Seq(TraceEvent)]
<1> DEFINE e == [pid |-> p, ppid |-> parent[p], type |-> type, at |-> hits + 1, cpu |-> c]
<1>1. hits < MaxHits /\ hits' = hits + 1
  BY DEF Trace
<1>2. e \in TraceEvent
  BY <1>1, TracedType
<1>3. hits' \in 0 .. MaxHits
  BY <1>1, TracerAssumption DEF TypeOK
<1>4. \/ ring' = [ring EXCEPT ![c] = Append(@, e)] /\ missed' = missed
      \/ missed' = missed \cup {e} /\ ring' = ring
  BY DEF Trace
<1>5. Append(ring[c], e) \in Seq(TraceEvent)
  BY <1>2 DEF TypeOK
<1> HIDE DEF e
<1> QED  BY <1>2, <1>3, <1>4, <1>5 DEF TypeOK

\* Processes that end are replaced by process 1 in the table.
LEMMA WithoutType ==
  ASSUME TypeOK, NEW p \in Pid \ {1}
  PROVE  /\ DOMAIN Without(p) = DOMAIN parent \ {p}
         /\ Without(p) \in [DOMAIN parent \ {p} -> Pid \cup {0}]
  BY TracerAssumption DEF Without, TypeOK

LEMMA InitialType == Init => TypeOK
<1> SUFFICES ASSUME Init PROVE TypeOK
  OBVIOUS
<1>1. /\ DOMAIN parent = {1, Child} /\ 1 \in Pid /\ Child \in Pid
      /\ \A p \in {1, Child} : parent[p] \in Pid \cup {0}
      /\ parent \in [{1, Child} -> Pid \cup {0}]
  BY TracerAssumption DEF Init
<1>2. 0 \in 0 .. MaxHits /\ 0 \in 0 .. Probes
  BY TracerAssumption
<1>3. /\ DOMAIN parent \subseteq Pid /\ 1 \in DOMAIN parent
      /\ parent \in [DOMAIN parent -> Pid \cup {0}]
      /\ child \in {"running", "exiting"} <=> Child \in DOMAIN parent
  BY <1>1 DEF Init
<1>4. ring \in [Cpu -> Seq(TraceEvent)]
  BY DEF Init
<1>5. /\ child \in {"running", "exiting", "zombie", "reaped"}
      /\ runner \in {"new", "loaded", "starting", "open", "gone"}
      /\ callback \in BOOLEAN
  BY DEF Init
<1>6. hits \in 0 .. MaxHits /\ attached \in 0 .. Probes
  BY <1>2 DEF Init
<1>7. missed \in SUBSET TraceEvent /\ ready \in Seq(Cpu) /\ seen \in Seq(TraceEvent)
  BY DEF Init
<1> QED  BY <1>3, <1>4, <1>5, <1>6, <1>7 DEF TypeOK

(* The process table, the rings and the BpfRunner keep their types.         *)
THEOREM Typing == Spec => []TypeOK
<1>1. Init => TypeOK
  BY InitialType
<1>2. TypeOK /\ [Next]_tracerVars => TypeOK'
  <2> SUFFICES ASSUME TypeOK, [Next]_tracerVars
               PROVE  TypeOK'
    OBVIOUS
  <2>1. ASSUME NEW p \in Pid, NEW type \in Type, NEW c \in Cpu, Syscall(p, type, c)
        PROVE  TypeOK'
    BY <2>1, TraceType DEF Syscall, TypeOK, runnerVars
  <2>2. ASSUME NEW p \in Pid, NEW q \in Pid, Spawn(p, q)
        PROVE  TypeOK'
    BY <2>2 DEF Spawn, TypeOK, runnerVars
  <2>3. ASSUME NEW p \in Pid, NEW c \in Cpu, Exit(p, c)
        PROVE  TypeOK'
    BY <2>3, TraceType, WithoutType DEF Exit, TypeOK, runnerVars
  <2>4. ASSUME NEW c \in Cpu, ChildExits(c)
        PROVE  TypeOK'
    <3>1. Child \in DOMAIN parent
      BY <2>4 DEF ChildExits, TypeOK
    <3> QED  BY <2>4, <3>1, TraceType DEF ChildExits, TypeOK, runnerVars
  <2>5. CASE ChildZombie
    <3>1. /\ DOMAIN parent' = DOMAIN parent \ {Child}
          /\ parent' \in [DOMAIN parent' -> Pid \cup {0}]
          /\ Child # 1
      BY <2>5, WithoutType, TracerAssumption DEF ChildZombie
    <3> QED  BY <2>5, <3>1 DEF ChildZombie, TypeOK, runnerVars
  <2>6. CASE Construct
    BY <2>6 DEF Construct, TypeOK, kernelVars
  <2>7. CASE SetCallback
    BY <2>7 DEF SetCallback, TypeOK, kernelVars
  <2>8. CASE AttachProbe
    BY <2>8, TracerAssumption DEF AttachProbe, TypeOK, kernelVars
  <2>9. CASE OpenBuffer
    BY <2>9 DEF OpenBuffer, TypeOK, kernelVars
  <2>10. CASE Destroy
    BY <2>10, TracerAssumption DEF Destroy, TypeOK, kernelVars
  <2>11. CASE BeginPoll
    <3>1. ready' \in Seq(Cpu)
      <4> DEFINE full == {c \in Cpu : ring[c] # <<>>}
      <4>1. Cardinality(full) \in Nat
        BY TracerAssumption, FS_Subset, FS_CardinalityType
      <4>2. ready' \in SetToSeqs(full)
        BY <2>11 DEF BeginPoll
      <4>3. ready' \in [1 .. Cardinality(full) -> full]
        BY <4>2 DEF SetToSeqs
      <4>4. ready' \in [1 .. Cardinality(full) -> Cpu]
        BY <4>3
      <4> HIDE DEF full
      <4> QED  BY <4>1, <4>4, SeqDef
    <3> QED  BY <2>11, <3>1 DEF BeginPoll, TypeOK, kernelVars
  <2>12. CASE HandleEvent
    <3>1. Head(ready) \in Cpu
      BY <2>12 DEF HandleEvent, TypeOK
    <3>2. /\ Tail(ring[Head(ready)]) \in Seq(TraceEvent)
          /\ Head(ring[Head(ready)]) \in TraceEvent
      BY <2>12, <3>1 DEF HandleEvent, TypeOK
    <3>3. seen' \in Seq(TraceEvent)
      BY <2>12, <3>2 DEF HandleEvent, TypeOK
    <3>4. ring' \in [Cpu -> Seq(TraceEvent)]
      BY <2>12, <3>2 DEF HandleEvent, TypeOK
    <3> QED  BY <2>12, <3>3, <3>4 DEF HandleEvent, TypeOK
  <2>13. CASE NextRing
    BY <2>13 DEF NextRing, TypeOK, kernelVars
  <2>14. CASE Reap
    BY <2>14 DEF Reap, TypeOK, runnerVars
  <2>15. CASE UNCHANGED tracerVars
    BY <2>15 DEF tracerVars, kernelVars, runnerVars, TypeOK
  <2> QED
    BY <2>1, <2>2, <2>3, <2>4, <2>5, <2>6, <2>7, <2>8, <2>9, <2>10, <2>11, <2>12,
       <2>13, <2>14, <2>15 DEF Next, Kernel, Runner
<1> QED  BY <1>1, <1>2, PTL DEF Spec

-----------------------------------------------------------------------------
\* The rings are read only while the buffer is open, and then the callback is
\* set: handle_event never takes its early return.
CallbackSet ==
  /\ runner \in {"starting", "open"} => callback
  /\ ready # <<>> => runner = "open"

PlaceInv == TypeOK /\ CallbackSet /\ EveryHitInOnePlace /\ CpuOrderKept

Everywhere == missed \cup InRings \cup Seen

\* A step that touches neither the rings nor the histories.
LEMMA Untouched ==
  ASSUME PlaceInv, UNCHANGED <<hits, missed, ring, seen>>
  PROVE  EveryHitInOnePlace' /\ CpuOrderKept'
BY DEF PlaceInv, EveryHitInOnePlace, CpuOrderKept, InRings, Seen

\* A probe hit gets the next number, which no event has yet.
LEMMA FreshHit ==
  ASSUME PlaceInv, NEW e \in TraceEvent, e.at = hits + 1
  PROVE  /\ e \notin Everywhere
         /\ \A f \in Everywhere : f.at < e.at
         /\ {f.at : f \in Everywhere \cup {e}} = 1 .. hits + 1
<1>1. {f.at : f \in Everywhere} = 1 .. hits
  BY DEF PlaceInv, EveryHitInOnePlace, Everywhere
<1>2. hits \in Nat
  BY TracerAssumption DEF PlaceInv, TypeOK
<1>3. \A f \in Everywhere : f.at \in 1 .. hits
  BY <1>1
<1>4. {f.at : f \in Everywhere \cup {e}} = {f.at : f \in Everywhere} \cup {e.at}
  OBVIOUS
<1> QED  BY <1>1, <1>2, <1>3, <1>4

LEMMA HitPlaced ==
  ASSUME PlaceInv, NEW p \in DOMAIN parent, NEW type \in Type \cup {"exit"}, NEW c \in Cpu,
         Trace(p, type, c), UNCHANGED seen
  PROVE  EveryHitInOnePlace' /\ CpuOrderKept'
<1> DEFINE e == [pid |-> p, ppid |-> parent[p], type |-> type, at |-> hits + 1, cpu |-> c]
<1>1. hits < MaxHits /\ hits' = hits + 1
  BY DEF Trace
<1>2. e \in TraceEvent /\ e.at = hits + 1 /\ e.cpu = c
  BY <1>1, TracedType DEF PlaceInv
<1>3. \/ ring' = [ring EXCEPT ![c] = Append(@, e)] /\ missed' = missed
      \/ missed' = missed \cup {e} /\ ring' = ring
  BY DEF Trace
<1> HIDE DEF e
<1>4. /\ e \notin Everywhere
      /\ \A f \in Everywhere : f.at < e.at
      /\ {f.at : f \in Everywhere \cup {e}} = 1 .. hits'
  BY <1>1, <1>2, FreshHit
<1>5. Seen' = Seen
  BY DEF Seen
<1>6. CASE missed' = missed \cup {e} /\ ring' = ring
  <2>1. InRings' = InRings /\ Everywhere' = Everywhere \cup {e}
    BY <1>5, <1>6 DEF InRings, Everywhere
  <2>2. EveryHitInOnePlace'
    BY <1>4, <1>5, <1>6, <2>1 DEF PlaceInv, EveryHitInOnePlace, Everywhere
  <2>3. CpuOrderKept'
    BY <1>5, <1>6 DEF PlaceInv, CpuOrderKept
  <2> QED  BY <2>2, <2>3
<1>7. CASE ring' = [ring EXCEPT ![c] = Append(@, e)] /\ missed' = missed
  <2>1. /\ ring[c] \in Seq(TraceEvent) /\ DOMAIN ring = Cpu
        /\ ring'[c] = Append(ring[c], e)
        /\ \A d \in Cpu : d # c => ring'[d] = ring[d]
    BY <1>7 DEF PlaceInv, TypeOK
  <2>2. /\ DOMAIN ring[c] = 1 .. Len(ring[c]) /\ Len(ring[c]) \in Nat
        /\ DOMAIN ring'[c] = 1 .. Len(ring[c]) + 1
        /\ \A i \in 1 .. Len(ring[c]) : ring'[c][i] = ring[c][i]
        /\ ring'[c][Len(ring[c]) + 1] = e
    BY <1>2, <2>1, AppendProperties, LenProperties
  <2>3. InRings' = InRings \cup {e}
    <3>1. {ring'[c][i] : i \in DOMAIN ring'[c]} = {ring[c][i] : i \in DOMAIN ring[c]} \cup {e}
      BY <2>2
    <3>2. \A d \in Cpu : d # c =>
            {ring'[d][i] : i \in DOMAIN ring'[d]} = {ring[d][i] : i \in DOMAIN ring[d]}
      BY <2>1
    <3> QED  BY <3>1, <3>2 DEF InRings
  <2>4. Everywhere' = Everywhere \cup {e}
    BY <1>5, <1>7, <2>3 DEF Everywhere
  <2>5. EveryHitInOnePlace'
    BY <1>4, <1>5, <1>7, <2>3, <2>4 DEF PlaceInv, EveryHitInOnePlace, Everywhere
  <2>6. CpuOrderKept'
    <3>1. \A i \in DOMAIN ring[c] : ring[c][i] \in Everywhere
      BY DEF Everywhere, InRings
    <3>2. \A f \in Seen : f \in Everywhere
      BY DEF Everywhere
    <3>3. ASSUME NEW d \in Cpu
          PROVE  /\ \A i \in DOMAIN ring'[d] : ring'[d][i].cpu = d
                 /\ \A i, j \in DOMAIN ring'[d] : i < j => ring'[d][i].at < ring'[d][j].at
                 /\ \A f \in Seen : f.cpu = d => \A i \in DOMAIN ring'[d] : f.at < ring'[d][i].at
      <4>1. CASE d # c
        BY <2>1, <4>1 DEF PlaceInv, CpuOrderKept
      <4>2. CASE d = c
        <5>1. /\ \A i \in DOMAIN ring[c] : ring[c][i].cpu = c
              /\ \A i, j \in DOMAIN ring[c] : i < j => ring[c][i].at < ring[c][j].at
              /\ \A f \in Seen : f.cpu = c => \A i \in DOMAIN ring[c] : f.at < ring[c][i].at
          BY DEF PlaceInv, CpuOrderKept
        <5>2. \A i \in DOMAIN ring'[c] : ring'[c][i].cpu = c
          BY <1>2, <2>2, <5>1
        <5>3. \A i, j \in DOMAIN ring'[c] : i < j => ring'[c][i].at < ring'[c][j].at
          <6> SUFFICES ASSUME NEW i \in DOMAIN ring'[c], NEW j \in DOMAIN ring'[c], i < j
                       PROVE  ring'[c][i].at < ring'[c][j].at
            OBVIOUS
          <6>1. i \in 1 .. Len(ring[c]) /\ ring'[c][i] = ring[c][i]
            BY <2>2
          <6>2. CASE j \in 1 .. Len(ring[c])
            BY <2>2, <5>1, <6>1, <6>2
          <6>3. CASE j = Len(ring[c]) + 1
            BY <1>4, <2>2, <3>1, <6>1, <6>3
          <6> QED  BY <2>2, <6>2, <6>3
        <5>4. \A f \in Seen : f.cpu = c => \A i \in DOMAIN ring'[c] : f.at < ring'[c][i].at
          <6> SUFFICES ASSUME NEW f \in Seen, f.cpu = c, NEW i \in DOMAIN ring'[c]
                       PROVE  f.at < ring'[c][i].at
            OBVIOUS
          <6>1. CASE i \in 1 .. Len(ring[c])
            BY <2>2, <5>1, <6>1
          <6>2. CASE i = Len(ring[c]) + 1
            BY <1>4, <2>2, <3>2, <6>2
          <6> QED  BY <2>2, <6>1, <6>2
        <5> QED  BY <4>2, <5>2, <5>3, <5>4
      <4> QED  BY <4>1, <4>2
    <3> QED  BY <1>5, <3>3 DEF PlaceInv, CpuOrderKept
  <2> QED  BY <2>5, <2>6
<1> QED  BY <1>3, <1>6, <1>7

LEMMA EventHandled ==
  ASSUME PlaceInv, HandleEvent
  PROVE  EveryHitInOnePlace' /\ CpuOrderKept'
<1> DEFINE c == Head(ready)
           h == Head(ring[c])
<1>1. c \in Cpu /\ ring[c] # <<>> /\ ring[c] \in Seq(TraceEvent) /\ DOMAIN ring = Cpu
  BY DEF HandleEvent, PlaceInv, TypeOK
<1>2. /\ h \in TraceEvent /\ h = ring[c][1]
      /\ Len(ring[c]) \in Nat \ {0} /\ DOMAIN ring[c] = 1 .. Len(ring[c])
      /\ ring' = [ring EXCEPT ![c] = Tail(@)]
      /\ seen' = Append(seen, h)
      /\ UNCHANGED <<hits, missed>>
  <2>1. callback
    BY DEF HandleEvent, PlaceInv, CallbackSet
  <2> QED  BY <1>1, <2>1, HeadTailProperties, LenProperties, EmptySeq DEF HandleEvent
<1>3. /\ ring'[c] = Tail(ring[c])
      /\ \A d \in Cpu : d # c => ring'[d] = ring[d]
      /\ DOMAIN ring'[c] = 1 .. Len(ring[c]) - 1
      /\ \A i \in 1 .. Len(ring[c]) - 1 : ring'[c][i] = ring[c][i + 1]
  <2>1. /\ Tail(ring[c]) \in Seq(TraceEvent)
        /\ Len(Tail(ring[c])) = Len(ring[c]) - 1
        /\ \A i \in 1 .. Len(Tail(ring[c])) : Tail(ring[c])[i] = ring[c][i + 1]
    BY <1>1, HeadTailProperties
  <2> QED  BY <1>1, <1>2, <2>1, LenProperties
<1>4. /\ DOMAIN seen = 1 .. Len(seen) /\ Len(seen) \in Nat
      /\ DOMAIN seen' = 1 .. Len(seen) + 1
      /\ \A i \in 1 .. Len(seen) : seen'[i] = seen[i]
      /\ seen'[Len(seen) + 1] = h
  BY <1>2, AppendProperties, LenProperties DEF PlaceInv, TypeOK
<1> HIDE DEF h, c
<1>5. /\ \A d \in Cpu : \A i \in DOMAIN ring[d] : ring[d][i].cpu = d
      /\ \A d \in Cpu : \A i, j \in DOMAIN ring[d] : i < j => ring[d][i].at < ring[d][j].at
      /\ \A d \in Cpu : \A f \in Seen : f.cpu = d => \A i \in DOMAIN ring[d] : f.at < ring[d][i].at
      /\ \A i, j \in DOMAIN seen : i < j /\ seen[i].cpu = seen[j].cpu => seen[i].at < seen[j].at
  BY DEF PlaceInv, CpuOrderKept
<1>6. h.cpu = c /\ h.at \in Nat
  BY <1>1, <1>2, <1>5 DEF TraceEvent
<1>7. \A i \in DOMAIN ring'[c] : ring'[c][i].at > h.at /\ ring'[c][i] \in TraceEvent
  BY <1>1, <1>2, <1>3, <1>5, ElementOfSeq
<1>8. Seen' = Seen \cup {h}
  BY <1>4 DEF Seen
<1>9. h \in InRings
  BY <1>1, <1>2 DEF InRings
<1>10. InRings' = InRings \ {h}
  <2>1. ASSUME NEW d \in Cpu, NEW i \in DOMAIN ring'[d]
        PROVE  ring'[d][i] \in InRings \ {h}
    <3>1. CASE d = c
      <4>1. i + 1 \in DOMAIN ring[c] /\ ring'[c][i] = ring[c][i + 1]
        BY <1>2, <1>3, <2>1, <3>1
      <4>2. ring'[c][i] # h
        BY <1>6, <1>7, <2>1, <3>1
      <4> QED  BY <1>1, <3>1, <4>1, <4>2 DEF InRings
    <3>2. CASE d # c
      <4>1. ring'[d][i] = ring[d][i] /\ i \in DOMAIN ring[d] /\ ring[d][i].cpu = d
        BY <1>3, <1>5, <2>1, <3>2
      <4> QED  BY <1>6, <3>2, <4>1 DEF InRings
    <3> QED  BY <3>1, <3>2
  <2>2. ASSUME NEW d \in Cpu, NEW i \in DOMAIN ring[d], ring[d][i] # h
        PROVE  ring[d][i] \in InRings'
    <3>1. CASE d = c
      <4>1. i # 1 /\ i \in 1 .. Len(ring[c])
        BY <1>2, <2>2, <3>1
      <4>2. i - 1 \in DOMAIN ring'[c] /\ ring'[c][i - 1] = ring[c][i]
        BY <1>2, <1>3, <4>1
      <4> QED  BY <1>1, <3>1, <4>2 DEF InRings
    <3>2. CASE d # c
      BY <1>3, <2>2, <3>2 DEF InRings
    <3> QED  BY <3>1, <3>2
  <2> QED  BY <2>1, <2>2 DEF InRings
<1>11. EveryHitInOnePlace'
  <2>1. /\ missed' = missed
        /\ missed' \cup InRings' \cup Seen' = missed \cup InRings \cup Seen
    BY <1>2, <1>8, <1>9, <1>10
  <2>2. h \notin missed /\ h \notin Seen
    BY <1>9 DEF PlaceInv, EveryHitInOnePlace
  <2>3. \A i, j \in DOMAIN seen' : seen'[i] = seen'[j] => i = j
    <3>1. \A i \in 1 .. Len(seen) : seen[i] # h
      BY <1>4, <2>2 DEF Seen
    <3> QED  BY <1>4, <3>1 DEF PlaceInv, EveryHitInOnePlace
  <2>4. /\ missed' \cap InRings' = {} /\ missed' \cap Seen' = {} /\ InRings' \cap Seen' = {}
    BY <1>8, <1>10, <2>1, <2>2 DEF PlaceInv, EveryHitInOnePlace
  <2> QED  BY <1>2, <2>1, <2>3, <2>4 DEF PlaceInv, EveryHitInOnePlace
<1>12. CpuOrderKept'
  <2>1. \A i, j \in DOMAIN seen' :
          i < j /\ seen'[i].cpu = seen'[j].cpu => seen'[i].at < seen'[j].at
    <3>1. \A i \in 1 .. Len(seen) : seen[i].cpu = c => seen[i].at < h.at
      BY <1>1, <1>2, <1>4, <1>5 DEF Seen
    <3> QED  BY <1>4, <1>5, <1>6, <3>1
  <2>2. ASSUME NEW d \in Cpu
        PROVE  /\ \A i \in DOMAIN ring'[d] : ring'[d][i].cpu = d
               /\ \A i, j \in DOMAIN ring'[d] : i < j => ring'[d][i].at < ring'[d][j].at
               /\ \A f \in Seen' : f.cpu = d => \A i \in DOMAIN ring'[d] : f.at < ring'[d][i].at
    <3>1. CASE d # c
      BY <1>3, <1>5, <1>6, <1>8, <3>1
    <3>2. CASE d = c
      <4>1. \A i \in DOMAIN ring'[c] : i + 1 \in DOMAIN ring[c] /\ ring'[c][i] = ring[c][i + 1]
        BY <1>2, <1>3
      <4>2. /\ \A i \in DOMAIN ring'[c] : ring'[c][i].cpu = c
            /\ \A f \in Seen : f.cpu = c => \A i \in DOMAIN ring'[c] : f.at < ring'[c][i].at
        BY <1>1, <1>5, <4>1
      <4>3. \A i, j \in DOMAIN ring'[c] : i < j => ring'[c][i].at < ring'[c][j].at
        <5> SUFFICES ASSUME NEW i \in DOMAIN ring'[c], NEW j \in DOMAIN ring'[c], i < j
                     PROVE  ring'[c][i].at < ring'[c][j].at
          OBVIOUS
        <5>1. i + 1 < j + 1 /\ i + 1 \in DOMAIN ring[c] /\ j + 1 \in DOMAIN ring[c]
          BY <1>2, <1>3, <4>1
        <5> QED  BY <1>1, <1>5, <4>1, <5>1
      <4>4. \A i \in DOMAIN ring'[c] : h.at < ring'[c][i].at
        BY <1>1, <1>2, <1>3, <1>5
      <4> QED  BY <1>8, <3>2, <4>2, <4>3, <4>4
    <3> QED  BY <3>1, <3>2
  <2> QED  BY <2>1, <2>2 DEF CpuOrderKept
<1> QED  BY <1>11, <1>12

LEMMA PlaceInductive ==
  ASSUME PlaceInv, TypeOK', [Next]_tracerVars
  PROVE  PlaceInv'
<1>1. TypeOK /\ CallbackSet
  BY DEF PlaceInv
<1>2. ASSUME NEW p \in Pid, NEW type \in Type, NEW c \in Cpu, Syscall(p, type, c)
      PROVE  PlaceInv'
  BY <1>1, <1>2, HitPlaced DEF Syscall, PlaceInv, CallbackSet, runnerVars
<1>3. ASSUME NEW p \in Pid, NEW q \in Pid, Spawn(p, q)
      PROVE  PlaceInv'
  BY <1>1, <1>3, Untouched DEF Spawn, PlaceInv, CallbackSet, runnerVars
<1>4. ASSUME NEW p \in Pid, NEW c \in Cpu, Exit(p, c)
      PROVE  PlaceInv'
  BY <1>1, <1>4, HitPlaced DEF Exit, PlaceInv, CallbackSet, runnerVars
<1>5. ASSUME NEW c \in Cpu, ChildExits(c)
      PROVE  PlaceInv'
  <2>1. Child \in DOMAIN parent
    BY <1>1, <1>5 DEF ChildExits, TypeOK
  <2> QED  BY <1>1, <1>5, <2>1, HitPlaced DEF ChildExits, PlaceInv, CallbackSet, runnerVars
<1>6. CASE ChildZombie \/ Reap
  BY <1>1, <1>6, Untouched DEF ChildZombie, Reap, PlaceInv, CallbackSet, runnerVars
<1>7. CASE Construct \/ SetCallback \/ AttachProbe \/ OpenBuffer \/ Destroy
  BY <1>1, <1>7, Untouched
     DEF Construct, SetCallback, AttachProbe, OpenBuffer, Destroy, PlaceInv, CallbackSet, kernelVars
<1>8. CASE BeginPoll \/ NextRing
  <2>1. runner = "open"
    BY <1>1, <1>8 DEF BeginPoll, NextRing, CallbackSet
  <2> QED  BY <1>1, <1>8, <2>1, Untouched DEF BeginPoll, NextRing, PlaceInv, CallbackSet, kernelVars
<1>9. CASE HandleEvent
  BY <1>1, <1>9, EventHandled DEF HandleEvent, PlaceInv, CallbackSet
<1>10. CASE UNCHANGED tracerVars
  BY <1>1, <1>10, Untouched DEF tracerVars, kernelVars, runnerVars, PlaceInv, CallbackSet
<1> QED
  BY <1>2, <1>3, <1>4, <1>5, <1>6, <1>7, <1>8, <1>9, <1>10 DEF Next, Kernel, Runner

LEMMA PlaceInitially == Init => PlaceInv
<1> SUFFICES ASSUME Init PROVE PlaceInv
  OBVIOUS
<1>1. TypeOK
  BY InitialType
<1>2. /\ InRings = {} /\ Seen = {} /\ missed = {} /\ 1 .. hits = {}
      /\ seen = <<>> /\ DOMAIN seen = {} /\ \A c \in Cpu : DOMAIN ring[c] = {}
  BY DEF Init, InRings, Seen
<1>3. CallbackSet
  BY DEF Init, CallbackSet
<1>4. EveryHitInOnePlace
  BY <1>2 DEF EveryHitInOnePlace
<1>5. CpuOrderKept
  BY <1>2 DEF CpuOrderKept
<1> QED  BY <1>1, <1>3, <1>4, <1>5 DEF PlaceInv

(* Every probe hit is missed by the kernel, waiting in a ring, or was given *)
(* to the callback exactly once, for any number of CPUs and ring size.      *)
THEOREM Accounting == Spec => []EveryHitInOnePlace
<1>1. Init => PlaceInv
  BY PlaceInitially
<1>2. PlaceInv /\ TypeOK' /\ [Next]_tracerVars => PlaceInv'
  BY PlaceInductive
<1>3. PlaceInv => EveryHitInOnePlace
  BY DEF PlaceInv
<1> QED  BY <1>1, <1>2, <1>3, Typing, PTL DEF Spec

(* The events of one CPU reach the callback in the order of their hits.     *)
THEOREM CpuOrder == Spec => []CpuOrderKept
<1>1. Init => PlaceInv
  BY PlaceInitially
<1>2. PlaceInv /\ TypeOK' /\ [Next]_tracerVars => PlaceInv'
  BY PlaceInductive
<1>3. PlaceInv => CpuOrderKept
  BY DEF PlaceInv
<1> QED  BY <1>1, <1>2, <1>3, Typing, PTL DEF Spec

-----------------------------------------------------------------------------
(* An event names a process that is not its own parent, and a CPU that the  *)
(* process may run on: what the users of Tracer take for granted.           *)
Plausible(e) == e.pid # e.ppid /\ e.cpu \in Affinity[e.pid]

EventsPlausible ==
  /\ parent[1] = 0 /\ \A p \in DOMAIN parent : parent[p] # p
  /\ \A e \in InRings \cup Seen : Plausible(e)

\* A handler adds one event to the rings, or none.
LEMMA HitAdded ==
  ASSUME TypeOK, EventsPlausible, NEW p \in DOMAIN parent, NEW type \in Type \cup {"exit"},
         NEW c \in Cpu, Trace(p, type, c), UNCHANGED seen
  PROVE  \A e \in InRings' \cup Seen' : Plausible(e)
<1> DEFINE e == [pid |-> p, ppid |-> parent[p], type |-> type, at |-> hits + 1, cpu |-> c]
<1>1. ring' = [ring EXCEPT ![c] = Append(@, e)] \/ ring' = ring
  BY DEF Trace
<1>2. Plausible(e)
  BY DEF Trace, EventsPlausible, Plausible
<1>3. e \in TraceEvent
  BY TracedType DEF Trace
<1> HIDE DEF e
<1>4. CASE ring' = [ring EXCEPT ![c] = Append(@, e)]
  <2>1. ASSUME NEW d \in Cpu, NEW i \in DOMAIN ring'[d]
        PROVE  ring'[d][i] \in InRings \cup {e}
    <3>1. CASE d # c
      BY <1>4, <2>1, <3>1 DEF TypeOK, InRings
    <3>2. CASE d = c
      <4>1. ring'[d] = Append(ring[d], e) /\ ring[d] \in Seq(TraceEvent)
        BY <1>4, <3>2 DEF TypeOK
      <4>2. (i \in DOMAIN ring[d] /\ ring'[d][i] = ring[d][i]) \/ ring'[d][i] = e
        BY <1>3, <4>1, <2>1, AppendProperties, LenProperties
      <4> QED  BY <4>2 DEF InRings
    <3> QED  BY <3>1, <3>2
  <2>2. InRings' \subseteq InRings \cup {e} /\ Seen' = Seen
    BY <2>1 DEF InRings, Seen
  <2> QED  BY <1>2, <2>2 DEF EventsPlausible
<1>5. CASE ring' = ring
  <2>1. InRings' = InRings /\ Seen' = Seen
    BY <1>5 DEF InRings, Seen
  <2> QED  BY <2>1 DEF EventsPlausible
<1> QED  BY <1>1, <1>4, <1>5

\* handle_event moves one event from its ring to the history.
LEMMA HitMoved ==
  ASSUME TypeOK, HandleEvent
  PROVE  InRings' \cup Seen' \subseteq InRings \cup Seen
<1> DEFINE c == Head(ready)
<1>1. c \in Cpu /\ ring[c] # <<>> /\ ring[c] \in Seq(TraceEvent) /\ ring' = [ring EXCEPT ![c] = Tail(@)]
  BY DEF HandleEvent, TypeOK
<1>2. 1 \in DOMAIN ring[c] /\ Head(ring[c]) = ring[c][1]
  BY <1>1
<1>3. Head(ring[c]) \in InRings /\ Head(ring[c]) \in TraceEvent
  BY <1>1, <1>2 DEF InRings
<1>4. seen' = Append(seen, Head(ring[c])) \/ seen' = seen
  BY DEF HandleEvent
<1> HIDE DEF c
<1>5. Seen' \subseteq Seen \cup {Head(ring[c])}
  <2>1. seen \in Seq(TraceEvent)
    BY DEF TypeOK
  <2> QED  BY <1>3, <1>4, <2>1, AppendProperties, LenProperties DEF Seen
<1>6. InRings' \subseteq InRings
  <2>1. ASSUME NEW d \in Cpu, NEW i \in DOMAIN ring'[d]
        PROVE  ring'[d][i] \in InRings
    <3>1. CASE d # c
      BY <1>1, <2>1, <3>1 DEF TypeOK, InRings
    <3>2. CASE d = c
      <4>1. ring'[c] = Tail(ring[c])
        BY <1>1 DEF TypeOK
      <4>2. /\ Len(Tail(ring[c])) = Len(ring[c]) - 1 /\ Tail(ring[c]) \in Seq(TraceEvent)
            /\ \A k \in 1 .. Len(Tail(ring[c])) : Tail(ring[c])[k] = ring[c][k + 1]
        BY <1>1, HeadTailProperties
      <4>3. i \in 1 .. Len(ring[c]) - 1 /\ Len(ring[c]) \in Nat
        BY <1>1, <2>1, <3>2, <4>1, <4>2, LenProperties
      <4>4. i + 1 \in 1 .. Len(ring[c]) /\ i \in 1 .. Len(Tail(ring[c]))
        BY <4>2, <4>3
      <4>5. i + 1 \in DOMAIN ring[c] /\ Tail(ring[c])[i] = ring[c][i + 1]
        BY <1>1, <4>2, <4>4, LenProperties
      <4> QED  BY <1>1, <3>2, <4>1, <4>5 DEF InRings
    <3> QED  BY <3>1, <3>2
  <2> QED  BY <2>1 DEF InRings
<1> QED  BY <1>3, <1>5, <1>6

(* Every event that is read names a parent other than its process and a CPU *)
(* the process may run on (fill_data).                                      *)
THEOREM Plausibility == Spec => []EventsPlausible
<1>1. Init => EventsPlausible
  <2> SUFFICES ASSUME Init PROVE EventsPlausible
    OBVIOUS
  <2>1. InRings = {} /\ Seen = {}
    BY DEF Init, InRings, Seen
  <2> QED  BY <2>1, TracerAssumption DEF Init, EventsPlausible
<1>2. TypeOK /\ EventsPlausible /\ [Next]_tracerVars => EventsPlausible'
  <2> SUFFICES ASSUME TypeOK, EventsPlausible, [Next]_tracerVars PROVE EventsPlausible'
    OBVIOUS
  <2> USE DEF kernelVars, runnerVars
  <2>1. ASSUME UNCHANGED <<ring, seen>> PROVE \A e \in InRings' \cup Seen' : Plausible(e)
    BY <2>1 DEF EventsPlausible, InRings, Seen
  <2>2. ASSUME NEW p \in DOMAIN parent \ {1}, parent' = Without(p)
        PROVE  parent'[1] = 0 /\ \A q \in DOMAIN parent' : parent'[q] # q
    <3>1. p \in Nat \ {0} /\ 1 \in DOMAIN parent
      BY TracerAssumption DEF TypeOK
    <3> QED  BY <2>2, <3>1 DEF Without, EventsPlausible
  <2>3. ASSUME NEW p \in Pid, NEW type \in Type, NEW c \in Cpu, Syscall(p, type, c)
        PROVE  EventsPlausible'
    BY <2>3, HitAdded DEF Syscall, EventsPlausible
  <2>4. ASSUME NEW p \in Pid, NEW q \in Pid, Spawn(p, q)
        PROVE  EventsPlausible'
    <3>1. parent'[1] = 0 /\ \A r \in DOMAIN parent' : parent'[r] # r
      BY <2>4 DEF Spawn, EventsPlausible, TypeOK
    <3> QED  BY <2>1, <2>4, <3>1 DEF Spawn, EventsPlausible
  <2>5. ASSUME NEW p \in Pid, NEW c \in Cpu, Exit(p, c)
        PROVE  EventsPlausible'
    BY <2>2, <2>5, HitAdded DEF Exit, EventsPlausible
  <2>6. ASSUME NEW c \in Cpu, ChildExits(c)
        PROVE  EventsPlausible'
    <3>1. Child \in DOMAIN parent
      BY <2>6 DEF ChildExits, TypeOK
    <3> QED  BY <2>6, <3>1, HitAdded DEF ChildExits, EventsPlausible
  <2>7. CASE ChildZombie
    <3>1. Child \in DOMAIN parent \ {1}
      BY <2>7, TracerAssumption DEF ChildZombie, TypeOK
    <3> QED  BY <2>1, <2>2, <2>7, <3>1 DEF ChildZombie, EventsPlausible
  <2>8. CASE Construct \/ SetCallback \/ AttachProbe \/ OpenBuffer \/ Destroy \/ BeginPoll \/ NextRing \/ Reap
    <3>1. UNCHANGED <<parent, ring, seen>>
      BY <2>8 DEF Construct, SetCallback, AttachProbe, OpenBuffer, Destroy, BeginPoll, NextRing, Reap
    <3> QED  BY <2>1, <3>1 DEF EventsPlausible
  <2>9. CASE HandleEvent
    BY <2>9, HitMoved DEF HandleEvent, EventsPlausible
  <2>10. CASE UNCHANGED tracerVars
    BY <2>1, <2>10 DEF tracerVars, EventsPlausible
  <2> QED
    BY <2>3, <2>4, <2>5, <2>6, <2>7, <2>8, <2>9, <2>10 DEF Next, Kernel, Runner
<1> QED  BY <1>1, <1>2, Typing, PTL DEF Spec

-----------------------------------------------------------------------------
\* perf_submit drops an event its ring has no room for.
RingsBounded == \A c \in Cpu : Len(ring[c]) <= RingCap

\* The hits are what the kernel missed, what a reader has yet to read and what the
\* callback was given; the unread ones are bounded by the rings.
HitsAddUp ==
  /\ IsFiniteSet(missed) /\ IsFiniteSet(InRings)
  /\ hits = Cardinality(missed) + Cardinality(InRings) + Len(seen)
  /\ Cardinality(InRings) <= Cardinality(Cpu) * RingCap

LEMMA RingsStep == TypeOK /\ RingsBounded /\ [Next]_tracerVars => RingsBounded'
<1> SUFFICES ASSUME TypeOK, RingsBounded, [Next]_tracerVars, NEW d \in Cpu
             PROVE  Len(ring'[d]) <= RingCap
  BY DEF RingsBounded
<1>1. RingCap \in Nat /\ ring \in [Cpu -> Seq(TraceEvent)] /\ Len(ring[d]) <= RingCap
  BY TracerAssumption DEF TypeOK, RingsBounded
<1>2. ASSUME NEW p \in Pid, NEW type \in Type \cup {"exit"}, NEW c \in Cpu, Trace(p, type, c)
      PROVE  Len(ring'[d]) <= RingCap
  <2>1. PICK e : \/ ring' = [ring EXCEPT ![c] = Append(@, e)] /\ Len(ring[c]) < RingCap
                 \/ UNCHANGED ring
    BY <1>2 DEF Trace
  <2>2. CASE ring' = [ring EXCEPT ![c] = Append(@, e)] /\ Len(ring[c]) < RingCap /\ c = d
    <3>1. ring'[d] = Append(ring[d], e)
      BY <1>1, <2>2
    <3>2. Len(Append(ring[d], e)) = Len(ring[d]) + 1 /\ Len(ring[d]) \in Nat
      BY <1>1
    <3> QED  BY <1>1, <2>2, <3>1, <3>2
  <2>3. CASE ring' = [ring EXCEPT ![c] = Append(@, e)] /\ c # d
    BY <1>1, <2>3
  <2>4. CASE UNCHANGED ring
    BY <1>1, <2>4
  <2> QED  BY <2>1, <2>2, <2>3, <2>4
<1>3. CASE Kernel
  <2>1. CASE \E p \in Pid, type \in Type, c \in Cpu : Syscall(p, type, c)
    BY <1>2, <2>1 DEF Syscall
  <2>2. CASE \E p \in Pid, c \in Cpu : Exit(p, c)
    BY <1>2, <2>2 DEF Exit
  <2>3. CASE \E c \in Cpu : ChildExits(c)
    BY <1>2, <2>3, TracerAssumption DEF ChildExits
  <2>4. CASE (\E p, q \in Pid : Spawn(p, q)) \/ ChildZombie
    BY <1>1, <2>4 DEF Spawn, ChildZombie
  <2> QED  BY <1>3, <2>1, <2>2, <2>3, <2>4 DEF Kernel
<1>4. CASE HandleEvent
  <2>1. PICK c \in Cpu : ring[c] # <<>> /\ ring' = [ring EXCEPT ![c] = Tail(@)]
    <3>1. Head(ready) \in Cpu /\ ring[Head(ready)] # <<>>
      BY <1>4 DEF HandleEvent, TypeOK
    <3>2. ring' = [ring EXCEPT ![Head(ready)] = Tail(@)]
      BY <1>4 DEF HandleEvent
    <3> QED  BY <3>1, <3>2
  <2>2. Len(Tail(ring[c])) = Len(ring[c]) - 1 /\ Len(ring[c]) \in Nat
    BY <1>1, <2>1
  <2> QED  BY <1>1, <2>1, <2>2
<1>5. CASE Construct \/ SetCallback \/ AttachProbe \/ OpenBuffer \/ Destroy \/ BeginPoll \/ NextRing \/ Reap
           \/ UNCHANGED tracerVars
  <2>1. UNCHANGED ring
    BY <1>5 DEF Construct, SetCallback, AttachProbe, OpenBuffer, Destroy, BeginPoll, NextRing, Reap,
            tracerVars, kernelVars
  <2> QED  BY <1>1, <2>1
<1> QED  BY <1>3, <1>4, <1>5 DEF Next, Runner

\* A set of hits is as large as the set of their numbers.
LEMMA AsManyAsNumbers ==
  ASSUME TypeOK, EveryHitInOnePlace
  PROVE  IsFiniteSet(Everywhere) /\ Cardinality(Everywhere) = hits
<1> DEFINE f == [e \in Everywhere |-> e.at]
<1>1. hits \in Nat
  BY TracerAssumption DEF TypeOK
<1>2. {e.at : e \in Everywhere} = 1 .. hits
  BY DEF EveryHitInOnePlace, Everywhere
<1>3. \A d, e \in Everywhere : d.at = e.at => d = e
  BY DEF EveryHitInOnePlace, Everywhere
<1>4. f \in Bijection(Everywhere, 1 .. hits)
  <2>1. f \in [Everywhere -> 1 .. hits]
    BY <1>2
  <2>2. \A n \in 1 .. hits : \E e \in Everywhere : f[e] = n
    BY <1>2
  <2>3. \A d, e \in Everywhere : f[d] = f[e] => d = e
    BY <1>3
  <2> QED  BY <2>1, <2>2, <2>3 DEF Bijection, Injection, Surjection, IsInjective
<1>5. IsFiniteSet(1 .. hits) /\ Cardinality(1 .. hits) = hits
  BY <1>1, FS_Interval
<1>6. IsFiniteSet(Everywhere)
  BY <1>4, <1>5, FS_Injection DEF Bijection
<1>7. ExistsBijection(Everywhere, 1 .. hits)
  BY <1>4 DEF ExistsBijection
<1> QED  BY <1>5, <1>6, <1>7, FS_Bijection

\* The callback was given as many events as it has seen: none twice.
LEMMA AsManyAsSeen ==
  ASSUME TypeOK, EveryHitInOnePlace
  PROVE  IsFiniteSet(Seen) /\ Cardinality(Seen) = Len(seen)
<1>1. Len(seen) \in Nat /\ DOMAIN seen = 1 .. Len(seen) /\ seen = [i \in 1 .. Len(seen) |-> seen[i]]
  BY DEF TypeOK
<1>2. seen \in Bijection(1 .. Len(seen), Seen)
  <2>1. seen \in [1 .. Len(seen) -> Seen]
    BY <1>1 DEF Seen
  <2>2. \A e \in Seen : \E i \in 1 .. Len(seen) : seen[i] = e
    BY <1>1 DEF Seen
  <2>3. \A i, j \in 1 .. Len(seen) : seen[i] = seen[j] => i = j
    BY <1>1 DEF EveryHitInOnePlace
  <2> QED  BY <2>1, <2>2, <2>3 DEF Bijection, Injection, Surjection, IsInjective
<1>3. IsFiniteSet(1 .. Len(seen)) /\ Cardinality(1 .. Len(seen)) = Len(seen)
  BY <1>1, FS_Interval
<1>4. ExistsBijection(1 .. Len(seen), Seen)
  BY <1>2 DEF ExistsBijection
<1> QED  BY <1>3, <1>4, FS_Bijection

\* What waits to be read fits into the rings.
LEMMA RingsHold ==
  ASSUME TypeOK, RingsBounded, IsFiniteSet(InRings)
  PROVE  Cardinality(InRings) <= Cardinality(Cpu) * RingCap
<1> DEFINE Slots == Cpu \X (1 .. RingCap)
           at == [s \in Slots |-> ring[s[1]][s[2]]]
           T == {at[s] : s \in Slots}
<1>1. RingCap \in Nat /\ IsFiniteSet(Cpu)
  BY TracerAssumption
<1>2. IsFiniteSet(1 .. RingCap) /\ Cardinality(1 .. RingCap) = RingCap
  BY <1>1, FS_Interval
<1>3. IsFiniteSet(Slots) /\ Cardinality(Slots) = Cardinality(Cpu) * RingCap
  BY <1>1, <1>2, FS_Product
<1>4. IsFiniteSet(T) /\ Cardinality(T) <= Cardinality(Slots)
  <2>1. at \in Surjection(Slots, T)
    BY DEF Surjection
  <2> HIDE DEF Slots, at, T
  <2> QED  BY <1>3, <2>1, FS_Surjection
<1>5. InRings \subseteq T
  <2> SUFFICES ASSUME NEW c \in Cpu, NEW i \in DOMAIN ring[c] PROVE ring[c][i] \in T
    BY DEF InRings
  <2>1. Len(ring[c]) <= RingCap /\ Len(ring[c]) \in Nat /\ i \in 1 .. Len(ring[c])
    BY DEF RingsBounded, TypeOK
  <2>2. <<c, i>> \in Slots /\ at[<<c, i>>] = ring[c][i]
    BY <1>1, <2>1
  <2> QED  BY <2>2
<1>6. Cardinality(InRings) <= Cardinality(T)
  <2> HIDE DEF T
  <2> QED  BY <1>4, <1>5, FS_Subset
<1>7. Cardinality(InRings) \in Nat /\ Cardinality(T) \in Nat /\ Cardinality(Slots) \in Nat
  <2> HIDE DEF T, Slots
  <2> QED  BY <1>3, <1>4, FS_CardinalityType
<1> HIDE DEF T, Slots
<1> QED  BY <1>3, <1>4, <1>6, <1>7

LEMMA AddUp == TypeOK /\ EveryHitInOnePlace /\ RingsBounded => HitsAddUp
<1> SUFFICES ASSUME TypeOK, EveryHitInOnePlace, RingsBounded PROVE HitsAddUp
  OBVIOUS
<1>1. IsFiniteSet(Everywhere) /\ Cardinality(Everywhere) = hits
  BY AsManyAsNumbers
<1>2. IsFiniteSet(Seen) /\ Cardinality(Seen) = Len(seen)
  BY AsManyAsSeen
<1>3. IsFiniteSet(missed) /\ IsFiniteSet(InRings)
  BY <1>1, FS_Subset DEF Everywhere
<1>4. missed \cap InRings = {} /\ (missed \cup InRings) \cap Seen = {}
  BY DEF EveryHitInOnePlace
<1>5. Cardinality({}) = 0
  BY FS_EmptySet
<1>6. /\ IsFiniteSet(missed \cup InRings)
      /\ Cardinality(missed \cup InRings)
           = Cardinality(missed) + Cardinality(InRings) - Cardinality(missed \cap InRings)
  BY <1>3, FS_Union
<1>7. Cardinality((missed \cup InRings) \cup Seen)
        = Cardinality(missed \cup InRings) + Cardinality(Seen)
            - Cardinality((missed \cup InRings) \cap Seen)
  BY <1>2, <1>6, FS_Union
<1>8. Cardinality(missed) \in Nat /\ Cardinality(InRings) \in Nat /\ Len(seen) \in Nat
  BY <1>3, FS_CardinalityType DEF TypeOK
<1>9. hits = Cardinality(missed) + Cardinality(InRings) + Len(seen)
  <2>1. hits = Cardinality((missed \cup InRings) \cup Seen)
    BY <1>1 DEF Everywhere
  <2>2. Cardinality(missed \cap InRings) = 0 /\ Cardinality((missed \cup InRings) \cap Seen) = 0
    BY <1>4, <1>5
  <2> QED  BY <1>2, <1>6, <1>7, <1>8, <2>1, <2>2
<1>10. Cardinality(InRings) <= Cardinality(Cpu) * RingCap
  BY <1>3, RingsHold
<1> QED  BY <1>3, <1>9, <1>10 DEF HitsAddUp

(* The count of the hits the callback was not given: they were missed by    *)
(* the kernel, or are among the at most RingCap per CPU that wait in a      *)
(* ring.                                                                    *)
THEOREM AddingUp == Spec => []HitsAddUp
<1>1. Init => RingsBounded
  BY TracerAssumption DEF Init, RingsBounded
<1>2. Spec => []RingsBounded
  BY <1>1, Typing, RingsStep, PTL DEF Spec
<1> QED  BY <1>2, Typing, Accounting, AddUp, PTL
=============================================================================
