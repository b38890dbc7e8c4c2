------------------------------- MODULE Tracer -------------------------------
(***************************************************************************)
(* From a system call to the BPF callback: the kprobe handlers of          *)
(* bpf/sys_call.c, the per-CPU perf rings of the kernel, and BpfRunner     *)
(* (utils/bpf_runner.cpp) on top of libbcc.                                *)
(*                                                                         *)
(* Probes are system wide: every process is traced, the container's or     *)
(* not.  A probe that fires before the perf buffer is open submits into    *)
(* nothing; one that fires on a full ring is dropped by the kernel, and    *)
(* the program is not told (lost_cb is nullptr).  poll() blocks, without a *)
(* timeout, until some ring holds an event, then reads the rings that were *)
(* ready, one after the other, each until it is empty.                     *)
(*                                                                         *)
(* External, modelled from how the code uses it: processes and rings (the  *)
(* kernel), attach_kprobe, open_perf_buffer, poll_perf_buffer (libbcc).    *)
(* Abstracted: the fourteen handlers differ in their type and arguments    *)
(* only; uid, gid, comm and the arguments are left out.                    *)
(***************************************************************************)
EXTENDS Integers, FiniteSets, SequencesExt

CONSTANTS
  Pid,         \* process ids; 1 stands for the system outside the container
  Child,       \* the process sentinal forked to run the container
  Type,        \* what a handler reports, "exit" set aside for do_exit
  Cpu,
  Affinity,    \* the CPUs each process may run on
  Probes,      \* probes to attach: 14 in the code
  RingCap,     \* events a ring holds
  MaxHits      \* bound on the number of probe hits of a behaviour

TracerConstants ==
  /\ Pid \subseteq Nat \ {0} /\ 1 \in Pid
  /\ Child \in Pid \ {1}
  /\ "exit" \notin Type
  /\ IsFiniteSet(Cpu) /\ Affinity \in [Pid -> SUBSET Cpu]
  /\ Probes \in Nat /\ RingCap \in Nat \ {0} /\ MaxHits \in Nat

ASSUME TracerAssumption == TracerConstants

VARIABLES
  parent,      \* pid -> real_parent, for the processes that exist
  child,       \* Child: "running", "exiting" (past do_exit's probe), "zombie", "reaped"
  hits,        \* how often a probe site was reached
  missed,      \* history: the hits that reached no ring
  ring,        \* the per-CPU perf rings
  runner,      \* the BpfRunner: "new", "loaded", "starting", "open", "gone"
  attached,    \* how many kprobes start() has attached
  callback,    \* whether callback_ is set
  ready,       \* rings poll still has to read, in epoll's order
  seen         \* history: the events handed to the callback, in order

kernelVars == <<parent, child, hits, missed, ring>>
runnerVars == <<runner, attached, callback, ready, seen>>
tracerVars == <<kernelVars, runnerVars>>

-----------------------------------------------------------------------------
\* struct data_t, with two fields that are not in it: the number of the probe
\* hit and the CPU it happened on.
TraceEvent ==
  [pid : Pid, ppid : Pid \cup {0}, type : Type \cup {"exit"}, at : 1 .. MaxHits, cpu : Cpu]

Init ==
  /\ parent = [p \in {1, Child} |-> IF p = 1 THEN 0 ELSE 1]
  /\ child = "running"
  /\ hits = 0
  /\ missed = {}
  /\ ring = [c \in Cpu |-> <<>>]
  /\ runner = "new"
  /\ attached = 0
  /\ callback = FALSE
  /\ ready = <<>>
  /\ seen = <<>>

\* A handler runs for process p on CPU c: fill_data and perf_submit.
Trace(p, type, c) ==
  LET e == [pid |-> p, ppid |-> parent[p], type |-> type, at |-> hits + 1, cpu |-> c]
  IN  /\ hits < MaxHits
      /\ c \in Affinity[p]
      /\ hits' = hits + 1
      /\ IF runner = "open" /\ Len(ring[c]) < RingCap
         THEN ring' = [ring EXCEPT ![c] = Append(@, e)] /\ UNCHANGED missed
         ELSE missed' = missed \cup {e} /\ UNCHANGED ring

\* The process table without p, whose children go to process 1.
Without(p) ==
  [q \in DOMAIN parent \ {p} |-> IF parent[q] = p THEN 1 ELSE parent[q]]

-----------------------------------------------------------------------------
\* The kernel.  A new process need not come from the traced clone (clone3,
\* vfork), and clone is traced on entry, before the child exists: the event
\* and the child are separate steps.
Syscall(p, type, c) ==
  /\ p \in DOMAIN parent
  /\ p = Child => child = "running"
  /\ Trace(p, type, c)
  /\ UNCHANGED <<parent, child, runnerVars>>

Spawn(p, q) ==
  /\ p \in DOMAIN parent
  /\ p = Child => child = "running"
  /\ q \notin DOMAIN parent \cup {Child}
  /\ parent' = [r \in DOMAIN parent \cup {q} |-> IF r = q THEN p ELSE parent[r]]
  /\ UNCHANGED <<child, hits, missed, ring, runnerVars>>

Exit(p, c) ==
  /\ p \in DOMAIN parent \ {1, Child}
  /\ Trace(p, "exit", c)
  /\ parent' = Without(p)
  /\ UNCHANGED <<child, runnerVars>>

\* do_exit's probe fires long before the process becomes a zombie.
ChildExits(c) ==
  /\ child = "running"
  /\ Trace(Child, "exit", c)
  /\ child' = "exiting"
  /\ UNCHANGED <<parent, runnerVars>>

ChildZombie ==
  /\ child = "exiting"
  /\ child' = "zombie"
  /\ parent' = Without(Child)
  /\ UNCHANGED <<hits, missed, ring, runnerVars>>

Kernel ==
  \/ \E p \in Pid, type \in Type, c \in Cpu : Syscall(p, type, c)
  \/ \E p, q \in Pid : Spawn(p, q)
  \/ \E p \in Pid, c \in Cpu : Exit(p, c)
  \/ \E c \in Cpu : ChildExits(c)
  \/ ChildZombie

-----------------------------------------------------------------------------
\* BpfRunner.  The constructor compiles the program.
Construct ==
  /\ runner = "new"
  /\ runner' = "loaded"
  /\ UNCHANGED <<kernelVars, attached, callback, ready, seen>>

\* The monitor sets the callback and goes on to call start().
\* (Mutant: it is not set.)
SetCallbackNever ==
  /\ runner = "loaded"
  /\ runner' = "starting"
  /\ UNCHANGED <<kernelVars, attached, callback, ready, seen>>

SetCallback ==
  /\ runner = "loaded"
  /\ callback' = TRUE
  /\ runner' = "starting"
  /\ UNCHANGED <<kernelVars, attached, ready, seen>>

\* (Mutant: one probe too many.)
AttachProbeToo ==
  /\ runner = "starting" /\ attached <= Probes
  /\ attached' = attached + 1
  /\ UNCHANGED <<kernelVars, runner, callback, ready, seen>>

AttachProbe ==
  /\ runner = "starting" /\ attached < Probes
  /\ attached' = attached + 1
  /\ UNCHANGED <<kernelVars, runner, callback, ready, seen>>

OpenBuffer ==
  /\ runner = "starting" /\ attached = Probes
  /\ runner' = "open"
  /\ UNCHANGED <<kernelVars, attached, callback, ready, seen>>

\* ~BpfRunner: at the end of the monitor, or because of an exception, which any
\* of the calls above can throw, and later ones of its owner.
Destroy ==
  /\ runner # "gone" /\ ready = <<>>
  /\ runner' = "gone"
  /\ attached' = 0
  /\ UNCHANGED <<kernelVars, callback, ready, seen>>

\* poll(): epoll_wait returns with the rings that hold events.
BeginPoll ==
  LET full == {c \in Cpu : ring[c] # <<>>}
  IN  /\ runner = "open" /\ ready = <<>>
      /\ full # {}
      /\ ready' \in SetToSeqs(full)
      /\ UNCHANGED <<kernelVars, runner, attached, callback, seen>>

\* handle_event: the reader takes one event and passes it on.
\* (Mutant: the newest event is taken, as from an overwritable ring.)
HandleEventNewest ==
  /\ ready # <<>>
  /\ ring[Head(ready)] # <<>>
  /\ ring' = [ring EXCEPT ![Head(ready)] = SubSeq(@, 1, Len(@) - 1)]
  /\ seen' = IF callback THEN Append(seen, ring[Head(ready)][Len(ring[Head(ready)])]) ELSE seen
  /\ UNCHANGED <<parent, child, hits, missed, runner, attached, callback, ready>>

HandleEvent ==
  /\ ready # <<>>
  /\ ring[Head(ready)] # <<>>
  /\ ring' = [ring EXCEPT ![Head(ready)] = Tail(@)]
  /\ seen' = IF callback THEN Append(seen, Head(ring[Head(ready)])) ELSE seen
  /\ UNCHANGED <<parent, child, hits, missed, runner, attached, callback, ready>>

\* The ring is read to its end, and the next one is taken up.
NextRing ==
  /\ ready # <<>>
  /\ ring[Head(ready)] = <<>>
  /\ ready' = Tail(ready)
  /\ UNCHANGED <<kernelVars, runner, attached, callback, seen>>

Runner ==
  \/ Construct \/ SetCallback \/ AttachProbe \/ OpenBuffer \/ Destroy
  \/ BeginPoll \/ HandleEvent \/ NextRing

\* waitpid(Child, WNOHANG) returns the child: the monitor's call, not
\* BpfRunner's, but what it changes is the process.
Reap ==
  /\ child = "zombie"
  /\ child' = "reaped"
  /\ UNCHANGED <<parent, hits, missed, ring, runnerVars>>

Next == Kernel \/ Runner \/ Reap

Spec == Init /\ [][Next]_tracerVars

-----------------------------------------------------------------------------
TypeOK ==
  /\ DOMAIN parent \subseteq Pid /\ 1 \in DOMAIN parent
  /\ parent \in [DOMAIN parent -> Pid \cup {0}]
  /\ child \in {"running", "exiting", "zombie", "reaped"}
  /\ child \in {"running", "exiting"} <=> Child \in DOMAIN parent
  /\ hits \in 0 .. MaxHits
  /\ missed \in SUBSET TraceEvent
  /\ ring \in [Cpu -> Seq(TraceEvent)]
  /\ runner \in {"new", "loaded", "starting", "open", "gone"}
  /\ attached \in 0 .. Probes
  /\ callback \in BOOLEAN
  /\ ready \in Seq(Cpu)
  /\ seen \in Seq(TraceEvent)

InRings == UNION {{ring[c][i] : i \in DOMAIN ring[c]} : c \in Cpu}
Seen    == {seen[i] : i \in DOMAIN seen}

(* Every probe hit is in exactly one place: it was missed by the kernel,    *)
(* waits in a ring, or was handed over, once.  Between the ring and the     *)
(* callback nothing is dropped or repeated; handle_event's silent return on *)
(* an unset callback_ is never taken.                                       *)
EveryHitInOnePlace ==
  /\ {e.at : e \in missed \cup InRings \cup Seen} = 1 .. hits
  /\ \A e, f \in missed \cup InRings \cup Seen : e.at = f.at => e = f
  /\ missed \cap InRings = {} /\ missed \cap Seen = {} /\ InRings \cap Seen = {}
  /\ \A i, j \in DOMAIN seen : seen[i] = seen[j] => i = j

(* The events of one CPU reach the callback in the order of the probe hits, *)
(* and what is still in a ring is newer than what was read from it.         *)
CpuOrderKept ==
  /\ \A i, j \in DOMAIN seen : i < j /\ seen[i].cpu = seen[j].cpu => seen[i].at < seen[j].at
  /\ \A c \in Cpu :
       /\ \A i \in DOMAIN ring[c] : ring[c][i].cpu = c
       /\ \A i, j \in DOMAIN ring[c] : i < j => ring[c][i].at < ring[c][j].at
       /\ \A e \in Seen : e.cpu = c => \A i \in DOMAIN ring[c] : e.at < ring[c][i].at
=============================================================================
