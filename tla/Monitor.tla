------------------------------ MODULE Monitor -------------------------------
(***************************************************************************)
(* runBpfMonitor (cli.cpp): the monitor of one container, from the fork of *)
(* the container process to the exit log.  It composes                     *)
(*                                                                         *)
(*   Tracer        the traced system and the BpfRunner it is read through, *)
(*   SyscallGraph  the graph the callback fills,                           *)
(*   LogShipper    the batch the callback fills and flush_logs ships,      *)
(*                                                                         *)
(* under the control of one thread: start the probes, then waitpid, poll   *)
(* (which runs the callback once per event), the two timers, sleep, until  *)
(* the container process is gone; then the last flush, the last GNN check, *)
(* the graph file, the final verdict and the exit log.  Every GNN check    *)
(* runs in a detached thread with a copy of the tensors; the process exit  *)
(* kills the checks that are not done.                                     *)
(*                                                                         *)
(* Time is the value of time(nullptr), in seconds, bounded by MaxClock.    *)
(* It may advance between any two steps, but no HTTP request outlives      *)
(* HttpTimeout.                                                            *)
(*                                                                         *)
(* The flush_logs lambda is the steps "flush" and "push" with a return     *)
(* address; no two threads ever contend for batch_mu, because the detached *)
(* threads take copies, so it needs no variable.                           *)
(***************************************************************************)
EXTENDS Integers, Sequences, FiniteSets

CONSTANTS
  Pid, Child, Type, Cpu, Affinity, Probes, RingCap, MaxHits,   \* see Tracer
  SeqLimit,        \* see SyscallGraph
  BadComm,         \* processes whose comm does not survive buildPayload
  Threshold,       \* see LogShipper
  FlushInterval,   \* SENTINAL_FLUSH_INTERVAL, 30 by default; any integer
  GnnInterval,     \* SENTINAL_GNN_INTERVAL, 30 by default; any integer
  HttpTimeout,     \* CURLOPT_TIMEOUT: 60
  Whole, GnnThreshold,   \* see Verdicts
  MaxClock         \* bound on the clock

ASSUME MonitorAssumption ==
  /\ BadComm \subseteq Pid
  /\ FlushInterval \in Int /\ GnnInterval \in Int
  /\ HttpTimeout \in Nat \ {0} /\ MaxClock \in Nat

VARIABLES
  parent, child, hits, missed, ring, runner, attached, callback, ready, seen,
  processes, events, edges, lastEventByPid, seq,
  batch, push, wire, stored,
  pc,          \* the monitor thread's next step
  ret,         \* where flush_logs returns to
  clock,       \* time(nullptr)
  now,         \* the loop's copy of it
  by,          \* when the monitor thread's HTTP request times out
  lastFlush, lastGnn,
  checks,      \* the GNN checks started, in order
  saved,       \* events in the graph file, -1 if none was written
  exitLog      \* what the exit log said, <<>> before

kernelVars  == <<parent, child, hits, missed, ring>>
runnerVars  == <<runner, attached, callback, ready, seen>>
graphVars   == <<processes, events, edges, lastEventByPid, seq>>
shipperVars == <<batch, push, wire, stored>>
timerVars   == <<now, lastFlush, lastGnn>>
resultVars  == <<saved, exitLog>>
vars == <<kernelVars, runnerVars, graphVars, shipperVars, pc, ret, clock, by,
          timerVars, checks, resultVars>>

T == INSTANCE Tracer
G == INSTANCE SyscallGraph WITH Type <- Type \cup {"exit"}, MaxEvents <- MaxHits
L == INSTANCE LogShipper WITH Line <- T!TraceEvent,
                              Unescaped <- {e \in T!TraceEvent : e.pid \in BadComm},
                              recorded <- seen

\* Only the GNN is asked here; the CNN's parameters play no part.
V == INSTANCE Verdicts WITH Classes <- 1, Benign <- 0, CnnThreshold <- GnnThreshold

\* The components' assumptions hold of the values they are instantiated with.
ASSUME ComponentAssumptions ==
  T!TracerConstants /\ G!GraphAssumption /\ L!ShipperConstants /\ V!VerdictsAssumption

-----------------------------------------------------------------------------
Init ==
  /\ T!Init /\ G!Init
  /\ batch = <<>> /\ push = <<>> /\ wire = {} /\ stored = <<>>
  /\ pc = "start" /\ ret = "drain"
  /\ clock = 0 /\ now = 0 /\ by = 0
  /\ lastFlush = 0 /\ lastGnn = 0
  /\ checks = <<>>
  /\ saved = -1 /\ exitLog = <<>>

Goto(label) == pc' = label

\* A call of flush_logs that returns to the given step.
CallFlush(label) == Goto("flush") /\ ret' = label

-----------------------------------------------------------------------------
\* BpfRunner's constructor, then the two timers.
Load ==
  /\ pc = "start"
  /\ T!Construct
  /\ lastFlush' = clock /\ lastGnn' = clock
  /\ UNCHANGED <<graphVars, shipperVars, pc, ret, clock, by, now, checks, resultVars>>

\* set_callback, and the attach_kprobe calls of start().
Start ==
  /\ pc = "start"
  /\ T!SetCallback \/ T!AttachProbe
  /\ UNCHANGED <<graphVars, shipperVars, pc, ret, clock, by, timerVars, checks, resultVars>>

Started ==
  /\ pc = "start"
  /\ T!OpenBuffer
  /\ Goto("wait")
  /\ UNCHANGED <<graphVars, shipperVars, ret, clock, by, timerVars, checks, resultVars>>

\* A missing program file, a failing constructor, start() or thread creation:
\* the exception leaves runBpfMonitor and main returns 1.
Fails ==
  /\ pc \in {"start", "gnnTimer", "finalGnn"}
  /\ pc # "start" => events # <<>>
  /\ pc = "gnnTimer" => now - lastGnn >= GnnInterval
  /\ T!Destroy
  /\ Goto("failed")
  /\ checks' = [i \in DOMAIN checks |-> [checks[i] EXCEPT !.phase = "over"]]
  /\ UNCHANGED <<graphVars, shipperVars, ret, clock, by, timerVars, resultVars>>

-----------------------------------------------------------------------------
\* waitpid(container_pid, WNOHANG): the loop ends, or goes on.
\* (Mutant: what is left in the batch is not flushed.)
ChildGoneUnflushed ==
  /\ pc = "wait"
  /\ T!Reap
  /\ Goto("finalGnn")
  /\ UNCHANGED <<graphVars, shipperVars, ret, clock, by, timerVars, checks, resultVars>>

ChildGone ==
  /\ pc = "wait"
  /\ T!Reap
  /\ CallFlush("finalGnn")
  /\ UNCHANGED <<graphVars, shipperVars, clock, by, timerVars, checks, resultVars>>

\* (Mutant: waitpid's result is not looked at.)
ChildAliveAnyway ==
  /\ pc = "wait"
  /\ Goto("poll")
  /\ UNCHANGED <<kernelVars, runnerVars, graphVars, shipperVars, ret, clock, by,
                 timerVars, checks, resultVars>>

ChildAlive ==
  /\ pc = "wait"
  /\ child # "zombie"
  /\ Goto("poll")
  /\ UNCHANGED <<kernelVars, runnerVars, graphVars, shipperVars, ret, clock, by,
                 timerVars, checks, resultVars>>

\* runner.poll() blocks here while every ring is empty.
Poll ==
  /\ pc = "poll"
  /\ T!BeginPoll
  /\ Goto("drain")
  /\ UNCHANGED <<graphVars, shipperVars, ret, clock, by, timerVars, checks, resultVars>>

\* should_flush: a full batch is flushed before the callback returns.
\* (Mutant: it is left to the timer.)
FlushNever == UNCHANGED <<pc, ret>>

FlushIfFull ==
  IF Len(batch') >= Threshold THEN CallFlush("drain") ELSE UNCHANGED <<pc, ret>>

\* The callback: graph.add_event and batch.push_back under the lock, then the
\* flush of a full batch.
Callback ==
  /\ pc = "drain"
  /\ T!HandleEvent
  /\ LET e == Head(ring[Head(ready)])
     IN  /\ G!AddEvent([pid |-> e.pid, ppid |-> e.ppid, type |-> e.type])
         /\ batch' = Append(batch, e)
  /\ FlushIfFull
  /\ UNCHANGED <<push, wire, stored, clock, by, timerVars, checks, resultVars>>

NextRing ==
  /\ pc = "drain"
  /\ T!NextRing
  /\ UNCHANGED <<graphVars, shipperVars, pc, ret, clock, by, timerVars, checks, resultVars>>

\* difftime(now, last_flush) >= flush_interval.
\* (Mutant: later than that.)
FlushOverdue == clock - lastFlush > FlushInterval

FlushDue == clock - lastFlush >= FlushInterval

\* poll() returns; the time is taken, once for both timers.
PollReturns ==
  /\ pc = "drain" /\ ready = <<>>
  /\ now' = clock
  /\ IF FlushDue THEN CallFlush("gnnTimer")
     ELSE Goto("gnnTimer") /\ UNCHANGED ret
  /\ UNCHANGED <<kernelVars, runnerVars, graphVars, shipperVars, clock, by,
                 lastFlush, lastGnn, checks, resultVars>>

-----------------------------------------------------------------------------
\* flush_logs returns early on an empty batch, without touching last_flush.
FlushNothing ==
  /\ pc = "flush" /\ batch = <<>>
  /\ Goto(ret)
  /\ UNCHANGED <<kernelVars, runnerVars, graphVars, shipperVars, ret, clock, by,
                 timerVars, checks, resultVars>>

FlushStarts ==
  /\ pc = "flush"
  /\ L!Flush
  /\ Goto("push")
  /\ by' = clock + HttpTimeout
  /\ UNCHANGED <<kernelVars, runnerVars, graphVars, ret, clock, timerVars, checks, resultVars>>

FlushEnds ==
  /\ pc = "push"
  /\ L!PushEnds
  /\ lastFlush' = clock
  /\ Goto(ret)
  /\ UNCHANGED <<kernelVars, runnerVars, graphVars, ret, clock, by, now, lastGnn,
                 checks, resultVars>>

-----------------------------------------------------------------------------
\* run_gnn: copy the tensors of the graph as it is and start a thread on them.
\* (Mutant: last_gnn is the loop's time.)
RunGnnStale ==
  IF events = <<>> THEN UNCHANGED <<checks, lastGnn>>
  ELSE /\ checks' = Append(checks, [ts |-> clock, size |-> Len(events),
                                    phase |-> "predict", by |-> clock + HttpTimeout])
       /\ lastGnn' = now

RunGnn ==
  IF events = <<>> THEN UNCHANGED <<checks, lastGnn>>
  ELSE /\ checks' = Append(checks, [ts |-> clock, size |-> Len(events),
                                    phase |-> "predict", by |-> clock + HttpTimeout])
       /\ lastGnn' = clock

\* The second timer, then the sleep of 100 ms, during which time may pass.
GnnTimer ==
  /\ pc = "gnnTimer"
  /\ IF now - lastGnn >= GnnInterval THEN RunGnn ELSE UNCHANGED <<checks, lastGnn>>
  /\ Goto("wait")
  /\ UNCHANGED <<kernelVars, runnerVars, graphVars, shipperVars, ret, clock, by,
                 now, lastFlush, resultVars>>

FinalGnn ==
  /\ pc = "finalGnn"
  /\ RunGnn
  /\ Goto("save")
  /\ UNCHANGED <<kernelVars, runnerVars, graphVars, shipperVars, ret, clock, by,
                 now, lastFlush, resultVars>>

\* What tryRemoteGnnPredict makes of what the API may answer.
GnnOutcomes == {V!GnnOutcome(reply) : reply \in V!GnnAnswers}

\* A check's thread: the prediction, and the push of its result if there is one.
CheckPredicts(i, outcome) ==
  /\ checks[i].phase = "predict"
  /\ checks' = [checks EXCEPT ![i].phase = IF outcome = "failed" THEN "over" ELSE "push",
                              ![i].by = clock + HttpTimeout]

CheckPushEnds(i, delivered) ==
  /\ checks[i].phase = "push"
  /\ checks' = [checks EXCEPT ![i].phase = IF delivered THEN "pushed" ELSE "over"]

Checks ==
  /\ \E i \in DOMAIN checks :
       \/ \E outcome \in GnnOutcomes : CheckPredicts(i, outcome)
       \/ \E delivered \in BOOLEAN : CheckPushEnds(i, delivered)
  /\ UNCHANGED <<kernelVars, runnerVars, graphVars, shipperVars, pc, ret, clock, by,
                 timerVars, resultVars>>

-----------------------------------------------------------------------------
\* The graph file is written, or cannot be; the next step is a request, or none.
SaveGraph ==
  /\ pc = "save"
  /\ saved' \in {Len(events), -1}
  /\ Goto("predict")
  /\ by' = clock + HttpTimeout
  /\ UNCHANGED <<kernelVars, runnerVars, graphVars, shipperVars, ret, clock, timerVars,
                 checks, exitLog>>

\* The final GNN verdict, waited for, and the start of the exit log's push.  An
\* empty graph is not asked about.
FinalPredict(outcome) ==
  /\ pc = "predict"
  /\ events = <<>> => outcome = "failed"
  /\ exitLog' = [events |-> Len(events), processes |-> Cardinality(DOMAIN processes),
                 edges |-> Len(edges), stored |-> FALSE,
                 verdict |-> IF outcome = "failed" THEN "unavailable" ELSE outcome]
  /\ Goto("exitLog")
  /\ by' = clock + HttpTimeout
  /\ UNCHANGED <<kernelVars, runnerVars, graphVars, shipperVars, ret, clock, timerVars,
                 checks, saved>>

\* The push ends, whether or not Loki stored the line; the monitor returns, and
\* the process exits.
Done(delivered) ==
  /\ pc = "exitLog"
  /\ exitLog' = [exitLog EXCEPT !.stored = delivered]
  /\ T!Destroy
  /\ Goto("done")
  /\ checks' = [i \in DOMAIN checks |->
                  IF checks[i].phase = "pushed" THEN checks[i]
                  ELSE [checks[i] EXCEPT !.phase = "over"]]
  /\ UNCHANGED <<graphVars, shipperVars, ret, clock, by, timerVars, saved>>

-----------------------------------------------------------------------------
\* What does not belong to the monitor thread.
System ==
  /\ T!Kernel
  /\ UNCHANGED <<graphVars, shipperVars, pc, ret, clock, by, timerVars, checks, resultVars>>

LokiLate ==
  /\ L!LokiLate
  /\ UNCHANGED <<kernelVars, runnerVars, graphVars, pc, ret, clock, by, timerVars,
                 checks, resultVars>>

Alive(i) == checks[i].phase \in {"predict", "push"}

Requesting == pc \in {"push", "predict", "exitLog"}

Tick ==
  /\ clock < MaxClock
  /\ Requesting => clock < by
  /\ \A i \in DOMAIN checks : Alive(i) => clock < checks[i].by
  /\ clock' = clock + 1
  /\ UNCHANGED <<kernelVars, runnerVars, graphVars, shipperVars, pc, ret, by, timerVars,
                 checks, resultVars>>

MonitorThread ==
  \/ Load \/ Start \/ Started \/ Fails
  \/ ChildGone \/ ChildAlive \/ Poll \/ Callback \/ NextRing \/ PollReturns
  \/ FlushNothing \/ FlushStarts \/ FlushEnds
  \/ GnnTimer \/ FinalGnn \/ SaveGraph
  \/ \E outcome \in GnnOutcomes : FinalPredict(outcome)
  \/ \E delivered \in BOOLEAN : Done(delivered)

Next == MonitorThread \/ Checks \/ System \/ LokiLate \/ Tick

Spec == Init /\ [][Next]_vars

\* The monitor thread is scheduled, every request of its ends (CURLOPT_TIMEOUT),
\* and a process past do_exit's probe becomes a zombie.  Nothing is assumed of
\* the traced processes: they need never make another call.
FairSpec == Spec /\ WF_vars(MonitorThread) /\ WF_vars(System /\ T!ChildZombie)

-----------------------------------------------------------------------------
TypeOK ==
  /\ T!TypeOK /\ G!TypeOK /\ L!TypeOK
  /\ pc \in {"start", "wait", "poll", "drain", "flush", "push", "gnnTimer", "finalGnn",
             "save", "predict", "exitLog", "done", "failed"}
  /\ ret \in {"drain", "gnnTimer", "finalGnn"}
  /\ clock \in 0 .. MaxClock /\ now \in 0 .. clock
  /\ by \in 0 .. MaxClock + HttpTimeout
  /\ lastFlush \in 0 .. clock /\ lastGnn \in 0 .. clock
  /\ checks \in Seq([ts : 0 .. clock, size : 1 .. Len(events),
                     phase : {"predict", "push", "pushed", "over"},
                     by : 0 .. MaxClock + HttpTimeout])
  /\ saved \in -1 .. MaxHits
  /\ exitLog = <<>> \/ exitLog \in [events : Nat, processes : Nat, edges : Nat,
                                   verdict : {"malicious", "clean", "unavailable"}, stored : BOOLEAN]

(* At the end of each turn of the loop nothing is overdue that was due when *)
(* poll() returned: a batch left alone is younger than the flush interval,  *)
(* a nonempty graph was checked within the GNN interval.                    *)
NothingOverdue ==
  pc = "wait" =>
    /\ batch # <<>> => now - lastFlush < FlushInterval
    /\ events # <<>> => now - lastGnn < GnnInterval \/ GnnInterval <= 0

\* The checks the timer started: all but the one after the loop.
Timed == {i \in DOMAIN checks :
            pc \in {"save", "predict", "exitLog", "done"} => i < Len(checks)}

(* Two GNN checks of the timer start at least the interval apart, although  *)
(* the timer is compared with a time taken before the flush, which may have *)
(* been waiting for Loki since: last_gnn is the time of the check itself.   *)
ChecksSpaced ==
  \A i, j \in Timed : i < j => checks[j].ts - checks[i].ts >= GnnInterval

(* The detached threads do not pile up behind a slow inference API: two     *)
(* request timeouts bound the life of a check, so the interval bounds how   *)
(* many are alive.                                                          *)
ChecksBounded ==
  GnnInterval > 0 =>
    Cardinality({i \in DOMAIN checks : Alive(i)}) <= (2 * HttpTimeout) \div GnnInterval + 2

(* When the exit log is written, every event that reached the callback has  *)
(* been handed to Loki, and the exit log, the last GNN check and the graph  *)
(* file (if one could be written) describe the same, final graph.           *)
ExitDescribesRun ==
  pc \in {"exitLog", "done"} =>
    /\ batch = <<>> /\ push = <<>>
    /\ exitLog.events = Len(seen) /\ saved \in {-1, Len(seen)}
    /\ seen # <<>> => checks[Len(checks)].size = Len(seen)
    /\ exitLog.edges = 2 * exitLog.events - exitLog.processes
                         + Cardinality(G!Links("spawns"))

(* The monitor uses the shipper as LogShipper describes: it never appends   *)
(* to a full batch or while a push is running, and what a push could not    *)
(* deliver is gone for good.                                                *)
ShipperSpec == L!Spec

(* README, "sequences": "temporal ordering within a process".  The edge      *)
(* between two events of a process leads from an earlier call to a later    *)
(* one, on whichever CPUs they were made.                                   *)
SequencesInTimeOrder ==
  \A link \in G!Links("sequences") : seen[link[1][2] + 1].at < seen[link[2][2] + 1].at

(* A container whose end left an event in some ring is always noticed: the  *)
(* monitor drains the rings, reaps the process and comes to its end.        *)
DrainedExit ==
  (child = "zombie" /\ \E c \in Cpu : ring[c] # <<>>) ~> pc \in {"done", "failed"}

(* README, "Exit logs": the container's exit is logged.  Once the container *)
(* process is gone the monitor comes to its end.                            *)
ExitNoticed == child = "zombie" ~> pc \in {"done", "failed"}
=============================================================================
