# Sentinal in TLA+

Sentinal is a shim in front of Docker or Podman: before `run` and `pull` it
classifies the image, and while a container runs it traces its system calls,
builds a graph of them, asks an inference server about the graph, and ships logs
to Loki. This directory holds TLA+ modules translated from its source, TLC
configurations that check them on small instances, and proofs that TLAPS checks
for every value of the constants.

All line numbers are those of the repository's files (`cli.cpp:527` and so on).

## The system and its parts

| Part | Code | State it keeps | Operations | Talks to |
|---|---|---|---|---|
| Command line, pre-run phase | `cli.cpp` main 589-718, `findImageArg`, `buildArgv0Cmd`, `saveImageAsTarball`, `tryRemotePredict` | locals of main; files: `/tmp/sentinal_<image>.tar`, `./out/images/*.ppm` | find the image, pull, save, encode, classify, prompt, fork or forward | the container runtime (processes, a shell), the encoders (calls, files), the API and Loki (HTTP), the user |
| Runtime detection | `utils/helpers.cpp` | none | `get_runtime` | the `PATH` |
| Image encoders | `encoder/*.cpp` | none; one file per picture | `list_files`, `extract`, `build_image`, `hilbert_d2xy` | the tarball, the picture directory |
| eBPF probes | `bpf/sys_call.c` | the per-CPU perf rings | one handler per probe | the kernel, the BpfRunner |
| BpfRunner | `utils/bpf_runner.cpp` | the BPF object, the callback | `set_callback`, `start`, `poll`, `handle_event` | libbcc, the monitor's callback |
| Runtime monitor | `cli.cpp` `runBpfMonitor` 413-587 | graph, batch and two mutexes, two timers | poll loop, `flush_logs`, `run_gnn`, exit path | all of the parts below, detached threads |
| Syscall graph | `utils/syscall_graph.cpp` | nodes, edges, last event per pid, `seq_` | `add_event`; readers: `to_gnn_inputs`, `to_json`, `summary` | called by the monitor |
| Log shipping | `utils/loki.cpp`, `utils/http.cpp` | libcurl's global state | `push`, `pushLog`, `request` | Loki |
| Remote verdicts | `cli.cpp` 60-151, 153-297 | none | build the request, read the answer, compare with the threshold | the inference server |
| Inference server | `inference/main.py` | the loaded models | one handler per model | — |
| Local model runners, flag parser | `utils/*_model.cpp`, `utils/parser.cpp` | a loaded model; parsed flags | `forward`; `parse` | not used by `cli.cpp` |

What is hard about it, and what makes each part correct:

* **Rings and order.** Events of several CPUs reach one callback. Nothing that a
  ring accepted may be lost or handed over twice, and per CPU the order is the
  order of the hits. Across CPUs there is no order, and events carry no time.
* **The end of a container.** The child is reaped between two polls, `poll` has no
  timeout, and `waitpid` runs only when `poll` returns: the end must be noticed, the
  last batch flushed, and the exit log, the last check and the graph file must
  describe the same graph.
* **The graph under any arrival order.** Edges join nodes that exist, one chain
  of events per process, also after `seq_` wraps; four readers (API request, local
  model, exported file, exit log) must see the same graph although they iterate
  over an unordered map.
* **Failing pushes.** A batch is cleared before it is pushed; a push can be lost,
  refused, or time out and be stored all the same. At most once is the promise.
* **Clients in every thread.** Each request has a client of its own that starts and
  stops libcurl for the process; transfers break off in the middle; a silent server
  must not block the loop for ever.
* **Timers against slow servers.** The loop stands still during a flush; the checks
  run in detached threads with their own requests.
* **Shared files of the pre-run phase.** Invocations share `./out/images` and
  `/tmp`; leftovers, half-written pictures and mixes of two may be classified; nobody
  asks whether a picture could be opened or written.
* **One command line, several readers.** Which image is analysed depends on two
  parsers agreeing on the same words, on where the command is, and on a shell leaving
  the words alone.
* **From an answer to a verdict.** Class and probability are searched in a text, an
  answer that cannot be read counts as clean, and a threshold separates the verdicts.
* **Index arithmetic of the pictures.** The Hilbert curve must be a bijection that
  keeps near bytes near; padding and cutting differ between the two pictures.

The full list of hazards, each at its line with the properties that cover it, is in
`PROJECT.json`.

## Modules

| Module | Models | State and actions in the code's terms |
|---|---|---|
| `SyscallGraph` | `SyscallGraph::add_event` | the five members; `AddEvent` is the whole method, `SpawnEdge`, `InvokeEdge` and `SequenceEdge` the three kinds of edges it adds; `SeqLimit` is 2^32 in the code |
| `GnnExtraction` | `to_gnn_inputs`, `buildGnnRequestBody` | functions of the graph and of an iteration order of the process map: rows, edge index, and the request cut from them |
| `GraphExport` | `to_json`, `summary`, `GnnModel::forward`'s tensors | the other readers, as functions of the same graph; `summary` counts names in 32 bits, and equal names rank in any order |
| `Tracer` | `sys_call.c`, `bpf_runner.cpp`; libbcc and the kernel as they are used | processes and their parents; per-CPU rings; the runner's life (`Construct`, `SetCallback`, `AttachProbe`, `OpenBuffer`, `BeginPoll`, `HandleEvent`, `NextRing`, `Destroy`); `seen` is the history of callbacks |
| `LogDelivery` | — | abstract specification: blocks of consecutive lines arrive, in any order, no line twice, and perhaps never |
| `LogShipper` | the batch, `flush_logs`, `LokiClient::push` | `batch`, the push in progress, requests the client gave up on (`wire`), what Loki stored |
| `HttpClients` | `http.cpp`: `HttpClient` from constructor to destructor | per thread a program counter and what it owns; libcurl's global count; a body arrives chunk by chunk (`Receive` is `writeCallback`) |
| `Verdicts` | the answers of the API (`main.py`; the network behind it is external) and their parsing | `CnnAnswers`, `GnnAnswers`; `Readable`, `CnnOutcome`, `GnnOutcome` are the two functions that read them |
| `Monitor` | `runBpfMonitor` | instances of `Tracer` (T), `SyscallGraph` (G), `LogShipper` (L) and `Verdicts` (V) under the monitor thread's program counter; the clock, both timers, the detached checks, the results of the exit path |
| `ImageArg` | the subcommand, `findImageArg`, `flagTakesValue`, `buildArgv0Cmd` | functions of a command line, next to the runtime's own reading of the line the shell makes of it (external); `Agreed` says of a line that both readings are of the same words |
| `Tarball` | `list_files`, `extract` of both encoders | functions of a sequence of entries |
| `Encoders` | both `build_image` pixel by pixel, `hilbert_d2xy` | the loops of the curve run for all positions in step (`Iterate`), the pictures are written byte by byte (`WriteLinear`, `Paint`) |
| `Gate` | — | abstract specification: an invocation is judged once, asks if accused, and passes or is refused |
| `PreRun` | main up to the fork, both encoders' file handling, `tryRemotePredict` | per invocation a program counter; shared: the tarballs, the pictures block by block, the runtime's images, whether `./out` exists |
| `*Proofs` | — | theorems about `SyscallGraph`, `GraphExport`, `Tracer`, `LogShipper`, `HttpClients`, `Encoders`, `PreRun` and `Monitor` |
| `MC*` | — | values of the constants for TLC |

`Monitor` composes by INSTANCE: `Callback` is one action of three components
(the ring's head is removed, `add_event` runs, the line is appended, a full batch is
flushed), as the callback in the code runs to its end before the next event.
`PreRun` ends where `Monitor` starts: its `Fork` is `Monitor`'s `Init`.
`HttpClients` looks into the requests that `LogShipper`, `Monitor` and `PreRun` treat
as one step with several outcomes; `Encoders` into the pixels of what `PreRun` treats as a
picture of `Blocks` equal blocks.

Conventions: one action per handler or step, its guard from the code's
conditions. Histories (`seen`, `missed`, `target`, `agreed`, `spoilt`, `overlapped`, ...) are
marked in the declarations and never guard an action. Definitions marked
"(Mutant: ...)" are the same code with a plausible bug; they belong to no
specification, and `PROJECT.json` names for each property the one that breaks it.

## What is checked

| Run | Instance | Question and result |
|---|---|---|
| `graph` | 3 processes, 4 events of 3 types, 2 of which are listed, `seq_` and counts of 3 values | All orders of events, any claim about parents. No edge dangles; `sequences` edges link exactly consecutive events of one process; `spawns` edges lead exactly to processes whose parent was seen first. For every iteration order of the process map the API request, the local model's tensors and the exported file show the same edges (`ReadersAgree`); as long as no number repeats, every row describes its node (`RowsDescribeNodes`); the exit log's numbers and its most frequent names fit the graph, as long as no count wraps (`SummaryAddsUp`). |
| `tracer` | 3 processes, 2 CPUs, rings of 2, 3 hits | A hit is missed, in a ring, or was handed over exactly once; per CPU in order. The order in which the runner is started (callback before buffer) is what makes it true. |
| `shipper` | 4 lines, one of which is not escaped, batches of 2 | At most once, in whole runs of consecutive lines; refinement of `LogDelivery`. |
| `clients` | 3 threads, bodies of up to 2 chunks, fair | libcurl is up exactly while somebody has a client; neither of the two throws of `request` leaks; a broken transfer never looks like an answer; every call ends, with a server that never does anything too (liveness). |
| `encode` | curve of order 3, linear picture of 32 pixels, files of 0 to 70 bytes | The curve is a bijection, consecutive bytes touch, bytes k apart are at most sqrt(6k) apart; both finished pictures show the same file. |
| `monitor` | the container's process and one more, one CPU, a ring of 2, 3 hits, 2 seconds, flushes of at most 1 s, lines that Loki refuses, fair | Nothing due is left behind by a turn of the loop; checks keep their distance although the timer is compared with a time taken before the flush; the batch is used as `LogShipper` says (refinement); the exit log, the last check and the file describe one graph after a last flush; a container that leaves an event in a ring is seen to end (liveness). |
| `prerun` | 2 invocations, 2 images, one tarball path, pictures of 2 blocks of which one picture may fail, every answer of the API; for one invocation lines of up to 7 words, some with `container` or `-H <value>` before the command, for the other a pull | The image found is the runtime's as long as both agree on subcommand, flags and words; a lone invocation judges its own first file in spite of leftovers; what runs on such a line is what was judged, and after `malicious` only with consent; the user is asked about exactly the accusations that can be read; a block that a picture lacks has a writer; the whole phase implements `Gate` (refinement). |
| `prerun_missed`, `prerun_stale`, `prerun_accused`, `monitor_unordered`, `monitor_stuck` | the same instances, or smaller | violations, see below |

### Disagreements with the documentation

* `prerun_missed` (`EveryRunChecked`). README.md:5: every `run` or `pull` triggers the
  pipeline. Three lines break it, each also without the other two:
  - `run -t web`: `flagTakesValue` (`cli.cpp:341`) lists `-t` (`--tag` of build) among the
    flags with a value, so the image is skipped. The run is forwarded with neither phase,
    or the first word of the container's command is analysed instead.
  - `run -p "80 db" web`: `buildArgv0Cmd` (`cli.cpp:326`) joins the words with blanks and
    quotes none. The shim analyses `web`, the runtime is given `run -p 80 db web` and runs `db`.
  - `-H run run web`: `findImageArg` (`cli.cpp:353`) takes the first `run` of the line,
    the value of a flag of the runtime's own, for the subcommand, and the next word for
    the image.
* `prerun_stale` (`VerdictOfImage`). README.md:7: the image's layers are extracted,
  encoded and classified. `./out/images` is never emptied: an image that could not be
  saved, or whose first file is empty, is judged by a picture of an earlier image, with a
  single user and no concurrency at all.
* `prerun_accused` (`MaliciousBlocked`). README.md:7: "Malicious images are blocked before
  they ever start"; README.md:124-129 and the matrix at :246 say so, too. Two ways lead
  round it. `stof` throws for a decimal below the smallest normal float (`cli.cpp:98`), which
  softmax gives to the other classes of a very confident answer: that answer is none to
  the client, and the image runs without a question. And an accusation that can be read is
  not a block but a prompt (`cli.cpp:676`), which the user may answer with y.
  `RunsOnlyJudged`, `AccusedNeedConsent` and `Gate` therefore say what does hold: no more
  than consent is promised, for the answers that can be read (`Readable`).
* The third verdict. README.md:21-23, :232 and :244-245 have images that are
  "suspicious". The code (`cli.cpp:219`) knows "clean" and "malicious" only, and what is
  below the threshold is clean: `TypeOK` of the run `prerun` has these two verdicts.
* `monitor_unordered` (`SequencesInTimeOrder`). README.md:183: `sequences` is the "temporal
  ordering within a process". Rings are read one after the other (`bpf_runner.cpp:49`) and
  events carry no time, so of a process that changes its CPU, or has threads on two, the
  later call may come first in its chain. The theorem `TimeOrder` is what holds: between
  events of one CPU the chain is in the order of the calls.
* `monitor_stuck` (`ExitNoticed`). README.md:222 promises a log of the exit. `poll` has no
  timeout: a container that ends without leaving an event in any ring is not noticed before
  some process on the machine makes a traced call. `DrainedExit` is what does hold.

Without a run, as the properties say the contrary openly:

* README.md:221 has "Every syscall event" go to Loki. Hits before the buffer is open and
  on a full ring are missed (`EveryHitInOnePlace` counts them), the container's last events
  stay in the rings, as nothing polls after `waitpid` (`cli.cpp:527`; `ExitDescribesRun`
  speaks of what reached the callback, and `ExitCount` of the difference), and a batch
  whose push fails is gone (`LogDelivery` promises at most once, not at least once).
* README.md:181 has a `spawns` edge from the process that called `clone`. The parent is read
  when the event is hit: a process whose parent has ended before its first event gets an
  edge from the one that adopted it. `SpawnsExact` speaks of the parent an event reports.
* README.md:66 asks for libcurl 7.x. `curl_global_init` and `curl_global_cleanup` in every
  constructor and destructor are safe only where libcurl locks them, as it does from 7.84
  on if built to. `HttpClients` assumes the lock.
* README.md:7 has images blocked "before they ever start", not before they are pulled: to
  analyse an image `cli.cpp:626-630` pulls it, ahead of any verdict (`EnsureLocal`).
* The container is forked before the program is loaded (`cli.cpp:703`). If loading
  fails (`Fails`), main returns 1 and the container runs on, unmonitored.

### Bounds, and why they are enough

* Three events, or hits, are the shortest run in which a process has an event before,
  between and after another one's; four lines with batches of two give two blocks, one
  of which may be late. Rings of one or two events are full at once. `SeqLimit = 3`
  lets three events have their own number and the fourth repeat one, and a count of one
  name wrap. `TopCount = 2` with three types lets `summary` list all names, or cut.
* `MaxHits` bounds the traced calls of everything on the machine. It hides one thing:
  with an endless stream of events a ring never gets empty, one `poll` never ends, and the
  timers starve. Liveness is claimed for finite streams only.
* `MaxClock = 2` with intervals of 1 and requests of at most 1 gives a check of the timer, a
  flush that takes a second after it, a second check that is due by then, and the check
  of the exit. What depends on several CPUs is checked in `tracer` and `monitor_unordered` and
  proved; blocks that Loki does store are in `shipper`. In `monitor` every line is refused, which
  keeps what Loki has from multiplying the states: the monitor never looks at it.
* Three threads are the loop's and two checks: one that starts while another ends and
  a third is in a transfer. Two chunks make a body that can be whole, half or missing.
* Order 3 is three iterations of the curve's loop: quadrants meet within and between
  squares. The linear picture (32 pixels) is smaller than the square (64), as in the
  code; the files end before, at and after either.
* Two invocations are all a race for one file needs; leftovers need one earlier
  invocation. Both images share one tarball path, the worst case; with paths of their
  own there are fewer interferences. The lines hold up to two flags, with and without a value, before the image, one
  of whose values is the name of a subcommand, and a group or a global flag with its
  value before the command. `ScanLimit = 2` is also the number of files of each image.
* Two blocks are the fewest of which one can be missing at the end, one in the middle, and
  two writers can leave one each. `MaxFailures = 1` is one picture that cannot be opened or
  is broken off; the violation runs do without. The theorems have every number of either.
* Two classes and a certainty of two units give every relation of class, probability and
  threshold: below, at and above it, and a probability too small to be read. The theorem
  `Heeding` is for every number of them.
* No run uses symmetry. `CHECK_DEADLOCK FALSE` where the system may stop: invocations
  and monitors end, counters reach their bounds, and an idle `poll` waits. In `clients`
  threads go on for ever and deadlock is checked.

### Fairness

`FairSpec` of `Monitor` assumes weak fairness of the monitor thread (the OS runs a
thread that can run; every HTTP request ends, because `http.cpp:55` sets
CURLOPT_TIMEOUT) and of the step from the exit probe to the zombie (`do_exit` ends).
Nothing is assumed of the traced processes: they need never make another call. This
is why `ExitNoticed` fails and `DrainedExit` holds. Detached checks need no fairness,
as the monitor never waits for them.

`FairSpec` of `HttpClients` assumes weak fairness of what a thread with a client does,
the timeout included, and nothing of the server: chunks need never arrive, and no
thread need ever make another client.

## What is proved

Every theorem is proved for all values of the constants that satisfy the named
assumptions of the module (`GraphAssumption`, `TracerConstants`, `ShipperConstants`,
`HttpAssumption`, `EncodersAssumption`, `VerdictsAssumption`, `PreRunAssumption`,
`MonitorAssumption`, `ExportAssumption`, `ImageArgAssumption`). `PreRunAssumption` says of
`TarPath` that it has a path for every word a line can hold, as `saveImageAsTarball` makes
one of any text; of a command line that it has a word; and of words that they are not
empty. Where the subcommand stands on the line is left open, as `main` searches the whole
of it. `ImageArgAssumption` says that no subcommand begins with a dash. TLC evaluates these
assumptions on the instances, and `Monitor` states those of its components again for the
values it instantiates with (`ComponentAssumptions`).

* `SyscallGraphProofs`. `Typing`, `Joining` (no edge dangles, for every width of
  `seq_`), `Growing`, `Chaining` (`SequencesExact`), `Parenting` (`SpawnsExact`),
  `Counting` (`EdgeCount`), `Numbering` (event k has number k - 1 until `seq_` wraps).
  `EdgesJoinNodes` is not inductive: the new `sequences` edge starts at what
  `last_event_by_pid_` holds, so `JoinInv` adds `LastIsNode`, that each of its entries
  is an event in the graph. `Growing` needs only types: every assignment appends or
  adds. `ChainInv` adds that `last_event_by_pid_` has exactly the number of a process's
  newest event; `SpawnInv` that the processes of the map are those with events, with the
  parent of the first one; `CountInv` adds that no `spawns` edge repeats another, which
  makes their number the size of a set, and counts edges, events and processes together.
* `GraphExportProofs`. `Agreement` (`ReadersAgree`), `RowsBelong` (`RowsDescribeNodes`),
  `Summing` (`SummaryAddsUp`), `Ordered`. The readers have no state, so these are facts about
  every graph with the invariants above. `IndexOfNode` is the main lemma: the index
  `id_to_idx` gives a node is its place in the exported file, whichever event wins when
  numbers repeat. `AllEdgesLive`, that the loop over the edges drops none, is where
  `Joining` is needed, and an event's row is its own by `Numbering`. `TotalIs` adds the
  counts up name by name. `Ordered` shows that an iteration order and a ranking always
  exist (`SortedSequence`), as the properties quantify over all of them. `Indexing`
  (`OneIndexEach`): `id_to_idx` never gives two nodes one index, and until `seq_` wraps
  every node is listed once.
* `TracerProofs`. `Typing`, `Accounting` (each hit in one place, handed over once),
  `CpuOrder`, `Plausibility` (what an event says of its process and CPU is possible).
  The inductive `PlaceInv` adds that the rings hold increasing hits of
  their own CPU, newer than all that was handed over from it; and `CallbackSet`, that
  the buffer is opened only after the callback was set, without which `handle_event`
  could drop events. `AddingUp` (`HitsAddUp`) counts: as the numbers of the hits are
  1 to `hits` (`AsManyAsNumbers`), the hits are the missed ones, the ones in rings and the
  ones handed over, and of those in rings there are at most `RingCap` per CPU.
* `LogShipperProofs`. `Typing`, `Placing` (no line in two places), `Runs` (blocks are
  consecutive lines, the batch is the newest ones) and `Delivering` (refinement of
  `LogDelivery`). `Placing` needs `AllRecorded`, that whatever is in a batch or block
  was recorded, so that a new line is new everywhere. In the refinement a
  stored push, on time or late, is a delivery; flushes and failed pushes are stutters.
* `MonitorProofs`. `TracerUsed` and `ShipperUsed` are refinements: every step of the
  monitor is a step of the component or leaves it alone. They let the theorems of the
  components be used for the whole: the module instantiates `TracerProofs` and
  `LogShipperProofs` again, shows that both instances are the same, and gets
  `EventsDelivered`, that no event the probes handed over is stored twice by Loki.
  `ShipperUsed` needs `BatchInv` (the batch is full only on the way into
  `flush_logs`, and empty while a push runs) and, from `Accounting`, that no event is
  recorded twice. `GraphUsed` does the same for `SyscallGraph`: its input is plausible by
  `Plausibility`, and `SeenInv` (events and callbacks are equally many, and of the same
  processes) turns the bound of hits into one of events. From it and `CpuOrder`,
  `TimeOrder` says how far `SequencesInTimeOrder`, which is false, can fail: only between
  events of two CPUs, for processes that go where they like, and until `seq_` wraps.
  `ExitDescribes` (`ExitDescribesRun`): `ExitInv` follows the size of the graph through the
  last check, the file and the log, and `Counting` gives the edges. `Bounding`
  (`ChecksBounded`, which no run checks: an instance with enough checks is beyond
  TLC): `LifeInv` says when a check must be over; the checks of the timer that
  are alive then map injectively into the intervals of two timeouts. `Typing` is the type
  invariant. `Timely` (`TimerInv`) and `Spacing` (`SpacingInv`: no check is stamped
  later than `last_gnn`) hold for every interval, also zero or negative ones.
  Three theorems are about the whole chain. `GraphIsExact` has all that is proved of the
  graph for the graph the callback fills. `OnceAtLoki` joins `Accounting`, `CpuOrder`,
  `Placing` and `Runs`: no probe hit is at Loki twice, and a block keeps the order of each
  CPU. `ExitCount` joins `AddingUp` and `ExitDescribes`: the exit log is silent about what
  the kernel missed and about at most `RingCap` hits per CPU that were never read, and about
  nothing else. `Ending` says of the exit path that each step brings the monitor thread
  nearer to its end (`StepsToEnd`) and none leads back to `poll`, whatever others do.
* `HttpClientsProofs`. `Typing`, `Usable`, `Freeing`, `Wholeness`. `Locals` and
  `Owned` say what a thread has at each step; `Counted`, that libcurl's count is the
  number of threads with a client, makes the last destructor the one that stops it.
  `Bounded` measures how far a call is from its end (`Work`): each step of its thread makes
  that less, and no other thread changes it.
* `EncodersProofs`. `Typing`, `Bijection`, `Locality`, `Agreement`, `Nearness`
  (`NearbyStaysNear`), for curves of every
  order. `CurveInv` says that after k iterations the positions fall into equal stretches
  (those with the same `rest`), each of which walks through a square of side 2^k without
  leaving it, repeating or missing a pixel, from its first corner to the next; the lemmas `StepInside`, `StepApart`, `StepTouch`,
  `StepJoin` and `StepOnto` are what one iteration does to such a square. `LinearInv` and
  `CanvasInv` say what has been written so far; `CanvasInv` needs the bijection, so that no
  byte overwrites another. `Nearness` is not inductive: two bytes that are near each other
  may be on different sides of a border, each with a distance to the corner at which the
  curve crosses it. `SpreadInv` adds these: a point (a, b) away from the first corner of its
  square has (a+1)^2 + (b+1)^2 - 2 <= 3n if it is n bytes from the start, and likewise from
  the end (`NearCorners`). That form of the bound is inductive where a^2 + b^2 <= 3n is not
  (`StepPoint`), and across one, two or three borders it adds up to 6k (`StepNear`).
* `PreRunProofs`. `Passing` (`RunsOnlyJudged`: on a line that both sides read alike, what runs
  is what was judged, and after `malicious` with consent) rests on `Finding` and on
  `PassInv`, from where each step of the pipeline may be reached; `FoundInv` says that what is
  being analysed is what `findImageArg` gave, and that an invocation without an image
  never enters the pipeline. Nothing is said of the pull that the analysis itself makes.
  `Heeding` is about accusations by the API, for every number of classes and threshold
  (`HeedInv`); it rests on `MaliciousIsAccused`, that the client's verdict and the server's
  words agree on every answer that can be read.
  `Typing`: `TypeInv` adds that what is being analysed is a word of the line, which
  rests on `PositionalIs`, that the recursion of `findImageArg` is well founded.
  `Finding` (`ImageFound`): on a line of which both sides read the subcommand, the flags and
  the words alike, wherever the subcommand stands, both loops skip the same words, the
  outer loop has no second chance, and the shell gives the runtime the same words.
  `OwnJudgement` (`OwnPicture`): of two active invocations
  each has seen the other (`Alone`), so one without overlap is the only writer, and
  `OwnInv` says at each of its steps which blocks of its first picture are its own by then.
  `Tearing` (`LackHasWriter`): `WriterOf` names who is responsible for a block that is missing:
  an invocation that has not come to it yet, was interrupted before it, or failed. A
  truncation makes whoever truncates responsible for all blocks, and a write into a file
  that another has truncated meanwhile leaves a gap the other has yet to fill. `Gating` is
  the refinement of `Gate`: a step of one invocation moves its own gate by one step and
  no other gate, and one that owes a judgement is not exempt, by `Finding`. `Finite`:
  `StepsLeft` counts two passes over the files, each with an opening and the blocks of every
  picture, 2n(b + 1) + 11 steps for n files and b blocks; a tarball that is replaced between
  two steps may change what is read but not how often, as the list of files is taken once
  per pass (`WritesListed`: a picture that is written belongs to a listed file). Its
  hypothesis, that no image has more files than some number, is met by every finite registry.

Where a proof is by induction over numbers it is stated for a set: a set that has 0 and
with each number the next one has them all (`AllNumbers`, from `LeastNumber`, that a nonempty
set of numbers has a least one, which is `WFMin` of the library). That is how the functions that are
defined by recursion (`Positional`, `LiveEdges`, `Total`, `ListFiles`) are dealt with.

Every invariant a passing run checks is a theorem. Model-checked only are the liveness
properties `DrainedExit` and `EveryCallEnds`, which rest on fairness and thus on ENABLED,
beyond the prover here. Their safety halves are proved: `Ending` and `Bounded` say that
the way to the end is finite and that nothing leads back; that its steps are
taken is what fairness gives. `DrainedExit` moreover needs that the monitor reaches
`waitpid` while some ring holds an event, which no bound on the steps replaces: other
processes may go on filling the rings.

## What is not modelled, and why

* Texts: log lines, labels, the layout of JSON and PPM, `escape_json`. Where a text
  matters it is a class of values (a line that `buildPayload` does not escape; the class
  and the probabilities in an answer).
* uid, gid, comm and arguments of events; they are copied and never decide
  anything, except through escaping. The 20 floats of a feature row: a row is the process
  it describes, or the set of the event types whose bits are set in it.
* Reading a picture or a tarball is one step, and so is opening a file. `extract` reads the
  tarball again for every file, and those reads are separate steps.
* The blocks of a picture are equal, and written in their order, by both encoders. The
  linear encoder writes pixel by pixel through a small buffer (`linear.cpp:89-94`); the other
  hands its canvas over in one call (`filling.cpp:123-128`), which the library or the kernel may
  still split. Once a stream has failed it writes nothing more.
* Command lines with an empty word, and globs or expansions of the shell: `Parts` splits words
  only. The properties `ImageFound`, `RunsOnlyJudged` and `GateSpec` speak of lines that are read alike
  (`Agreed`); `prerun_missed` shows others. What the runtime makes of a line is modelled from how
  the code uses it, and knows the commands `run` and `pull`, alone or in a group.
* `save` is one step, either whole or without effect. `docker save -o` writes a temporary
  file and renames it; `podman save` writes in place, so that an invocation that reads
  the same path meanwhile could find part of a tarball. The model has the tarball
  missing, whole, or another image's at each single read, which is what the properties
  depend on.
* The pre-run phase's log pushes: they change nothing the phase looks at. What happens
  inside one is `HttpClients`.
* The options that distinguish `get`, `post`, `put` and `del`.
* Mutexes of the monitor: the detached threads take copies, and no two threads ever
  contend, so a lock is held within one action.
* The neural networks: `Softmax` of `Verdicts` is external. Not modelled are the
  requests that `main.py` refuses with 422, which this client never sends.
* The inference server's model registry; `OnnxModel` and `TorchModel`, which hand a vector
  to their runtime and are used by nothing in `cli.cpp`; the flag parser, likewise unused;
  the build files and the dashboards.

## Plan

Written, in the order of importance: `SyscallGraph`, `Tracer`, `LogShipper` over
`LogDelivery`, `Monitor` which composes them; `ImageArg`, `Tarball`, `Verdicts` and
`PreRun` over `Gate`; `HttpClients`, `Encoders`, `GnnExtraction` and `GraphExport`; and the
proofs named above. What could still come:

1. A `save` in several steps, with a tarball that ends in the middle, and encoders that
   read it meanwhile.
2. The liveness properties as theorems, with a prover that has ENABLED.
3. Two monitors side by side, which share Loki and the inference server but no memory.
