# ExpertFlow: formal models

ExpertFlow sets up, benchmarks and tunes local GGUF models with llama.cpp, owns
the `llama-server` processes it starts, and keeps the evidence of every
measurement so that a claim can be reconstructed later. It is mostly
single-threaded Python around processes, sockets, files and one SQLite database:
what is hard in it is not an algorithm but what happens *between* its steps - an
interrupt, a crash, a server that dies, a host that changes, a second process,
a file replaced - and whether what was published before is still true then.

This directory holds TLA+ models of those parts, the TLC configurations that
check them, and TLAPS proofs of the most important ones. Paths below are
relative to `src/src/expertflow/` unless they begin with `src/`, or with `docs/`,
which stands for `src/docs/`. `PROJECT.json`
maps every definition to the source lines it stands for, and lists the runs, the
hazards, the findings and, for every property, a plausible bug ("mutant") that
breaks it. Definitions whose comment begins with "Faulty:" are those bugs; no
specification uses them.

## 1. Inventory

| Part of the system | State | Operations | What makes it hard | What makes it correct | Module |
|---|---|---|---|---|---|
| Owned server: `product/session.py`, `server.py`, `windows_job.py`, `service_control.py`, the error paths of `local_cli.py` | the child process, its port, the Windows job, `launch.json`, `session-state.json`, `process-receipt.json` | enter (probe, spawn, assign, resume, record, health), body, exit; `local status`, `local stop` from another process | interrupts and crashes between any two steps, pid reuse, a foreign listener, a server that ignores SIGTERM | signals reach owned processes only; a ready session owns its listener; receipts are true; launches and cleanups end | OwnedServer |
| Measured run: `compiler/runner.py` | the child, its device memory, the samples, the two events and the lock shared with the monitor thread | `run_once`: launch, health, tokenize, complete, tear down, append | two threads; a crash of the server frees its port; memory that outlives the process | evidence is about the own server and is final | MeasurementRun |
| Evidence store: `compiler/evidence.py`, `compiler/plan.py` | SQLite rows, artifact files, the model file, cached hashes | append in a transaction, verify with its chain of comparisons, seal a plan | concurrent writers, kills between statements, files changed during a verification that goes row by row | an append-only ledger; a plan rests on it as a whole | EvidenceLedger, EvidenceStore |
| Tune job: `product/tuning.py`, `product/reports.py` | the job's progress, journal, receipts, `report.json`, `selected-profile.json` | search, pairs, decision, evidence, `verify_job` | wall budget and pacing, a changing host, interrupts in the middle of assignments | a report is reconstructible, a selection earned | TuneJob |
| Streaming client: `product/benchmark.py`, `product/server.py` | a socket shared with a timer thread | one HTTP or streaming call | the timer races the end of the body | a returned response is whole, every call ends | StreamDeadline |
| Benchmark job: `product/benchmark.py`, `product/reports.py` | the result and the lists it shares with the monitor thread, the files of the measurement, `report.json` | `bench_profile`, `measure_profile`, MemoryMonitor, `verify_job` | the thread may outlive the wait for it; interrupts after the result exists; files are hashed in a `finally` | a report that says MEASURED is confirmed; what is confirmed was earned | ProductBenchmark |
| Stock product: `compiler/refinement.py`, `compiler/stock_validation.py` | frozen protocol, rows, `report.json`, `accepted/` | twenty balanced runs, evaluation, reconstruction, publication by renaming | the host changes between its capture and a launch; partial publication | what is accepted was measured on the frozen host and can be loaded | StockProduct |
| Stock search: `compiler/stock_search.py`, `stock_discovery.py` | frozen manifest, screening, confirmation, `recommended/` | screen, rank, confirm, decide, publish; load and run | files replaced between hashing, loading and running | a challenger is confirmed independently; a measured consumer run used what it loaded | StockSearch |
| Phase 3 pipeline: `compiler/pipeline.py`, `compiler/plan.py` | candidates, measurements, `explanation.json`, the pending and the published plan | compile live or from recorded evidence, replay, publish; `run --plan` | death or failure between the files that belong together | a plan is the strongest candidate, confirmed and replayed; it is never replaced | Phase3Pipeline |
| Trace collection: `collection.py` | attempt directories, `collection-manifest.json` | collect, resume | a collector dies while its probe goes on writing; the resumption counts files it did not make | the history is append-only, a passed shard compared two probes of one call, resuming completes | TraceCollection |
| Runtime installation: `product/runtime.py` | `.part`, `.download`, staging and destination | resume, verify, extract, rename | partial bodies, ignored ranges, republished assets, kills | what is installed was verified; what can be resumed is | RuntimeInstall |
| Cache and prefetch simulation: `analysis/cache_sim.py`, `prefetch_sim.py` | LRU caches, demand counts | policy event, transfers of a step, demands in turn | capacity limits, protection of demands, the order of evictions | LRU; transfers spare demands; the hotset is best | CacheSimulation |
| Profiles and setup: `product/profiles.py`, `product/setup.py` | the profile file, its backups and temporary files | `setup_profile` with up to three saves, `profiles remove` | two setups of one path, a crash or failure between backup and replacement | a profile says what its own setup found; what stood there is kept | ProfileStore |
| CUDA transfer benchmark: `runtime/cuda_transfer.py` | streams, events, memory of the device | `measure_*`, `benchmark_*` | copies are enqueued and run later; a failure in the middle of a batch | a sample covers exactly its copies; memory outlives them | CudaTransfer |
| Repeatability study: `src/scripts/benchmark_compiler_stock_repeatability.py`, `..._utility.py` | two runners with a journal each, the reports of the phases | `run_followup`, `execute_utility`, `validate_followup` | the host changes between any two guards; every phase may be cut off | stops at the first failure; a pass went through every gate; the audit believes truthful reports and no others | RepeatabilityStudy |
| Wider study: `stock/wider.py`, `stock/wider_audit.py`, `src/scripts/benchmark_compiler_stock_coverage.py` | the cases' reports, attempts and products, the sequence's counts | `run_sequence`, `execute_case`, `PacedRunner.run_once`, `reconstruct_case`, `validate_sequence` | budgets that run out in a wait or in a callback; cases cut off anywhere | the next case only after a verdict within the budget; every attempt is counted | CoverageStudy |
| Native router probe: `src/native/router_probe/main.cpp` | graph callbacks, trace, counters, three files | options, prompt, generation, report | refused observations that llama.cpp does not report; buffers sized beforehand | a successful run left a whole trace and counted every event | ProbeCommand, RouterProbe, ProbeCollection |
| Patched runtime scheduler: `docs/research/release/expertflow-build-week/runtime-source/ggml-backend.cpp` | shadows of expert tensors, splits, the queue of the device | create, reserve, allocate, compute | weights that are copied once, or for the chosen experts only, while the device is behind | every multiplication reads the weights it was given | ExpertIsland |
| Compiler passes, eligibility, references: `compiler/passes/base.py`, `stock_eligibility.py`, ... | none that persists | ordering, selection, record checks | pure | - | planned as operators |
| Deadline oracle, capacity curves, replay, predictors, expert layout, quality reports | numeric tables | offline statistics | arithmetic over floats | - | partly planned |
| Model inspection, preflight, schemas, adapters, command lines, stock readers | none | decode, validate, print | pure I/O and formatting | - | not modelled |

How they interact: a tune job, a setup, a measured run and a trace collection
each start servers (a tune job through OwnedServer's ServerSession and the
streaming client). A measured run appends to the evidence store; the Phase 3
pipeline and the stock experiments are made of measured runs and seal plans from
the store; a stock search starts from an accepted stock product, and a consumer
loads either. Traces feed the cache simulation. The studies
are made of blocks and searches in turn, each with its product and its consumer.
The collector starts the router probe; static islands are a setting that a
measured run gives to the patched runtime. The parts share files and
databases only, never memory, so each is a module of its own, and the
compositions are those where two of them really interfere: StockProduct with
StockSearch and a consumer; the collector with the probe; the evidence store
with the ledger it implements.

## 2. Modules

**OwnedServer** (`OwnedServerProofs`). Processes are identities
- the (pid, birth, image) the code compares - and a pid is an attribute that the
kernel may hand out again. Launcher steps follow `ServerSession.__enter__`,
`OwnedProcess.__enter__` (spawn, assign to the job, resume, record), the gap
between its return and the `try` of `server.py:52`, the health loop, the body,
and `OwnedProcess.__exit__`. `Interrupt` is a KeyboardInterrupt at any step and
unwinds to the handler that the code has there; `Crash` kills the launcher.
Status and stop read the saved identity, open a handle, verify the identity
*through the handle*, and act. The variable `system`, fixed at the beginning,
selects the branch of `os.name`.

**MeasurementRun** (`CommandProofs`). `run_once` with its monitor thread: `sampling_lock`, the
events `active` and `stop`, the phase read before a sample, the finally block
(stop, join, terminate, wait, kill, wait, settle), attestation, append and
verification. `lag` says that device memory may outlive its process.

**EvidenceLedger** is the abstract promise: measurements that only accumulate,
with unique IDs and owned runs, and plans sealed from them. **EvidenceStore**
(`MCEvidenceStore`, `EvidenceStoreProofs`) is what the code does: SQLite
transactions statement by statement, verification of one row after the other
while files and rows change, comparisons followed recursively with `_seen`,
`prime_model` with its (mtime, ctime) stamp. It implements the ledger, `ledger`
being the committed rows.

**TuneJob** (`MCTuneJob`). `tune_profile` and `measure` with the clock, the
budget and the journal, which `write_json` truncates before it writes it, as it
does the two other files (Partial); an attempt takes its time between the journal
and the launch (the host's capture, the profile's hashing), with the deadline
checks that lie there. `verify_job` is an operator over the files a job leaves,
applied to every state.

**StreamDeadline** (`CommandProofs`). The caller of `_http`, `_stream_completion` or `chat`, and
the timer thread that sets `expired` and shuts the socket down. A response can be
cut in its headers, within a line or chunk, which raises at once, or between two
lines, after which the caller looks at `expired`.

**ProductBenchmark.** `bench_profile` and `measure_profile` with the exits of the
blocks that an exception unwinds (`Handler`), the monitor thread, the server and
its log; `Verifies` is `verify_job` for a benchmark, applied to every state.

**StockProduct**, **StockSearch** (`ExperimentsProofs`). The paired experiment and
its publication; the search EXTENDS it, starts from what it published, and adds
the consumer. The environment changes the host and edits files at any time.

**Phase3Pipeline** (`CommandProofs`). `compile_phase3` step by step, repeated in one directory,
with failures and kills; `run --plan` as the last actor.

**TraceCollection** (`CollectionProofs`). `collect_trace_pairs`, repeated; probes of a dead collector
go on writing, files are damaged.

**RuntimeInstall** (`CommandProofs`). `download_archive` and `install_archive`, repeated, with
network failures, kills, damaged files and a republished asset.

**CacheSimulation** (`DeviceProofs`). The LRU and static policies, and the
simulator of concurrent prefetching. A loop over an event or a step is a function
of how many of its iterations are done, sorting is counting what stands ahead.
The history `fresher` has, of every expert used so far, those used by a later
event than its last one.

**ProfileStore.** `setup_profile`, `save_profile` and `profiles remove` for the
calls that name one path: look, write the temporary file, copy what is there to
a backup, replace.

**CudaTransfer** (`DeviceProofs`). Each `measure_*` method as the sequences of
commands it gives to the driver, one for what comes before its loop (`Setup`) and
one for each turn of it (`Round`); `round` and `next` say where the host is,
`DeviceStep` executes the head of a stream later. A sample is the set of copies
between its two ends beside the number it is divided by.

**RepeatabilityStudy** (`StudyProofs`). `run_followup` with GuardedRunner around FrozenRunner,
the blocks, the utility transfer, its consumer, and `validate_followup` as an
operator over the files that are left, applied to every state.

**CoverageStudy** (`StudyProofs`). `run_sequence` over cases, each `execute_case` through
PacedRunner with its guard, fixed wait, spawn callback and start; `Validate`
reconstructs a case when it ends, `Accepts` is `validate_sequence`. A report of pairs
says whether the statistics were computed: the sources are checked before
(refinement.py:217), the host after.

**RouterProbe** (`DeviceProofs`) is `main.cpp` with its callbacks, llama.cpp being external;
**ProbeCommand** is what the probe accepts and writes, which **ProbeCollection**
composes with TraceCollection. TraceCollection takes both as parameters, so that
its own properties do not depend on that disagreement (finding 8).

**ExpertIsland** (`DeviceProofs`). The scheduler of the patched llama.cpp: shadows are created
when graphs are split, loaded when they are first used, other expert tensors are
copied for the experts that the router chose; `DeviceStep` is the GPU.

**MCExperiments** (`ExperimentsProofs`) puts the stock experiments, a tuning job, a
benchmark job and two setups side by side, **MCComponents** (`ComponentsProofs`)
the eleven components with small instances. It EXTENDS **Commands** (pipeline,
collection, installation, measured run, streaming call), **Studies** (the two
studies) and **Devices** (cache simulation, CUDA transfers, router probe, expert
island), which declare the variables of their components and instantiate the
modules, so that a proof about a component sees its neighbours and no more;
**NoValue** declares the placeholder None that they share. In both compositions the
variable `experiment` or `component` says which one a behaviour is about, the
others stay in an initial state. Because only one is in motion, one fairness
condition serves a fair action of each (`Call` for the main thread of each, and
so on). The properties of a component that ask one question are the conjuncts of
one property there.

## 3. Runs

| Run | Shows | Instance and why it is enough |
|---|---|---|
| `server` | TypeOK, ReceiptIsTrue, ReadyMeansOwnListener, NoRunawayOnWindows, StopWaitsOnWindows, SignalsStayInCustody, SessionEnds | both systems; one launcher, one stop or status command, two processes (the server and a foreign program) over two pids and one port, one interrupt: the smallest instance where a pid is reused and a port is stolen; more launchers are the theorems' business |
| `stop_report_linux` (finding) | StopReportIsTrue fails on Linux | one server, one stop |
| `cancelled_report` (finding) | CancelledMeansStopped fails | one launcher, one interrupt |
| `run_exit` (finding) | TerminationIsOwned fails | no constants |
| `store` | TypeOK, RowsAreSound, ForkIsCompared, SealedIsSound, CacheIsTrue, CallsEnd, ImplementsLedger | two writers, one of which seals; two IDs; a stock run, one that disagrees with it, a warmup and a patched run. `MCSpec` bounds the combination: either comparisons with changing weights, or disagreeing runs with a warmup |
| `tune_baseline` (finding) | InconclusiveKeepsBaseline fails | two candidates |
| `experiments` | TypesAreRight, AcceptedIsEarned, PublicationIsTrue, ChallengerIsEarned, ConsumerIsBound, ReportIsReconstructible, SelectedIsEarned, JournalCovers, ProfilesAreKept, Paced, MeasurementsEnd | the code's twenty runs per experiment, one challenger, host there and back, one edited file; a job with one candidate, gains of 0 or 20 percent, durations 1 and 4 and sleeps that last 0 or 2 too long around a deadline of 24; a benchmark of two replies with two mishaps, a thread and a log that may write once more than is looked at; two setups of one path, one death, one removal |
| `components` | TypeOK, PublishedPlanIsTrue, AttemptsAreTrue, InstallIsSound, RunIsTrue, ResultIsTrue, TransfersAreSound, StudyIsEarned, AuditIsExact, ProbeIsFaithful, CacheIsSound, RecordsAreKept, TransfersSpareDemand, NoRetry, ComponentsEnd | see below |
| `install_resume` (finding) | ResumeSucceeds fails | two blocks, one fault |
| `oracle_bound` (finding) | OracleIsUpperBound fails | four experts, four conversations, cache of two, two transfers |
| `study_audit` (finding) | GuardStopsAreAudited fails | two runs per stage, two changes of the host |
| `probe_collection` (finding) | UndisturbedPasses fails | one conversation, no fault |

The instances of `components`: two candidates, two rates, two repetitions and
pairs, two compilations of a directory; two conversations with two faults; an
archive of two blocks with three network faults; a response of three parts;
three experts in a cache of two; two copies per batch, two batches, one warm-up
copy; a repeatability study with two runs per stage and six changes of the host
(a phase that froze a changed host only slips past the guards when the host
changes there and back several times); a sequence of two cases with one run per
stage, two per block, and two changes; a probe with two prompt tokens, up to
three generated ones and two layers; an island of up to two layers with two
tensors of three experts each, a table for three shadows (four would be needed)
and two graphs, so that the second one finds shadows loaded, memory to move and
rows left by the first.

Runs say `CHECK_DEADLOCK FALSE` where the system really stops: a finished
session, job, experiment or call.

Bounds that stand for data. *TuneJob*: with gains of 0 or 20 percent `Decide`
is a table in the number of gains (0-1 NO-MEASURABLE-GAIN, 2-3 INCONCLUSIVE
because of the noise limit, 4-5 VERIFIED-IMPROVEMENT), obtained by evaluating
the code's bootstrap for each of the outcomes. *StockProduct*: direct arms at
100 and sealed ones at 100 or 95; `Verdict` accepts at most one slow sealed run.
*StockSearch*: 100 or 105; `Confirmed` accepts from five fast runs on. Both
tables were evaluated with the code's bootstrap over all outcomes; counters stop
where the tables stop telling counts apart (`SlowCap`, `FastCap`). In the two
studies the rates are drawn as the verdict they lead to. The clock of a tuning job
(`experiments`) is in units of which a budget has a few: preparations of 0 or 3,
measurements of 1 or 4 and sleeps that are 0 or 3 too long pass the deadline, or do
not, at each of its checks; `tune_baseline` has no preparations.

Simplifications that a reader should know:

- EvidenceIsOwn assumes `~lag`: if device memory can outlive its process, the
  memory check cannot tell that the server crashed and a completion answered by
  another program on the port could be accepted: the samples (runner.py:412)
  and the settling loop (runner.py:513) look at the memory of the own pid only.
- In the evidence store, hashing the artifacts of one measurement and rereading
  them is one step; each replacement of the weights changes the stamp; a record
  names at most one comparison, as the program writes them.
- In ProductBenchmark nobody takes the port of a server that crashed; a program
  that did would be asked for the remaining replies, as a session checks the
  owner of its port at the health check only (server.py:59). A thread that
  outlives the wait is excepted from the properties: its late samples may be in
  one of the two reports only, which `verify_job` then refuses.
- In the stock modules freezing the protocol is one step. Runs do not overlap,
  because `run_once` refuses a busy device (runner.py:301, 440).
- In the pipeline the stock matrix has two candidates instead of six, and one
  compilation of a directory runs at a time. PlanIsClaimed has no converse: an
  explanation may say `sealed` with status VALIDATION-STOP and no plan when the
  plan could not be written, and an OSError after the plan was published answers
  VALIDATION-STOP while the plan stays.
- In the collection one collector runs at a time; directories that an orphaned
  probe or somebody else wrote to are exempt (`spoiled`), as no recorded hash can
  speak for them beforehand.
- One installer of a destination at a time; files are damaged only between its
  calls; a republished archive has the same number of blocks.
- Only `_http` turns an exception into a TimeoutError when the deadline is over.
  The two streaming calls let it through, from the headers and from a line or
  chunk that was cut in its midst (server.py:132-140, 194-206), although the timer
  made it; CutIsTimeout asks a timeout of them only for a cut between two lines.
- A receipt of a server may not be written: closing the log or the write in the
  `finally` may raise (session.py:89-96). The launcher's outcome is `unwritten`
  then, and ReceiptIsTrue asks for no receipt of it.
- CudaTransfer: an interrupt inside the `finally` of a method, which would skip
  releases, is left out; its calls are not checked, so that none of them raises.
- The simulator treats a layer by itself: a step's transfers are shared between
  layers, so a layer may get any part of them. A prefetched expert that is
  evicted and loaded again in the same step still counts as `ready_useful`
  (prefetch_sim.py:120-124). OracleIsUpperBound is not violated with the two
  conversations of `components`, and is with four.
- ProfileStore: unlinking a temporary file succeeds; `backups` are only the .bak
  files that were written to their end. Of two saves that overlap, the later
  replacement drops the earlier profile without a backup (`raced`): the code
  takes no lock. `load_profile` and `verify_profile` are data.
- RepeatabilityStudy, CoverageStudy: reports can be written, and the process
  does not die in the middle; what a cut-off phase leaves comes from guards,
  faults and budgets. A sequence that ended in RESOURCE-BUDGET-STOP or
  IDENTITY-STOP is never accepted by `validate_sequence`, so that OrderlyStopsAreAudited
  asks about the other statuses. The exception it makes is the case of finding 7 in
  this study: a source file that changes between the last pair of a block and its
  statistics leaves a truthful report without them, which `verify_block` cannot
  compare with its own (wider_audit.py:280, repeatability.py:316); the sequence
  then says IDENTITY-STOP (LacksStatistics). What else is outside
  the claim (`undisturbed`: a host that changed at a capture, a record that is not
  valid, and the like) is listed above OrderlyStopsAreAudited.
- RouterProbe: `trace.error` is set when an observation is refused and never
  looked at (main.cpp:852), which is why TraceIsWhole holds of a run that exits
  with 0 only as far as no observation was refused.
- ExpertIsland: one GPU and one copy of every input (without pipelining there are
  no events), every expert tensor opens a split; the split profile is left out. It
  keys its records by `split_id` alone (ggml-backend.cpp:886), so prompt and
  decode graphs, whose splits differ, share records under the names of
  whichever came first.

## 4. Findings

1. `stop_report_linux`: `local stop` answers STOPPED on Linux right after
   sending SIGTERM (service_control.py:72), where Windows waits (line 51).
2. `cancelled_report`: a Ctrl+C between `OwnedProcess.__enter__` and the `try`
   (server.py:48-52) leaves the server running on Linux while `main()` says it
   was stopped (local_cli.py:252).
3. `run_exit`: a server that crashes after the last sample is recorded with exit
   code 0 and `owned_termination` (runner.py:530), which the verifier's "child
   process did not exit cleanly" (evidence.py:312) was meant to refuse.
4. `tune_baseline`: an interrupt after the decision leaves an INCONCLUSIVE report
   that selects the candidate's settings (tuning.py:124; docs/PRODUCT.md:32).
5. `install_resume`: a complete `.part` file is asked to be resumed, which a
   server that honours ranges answers with 416, in this and in every later call
   (runtime.py:128; docs/local-quickstart.md:58).
6. `oracle_bound`: the oracle prediction is not an upper bound: its transfers
   change the order of evictions (prefetch_sim.py:210;
   docs/research/original-project-specification.md:3185). Reproduced with the
   code: 6 misses with the oracle and 5 without, on a trace of two steps of four
   conversations.
7. `study_audit`: when a guard notices a changed host after the last run of a
   block, the study ends with all rows of the block and no verdict;
   `validate_followup` requires the statistical verdict of such a block and
   refuses the truthful report for ever
   (`src/scripts/benchmark_compiler_stock_repeatability.py:316`).
8. `probe_collection`: the collector starts the probe without `--performance`
   (collection.py:450), which the probe requires (main.cpp:174); with it, the
   reader of the tokens would refuse the field `generated_text` (main.cpp:590).

## 5. Fairness

- OwnedServer: the launcher's own steps are weakly fair, since every wait of
  theirs has a timeout; the health deadline passes; the kernel ends what was
  killed. Nothing makes a server bind, answer or honour SIGTERM, a body end, or
  a command go on.
- EvidenceStore: a running append or seal goes on; SQLite gives a lock up within
  its timeout. Nothing makes a call begin, or files change.
- ProductBenchmark: the program's steps, and the waking of a thread that waits for
  its event; the thread need not finish a sample, as the program stops waiting.
- TuneJob, ProfileStore, StockProduct, StockSearch, Phase3Pipeline,
  RuntimeInstall, RepeatabilityStudy, CoverageStudy: the call's own steps, as
  every run or request they wait for has a deadline of its own.
- RouterProbe: the probe's steps; llama.cpp returns from a decode.
- CudaTransfer, ExpertIsland: the host's steps and the device's, each by itself:
  a device executes what was enqueued without the host's help.
- MeasurementRun: both threads run. The acquisition of `sampling_lock` has no
  timeout and the monitor may take the lock again at once, so the main thread's
  acquisition is strongly fair: the lock is not withheld from a waiter for ever.
- StreamDeadline: the caller and the timer run; a read of a socket that was shut
  down returns. A server may trickle for ever: reading from an open socket is
  not fair.
- TraceCollection: the user resumes as long as the collection is incomplete, and
  probes end; the number of faults is bounded (`MaxFaults`), so the completion is
  that of a user who keeps resuming after the faults have stopped.

## 6. Proofs

Everything is proved for every value of the constants under the named
assumptions of the modules (`OwnedServerAssumption`, `EvidenceStoreAssumption`,
`StockProductAssumption`, `StockSearchAssumption`, `ExperimentsAssumption`,
`ComponentsAssumption`). They type the constants, keep the placeholders None and
Partial apart from the values that they stand in for (None is no exit code of a
probe, no host, no report, no verdict), and say that the thread candidates of a job differ;
TLC evaluates each of them.

None of the properties is inductive. Below, what each invariant adds and why.

**OwnedServerProofs**: TypeCorrect, ReadyCorrect, NoRunawayCorrect,
ReceiptCorrect, StopReportCorrect (for Windows) and CustodyCorrect, for any
number of launchers, processes, pids, ports and commands - in particular for two
launchers that race for a port, which the runs leave out. `IInv` adds: processes
in the process table have distinct pids (PidsDistinct); what a launcher, a file
or a command names was born (NamesAreBorn); a server has one launcher, and what
was polled as exited is dead (Parenthood); from the ownership check on, a live
child is the listener of its port (PortHeld); on Windows a child that runs is in
an open kill-on-close job, or being killed (JobCustody); the handle a command
acts on is its target (HandleIsTarget); a Windows command that reports STOPPED
saw its target dead (StoppedIsDead). The lemma ProcessesAge - a process only
moves forward from unborn to reaped and keeps its pid - is cited by the step
lemmas of the conjuncts; each conjunct has a lemma of its own. CustodyCorrect is
an action property that follows from the invariant.

**EvidenceStoreProofs**: TypeCorrect; RowsCorrect (with PendingIsNew: what a
transaction is about to commit is not in the table, as it holds the write lock);
CacheCorrect (with CacheIsPast and StatIsPast: a remembered stamp is earlier than
the file's, or is the file's and the file holds the declared model);
LedgerImplemented: GoalIsBacked says that the rows of a plan that is being sealed
and are verified already are in the ledger, with the plan's candidate; since rows
are never removed, verification one by one gives `Sealable` of the ledger at the
moment of sealing, and every other step maps to an append or a stutter;
SealedCorrect and ForkCorrect, from `SealInv`: the chain of comparisons that a
verification follows is linked, each row naming the next (ChainIsLinked), so that
when its last row is accepted every row of it is compared with one that stays in
the table (AcceptedIsCompared, ComparedStays), and a plan keeps the evidence it
counted (BackedPlansStay, EvidenceCounts).

**ExperimentsProofs**: of the stock experiments, AcceptedCorrect,
PublicationCorrect, ChallengerCorrect and ConsumerCorrect, and StockCorrect, which
has them in the composition MCExperiments (there a tuning job may change the host
too, StockMoves). `Inv` follows the frozen protocol: from freezing on, rows were
made on the host that was frozen as far as the guard had looked at it, the counts
of slow and fast runs are those of the rows, the decision is the function of the
counts that the code computes, and what is published carries the decision that
was made; the challenger is the first of the best screened (BestIsAhead, by
LeastNatural); a consumer that measured used the hashes it had loaded.
TypesCorrect has the type invariant of the composition, from `TypesInv`: a
position is inside its block (PlacesAreTyped), and no challenger has won more
screening runs than the blocks that are behind it (BlocksAreCounted), which needs
that no challenger is listed twice, as `screening_schedule` refuses.

Of the other programs of MCExperiments, ProfilesCorrect, JournalCorrect,
PacedCorrect, SelectedCorrect and ReportCorrect. StoreInv
says where a replaced profile went (ReplacedIsBackedUp) and that no setup holds a
draft it did not prove (DraftsAreProven). JobInv relates clock, deadline, journal
and launches, and says that a journal left unreadable is that of an attempt which
launched nothing. ResultInv collects the shape of a job: the candidates searched so far
and what each received, the pairs and the order of their roles, the files that
can exist at a step, and that no file is written before its contents are
complete. BenchInv says which step of a benchmark has taken place when a later
one runs, or when an exception unwinds from it (StepsAreTaken), and that a filed
report is the result that was held (FiledIsKept).

**CommandProofs**: the inductive invariants of four modules. RunInv: where the
monitor thread can be while the main one is at a step, which of them holds the
lock, and that a sample is of the phase it was taken in. StreamInv: a body that
is complete was complete before the timer set `expired`. InstallInv: a `.part`
file is a damaged or genuine beginning of what was sent (PrefixIsPartial,
PartialGrows), the archive is renamed only when whole, the staging directory
comes from a verified archive. PlanInv: the best of the candidates measured so
far is at least as fast as the earlier ones (StrongestIsBest, by LeastNatural,
which is well-foundedness of the naturals, and OneMoreIsBounded), pairs and
repetitions are counted as they are measured, a plan on disk is the one that the
explanation beside it describes or the one whose writing was cut off.

**CollectionProofs**: CollectInv of TraceCollection. HistoriesAreTyped,
OneIsUnrecorded (a conversation has at most one directory that the manifest does
not know, and it is the last), FilesAreOfThisCall (what the current attempt holds
was written by its own probes, unless somebody else wrote there), CountsAreSoFar
(the three counters are the numbers of the conversations dealt with, which
SummaryIsTrue needs when the call finishes). HistoryStep proves that the manifest
only grows.

**StudyProofs**: the inductive invariants of the two studies, for any numbers of
runs, blocks and cases, any number of host changes, and budgets that expire at
any step. What they need beyond the properties is that a journal, which is all a
property looks at, cannot disagree with the program counter.

- StudyInv, of the repeatability study. All attempts are measured except the last,
  while it is made or after it ended the study (AttemptsAreMeasured): this is why
  nothing is retried. The rows of the running phase are its attempts
  (RowsAreCounted), so that a phase is complete exactly when its counter says so.
  The phases follow one order (`Rank`), each with a gate that stays true once it
  was passed (GateStays, by finite cardinality: attempts of finished phases are
  not added to), and a phase that froze the host did so before its first attempt
  (PhasesWereOpened). PassIsComplete is a conjunct, and holds when the final
  status is written because the audit that the study makes of itself accepts PASS
  only if every block passed on the registered host (AcceptedIsComplete).
- CoverInv, of the wider study. The k-th attempt of a case belongs to the phase
  that the number k determines, and is valid unless it is the last (Placed), so
  that how many runs a phase has follows from the length of the journal alone
  (PhaseIsMeasured, by FS_Interval). A case that let another start was stopped at
  one of four lengths by the verdict that allows that length (Settled,
  SettledIsConcluded); verdicts stand before the attempts that need them (Backed)
  and a status says how far its case came (StatusesAreEarned). Later cases are
  untouched (CasesAreInOrder), which needs that `can_continue` looks at the
  reconstructed result and not at the status alone (Continues).

- AuditInv, for the audit of the wider study. Of a case that runs, it says what its
  files hold at each step (FilesFollow); of a case that is over, at which of six
  places it stopped and what its report, its pairs and its journal then hold
  (CaseIsSound: in the search, at its verdict, before the pairs, in them, at their
  verdict, after the publication). That a case of each shape is reconstructed is
  SoundCaseVerifies; it rests on the phases being intervals of the journal
  (PhasesArePicked), which is why `Of' picks the attempts of a phase by counting
  positions and not with SelectSeq, of which only induction could tell. A case that
  was left is told as its files tell it (Told) and stays so, one that was not opened
  is untouched, and EndIsTold names the five ways in which a sequence ends (an
  undisturbed one in IDENTITY-STOP only at a block that lacks its statistics), from
  which the answers of `validate_sequence` follow. It assumes that None is neither
  an outcome nor a report (CoverageStudyAssumption).

The steps of both are proved one action at a time; a frame lemma says which parts
of a case's record a step on another case leaves alone.

**DeviceProofs**: ProbeInv of RouterProbe, for any prompt, generation, layers and
routes. Where `main` is fixes the token it is at and the forwards it finished
(PlacesFollow); the number of rows observed is that of the finished forwards and
of the layers of the running one, and as long as nothing was refused the lines
written stand for them one for one: a line's row, by division and remainder with
the depth, tells its forward and its layer (DivisionOfRow, RowOfLine, LinesGrow).
The event buffers are as long as the forwards to come need, which `main` computes
before it generates (RoomIsLeft). The identities given to the predictor rise
whether or not anything was refused.

IslandInv of ExpertIsland, for any layers, weights, experts and limits. From the
reservation on the table has a shadow for every tensor of the island, and one only
(TableIsWhole), so that no later graph can need more of them than there are; what
the table calls loaded was executed, or is in the queue before anything that uses
it (LoadsAreMarked); the layers of a graph come one after the other, so that the
experts read last are those of the layer or of an earlier one (LayersFollow); and
every multiplication in the queue will find its operands when it is executed
(Finds, OperandsCome): what lies before it in the queue either brings them or does
not touch them (FindsShifts). The model gives the tensors of a graph as the
sequence that is sorted by layer and weight; that there is one follows by the
smallest number for which there would be none (OrderExists), and that the runs
of consecutive experts cover what the router chose from the ends of the run an
expert is in (RunsCover).

TransferInv of CudaTransfer, for any number of copies in a batch, of batches and
of warm-up copies. It has two halves. The first is about the commands alone
(CallsHold, from `CudaTransferAssumption`): every round of every measurement is
WellFormed - its copies have the buffers that the setup allocated, every stream
is settled when it ends, no event is recorded twice in it, the clock is read
before the copies on the default stream, and where a sample is taken the copies
sent since its beginning are as many as it is divided by - and what a method
releases is what it allocated, a pageable host buffer after the device's
(ReleasesAreSound). The commands of a round are known by their positions
(IsTimed, IsQueue, IsReady and their Layout lemmas; a burst alternates copies and
markers, hence Halves), and the copies among the first k by counting
(CopiesAreSent, CopiesAreCounted). The second half is the device, for any
well-formed rounds: a stream that the commands so far have settled is empty
(StreamsSettle), every copy sent was executed or is queued, and none of another
round (CopiesAreOfRounds), the copies executed when the host read its clock are
those of earlier rounds and of the commands before it (ClockIsRead), an event
that was reached was stamped with exactly the copies sent before it, and one
still queued will be (StampsFollow), and queued copies have their buffers, which
a release waits for (BuffersAreHeld).

CacheInv of CacheSimulation, for any experts, capacity, events, budget and share
of the transfers. Beside the types, with every expert in the cache once, and
CacheIsRecent it says that the cache is in the order of use: an expert in it
stands before every expert that is fresher (UsesAreOrdered). What one
demand does to the order is a relation between the caches before and after
(Follows), which a hit and a load keep (MoveFollows, LoadFollows); the load
because the first expert that is not to be kept is the oldest that may go. That
the loops of a policy have a value at every iteration and keep what each
iteration keeps follows from the smallest iteration for which they would not
(FoldExists, FoldKeeps). The candidates of a step are a sequence because no two
of them have the same number of others ahead, and all these numbers are taken
(RanksDiffer, RanksAreTaken). The residents have at least as many hits as any
other set of that size (ResidentsAreAhead): the others' hits are mapped to theirs
one to one, through the experts that the two sets do not share. SparesDemand is
a step property: a transfer never makes room with what the step wants.

**ComponentsProofs**: RunCorrect, ResultCorrect, InstallCorrect, PlanCorrect,
AttemptsCorrect, StudyCorrect, SequenceAuditCorrect, ProbeCorrect, TransfersCorrect (the island and the
transfers), CacheCorrect, and the action properties RecordsStay, SparingCorrect
and NoRetryCorrect, of the composition MCComponents. A step of the composition is a step of the component or
leaves its variables alone (RunMoves, StreamMoves, ...), so that the invariants
above are those of the composition.

Only model-checked:

- all liveness (SessionEnds, CallsEnd, MeasurementsEnd, ComponentsEnd), which is
  beyond the prover;
- the two conjuncts of AuditIsExact about the repeatability study (QuietStopsAreAudited
  and LabelsAreBinding); those about the wider study are proved;
- the type invariant of the composition MCComponents. The parts of it that the
  proofs above need stand in the invariants of the components.

## 7. Not modelled, and why

Command lines, report texts, schemas, hardware queries and GGUF decoding are
pure input and output. Predictors, expert layout, placement and quality reports
are arithmetic on floats over recorded tables, without a state that outlives a
call; they, the command lines and a second copy of an earlier release under
`docs/research/release/` are more than half of the repository's code, which is
why the map covers a seventh of its lines although the parts with state are
modelled. Of `ggml-backend.cpp` only what the island touches is this project's;
the rest is upstream code. `aggregate_cuda_transfer_trials` averages finished
reports; `live_cache_config.cpp` parses settings for a patched llama.cpp whose
cache is not part of the repository.

Two collectors, two compilations or two installers of one directory at once:
the code takes no lock and promises nothing for them. (Two setups of one profile
are modelled: they share a file by design.)

## 8. Plan

Modelled first, because everything rests on them: owned servers, evidence,
decisions and publication. Next, in this order; components with small instances
join MCComponents, whose run then asks one more conjunct of the existing
properties.

1. `execute_thread_pairs` and the AA protocol of refinement.py; `support_summary`
   and `verify_selected_profile` beside `verify_job`; the death of the process in
   the two studies.
2. Pure algorithms against reference definitions: `PassManager.resolve`,
   StaticPlacementPass, `select_measurement_batch`, `topology_anchors` and
   `scheduling_space`, capacity curves, replay, and the deadline oracle.
3. Artifact fetching; selection
   locks and live shadows of the predictors; stock eligibility and references;
   pipelined copies and the split profile of the patched scheduler.
4. Proofs: the type invariant of MCComponents; the audit of the repeatability
   study, by the argument of AuditInv.

## 9. Running

    tlc -workers 2 -config OwnedServer.cfg OwnedServer
    tlapm OwnedServerProofs.tla

`PROJECT.json` pairs each cfg with its module.
