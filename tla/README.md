# A verification project for uni_rl

uni_rl trains robot policies with one collector process that steps simulated
environments and one learner process that owns the accelerator.  Everything that is
hard about it is in how those two meet: shared memory without locks, semaphores, CUDA
events, two threads and several streams in the learner, and shutdown from either side.
Around the pair are a supervisor with one such learner per device, a startup that takes
memory in a fixed order, and checkpoints a later process resumes from.  This directory
models that in TLA+, model-checks it with TLC and proves the central results with TLAPS.

Paths below are relative to `src/src/uni_rl/`.

## Inventory

| component | state it keeps | operations | hard because |
|---|---|---|---|
| replay ingress, `ipc/replay_buffer.py` | Depth shared slots, start and count of each, published pointer, publish/release sequences, high-water mark, closed flag, two semaphores, one completion record | `add_batch`, `take_published_ingress`, `commit_ingress`, `import_ingress_publication`, `close`, `ingress_diagnostics` | two processes, values stored one at a time, a kill between any two, tokens handed out by `close` |
| GPU-resident pipeline, `ipc/replay_pipelines/gpu_resident.py` | device ring, spans in flight, submitted and visible pointers, hot/cold batch slots, prepare state, metadata, error | daemon loop, `read_committed_fields`, `start_prepare`, `batch_ready`, `sample_large_batch`, `progress`, `close` | two threads, one lock, one condition, some accesses under neither, an asynchronous stream |
| completion receipts, `ipc/completion.py` | an event per publication | record, wait, import | ordering between devices and processes |
| learner loop, `offpolicy/double_buffer_runner.py`, `offpolicy/runner.py` | ticks served, frozen replay boundary, prefetch target, queues of length one | serve, release, decide, prefetch, sample, update, finalize, fail | the boundary must be reachable without another tick |
| collector, `offpolicy/worker.py` | current tick, phase | observe, request, wait, act, step, `add_batch`, exit | stop, orphaning, stall detection |
| coordination, `offpolicy/coordination.py`, `offpolicy/shutdown_diagnostics.py`, `ipc/async_runner.py`, `ipc/collector_error.py`, `ipc/parent_watchdog.py` | phase and progress words, stop event, error record, first failure | mark, stop, join, terminate, kill | who failed first, orderly or not |
| inference ring, `ipc/inference_ring.py` | observation and action slots, three semaphores, tick and header arrays, events | publish/copy observation, publish/consume action, close | slot reuse across processes and streams |
| APPO, `ipc/tensor_rollout_ring_buffer.py`, `ipc/weight_sync.py`, `algos/appo/*` | rollout slots and counters, versioned weights | write, read, lap, publish weights | lock-free ring, torn reads |
| data-parallel synchronisation, `ipc/dp_sync.py`, the update steps of `algos/*/learner.py` | the call a rank is blocked in, replicas, schema of the statistics, local and global statistics | broadcast, gradient all-reduce, changed flag, schema exchange, packed sums | only the order of its own calls tells a rank which collective it is in; one rank's data must not decide |
| data-parallel launcher, `ipc/dp_launcher.py` | children, their groups and exit codes, watchdog, pending signals | spawn, poll, signal, wait, terminate, report | who is left and who failed, with signals between any two steps |
| learners, `algos/sac/learner.py`, `algos/flash_sac/learner.py` | parameters, optimizers, schedules, one captured graph and its rate tensors | dry run, capture, replay, eager fallback, checkpoint | five paths that must train alike |
| runner lifecycle, `offpolicy/double_buffer_runner.py`, `offpolicy/runner.py` | resources in closing order, checkpoints | guards, construction, loop, save, resume, close | failure between two constructors or in a write |
| budgets, `memory_budget.py`, `offpolicy/thread_budget.py` | | estimates, guards, automatic thread counts | an estimate apart from the allocation it is for |
| metrics, `offpolicy/tensor_metrics.py`, `offpolicy/worker.py`, `logging/metrics_drain.py` | device window, refused reports, bounded queue with its feeder thread | update, flush, publish, refuse, drain | a full queue, the last window of a collector that stops |
| transfer backends, networks, logging, manifests, configuration | tensors, files | | numerics, output and validation; not protocol |

How they interact: the collector publishes an observation (inference ring or host
array) and a tick on the request queue; the learner answers with an action and a tick
on the response queue; the collector steps its environments and calls `add_batch`,
which blocks on the bounded ingress; the learner's sync daemon takes the published
slots, copies them on a side stream into the device ring, commits and releases them,
and gathers batches out of the ring; the learner loop asks for batches, trains, and
finally stops the collector before it closes the pipeline and the buffer.  Metrics go from
the collector to the learner through a queue of their own.  With several devices rank 0
spawns the other ranks, every rank runs the same pair, and the learners meet in
collectives at each optimizer step and at each report.

What makes each part correct: the ingress is an ordered log with at most Depth chunks
outstanding and no slot shared by writer and reader; the device ring equals that log;
the batch the kernels read is the one asked for and sees exactly the committed rows;
the loop neither refuses itself nor waits for ever; a failure of either side ends the
other; ranks meet in the same collectives and stay replicas; nothing and nobody
outlives the run; every path of an update trains as the plain loop does; no episode is
lost on its way to the summary.  `PROJECT.json` lists the hazards line by line.

## Modules

| module | models | with |
|---|---|---|
| `ReplayLog` | abstract: chunks published and committed in order, at most Depth outstanding | |
| `ReplayIngress` | ingress, span submission and drain, committed reads, close | composes the collector's `add_batch`, the sync daemon, the learner thread, the side stream and shutdown; implements `ReplayLog` |
| `ReplayIngressProofs` | theorems about `ReplayIngress` | TLAPS |
| `IngressReceipts` | the completion record of CUDA ingress | refines the question `ReplayIngress` leaves out: when the device has finished a slot |
| `ReplayPrepare` | prepare protocol, update loop, lock-step collector | abstracts `ReplayIngress` to three pointers |
| `ReplayPrepareProofs` | theorems about `ReplayPrepare` | TLAPS |
| `InferenceRing` | the observation/action exchange: semaphores, headers, counters, events, two streams | |
| `InferenceRingProofs` | theorems about `InferenceRing` | TLAPS |
| `LockStep` | both processes' loops around the exchange, every failure and the shutdown | abstracts `InferenceRing`, `ReplayPrepare` and `ReplayIngress` to counters |
| `LockStepProofs` | theorems about `LockStep` | TLAPS |
| `RolloutRing` | APPO: the ring the collector laps, both loops, the staging pool | |
| `Appo` | the weights that go the other way | composes `RolloutRing` with `SharedWeightSync`; implements `RolloutRing` |
| `AppoProofs` | theorems about `RolloutRing` and `Appo`, and that the second implements the first | TLAPS |
| `DpSync` | the learners of a data-parallel run and their collectives | |
| `DpSupervisor` | the processes: spawning, watchdog, signals, teardown | composes `DpSync` |
| `DpProofs` | theorems about both | TLAPS |
| `RankTopology` | devices, CPUs, seeds and threads of a rank | pure functions |
| `MCDp` | the instance of `DpSupervisor` for TLC; evaluates `RankTopology` in its assumptions | |
| `UpdateCycle` | the whole-cycle update of the SAC and FlashSAC learners and what it replaces | |
| `MemoryBudget` | estimates and guards beside the allocations | pure functions |
| `Startup` | `learn` and `close` of the off-policy runner, with resumes | composes `UpdateCycle` and `MemoryBudget` |
| `MCStartup` | the dimensions `Startup` is checked with | |
| `StartupProofs` | theorems about `RankTopology`, `MemoryBudget` and `Startup` | TLAPS |
| `CollectorMetrics` | episodes from the device window to the final summary | composes collector, feeder thread and learner |
| `CollectorProofs` | theorems about `CollectorMetrics` and, as an instance, `IngressReceipts` | TLAPS |

### ReplayIngress

A row is its position in the stream of rows produced, so the device ring is right when
row `r` sits at `r % Capacity`.  Every store to shared memory that another process can
observe on its own is an action: start, count and published pointer together (nobody
reads start and count before the token), publish sequence and high-water mark, the
ready token, the release sequence with the committed pointer, the free token.  The
collector's program counter `cpc` follows `_add_to_ingress`; `tpc` follows the two
threads; `lock` is `_submission_lock`.  `DeviceCopy` completes spans in submission
order, which is what one stream does.  A collector may be killed between any two steps
and the daemon may raise while it holds a taken token (`Faults`); after
`ReplayBuffer.close` the learner's slots are gone, so a daemon that still runs raises
too.  `join(timeout=2.0)` may return with the daemon running.  Only the diagnostics
counters, the trace and the row payload are left out.

### IngressReceipts

With CUDA slots the host publishes a chunk before the device has written it.  The one
shared completion record is cleared, stored and versioned in separate steps;
`_submit_new_spans` imports it and then takes a token.  A copy is recorded with the
event it waits for.

### ReplayPrepare

Rows are counted in collector vectors.  A section under the submission lock is one
step; everything the daemon does to prepare a batch is split where the code holds no
lock or another one: check spans, latch the request, look at the domain, gather, store
the metadata, store the state.  The learner's unlocked `_refresh_prepare_state` may
read before the daemon's second store and write after it.  `content` records for each
batch slot which tick was gathered there, how many vectors were visible when its
indices were drawn and how many had been submitted ahead of it on the stream.  Only
the order learner kernels / later gathers on the same slot is kept of the update.

### InferenceRing

The collector's `cpc` and the learner's `lpc` follow `try_publish_observation`,
`try_consume_action`, `try_copy_observation_to` and `publish_action`, one action per
semaphore operation or store the other process can see.  The collector may publish
ahead until the slots are used up, which is more than the lock-step loop does and all
the ring allows.  The hosts only enqueue: `collectorStream` and `learnerStream` hold
copies and clones with the event each waits for, `recorded` is what the host has
recorded, `fired` what the device has reached.  An event wait stands for the event's
latest record at the time of the call.  `raised` is the state behind any tick or header
check that fires.  Left out: epochs, which do not change within a run; policy versions,
stored and read beside the tick; `close`, which is in `LockStep`.

### LockStep

`cpc` is at a line of `_run_collector` and of the waits it calls, `lpc` at a line of
`_learn_impl`.  `_wait_for_inference_tick` is four steps, because stop event, queue,
phase and process are looked at one after the other while the learner shuts down.
`tick` and `nextTick` are the two sides' counters; the ring is reduced to how many
observations and answers it holds and whether it is closed, the replay to published,
takeable and visible vectors: `AddBatch` stores the published pointer, `ReleaseReady` hands
out the token, and a collector killed between them leaves rows nobody can take.  With
`rewardStats` the learner goes through `read_committed_fields` before it waits for a batch
(`ReadCommitted`, `StatsCommitted`): a poll without a timeout and without a look at the
collector, to which the `snapshot` of the published pointer is fixed.  A process may be killed or raise at every step (`Faults`), the join
may time out, the simulator may take for ever (`Boot`, `EnvStep`).  A killed learner's
collector ends by its watchdog: stop event, grace period, `os._exit`.  `FailCollectorDied`,
`HandleException`, `SetStop` ... `Close` are `_fail_collector_died`, the handlers around
the loop, `_shutdown_collector` and `AsyncRunner.close`, in the order of the code.

### RolloutRing

A rollout is its number, and a slot is an array of cells that say which rollout filled
them.  The cells are the groups of fields the collector stores at different moments:
observation, critic input, action and log-probability of a step, then reward, done and
truncated of the step; and the observation behind the last step.  `cpc` follows
`appo_collector_fn`, which never waits for the learner; `lpc` follows `APPORunner.learn`,
`wait_for_data`, `stage_tensor_views` and `close`.  `Clamped`, `Available` and
`AdvancedRead` are the ring's arithmetic, evaluated at the moments the code evaluates
it: once for the wait, once for `num_new`, and again for every slot.  A look at an empty
ring is followed by another look, by the end of the slice with its liveness check, or by
the end of the budget, which gives the iteration up.  `newest` and `trained` are history.

A cell is copied in one step.  A rollout overwritten in the middle of one field is torn
within the field as well; the properties are about whole rollouts and lose nothing by it.

### Appo

A parameter is the version of the weights it was written for.  `pulling` and `pushing`
say where the two sides are in `read_weights_into` and `write_weights`, parameter by
parameter, actor before critic.  The learner holds the lock of `SharedWeightSync`, but
the collector attaches without one (`algos/appo/worker.py:131`), so that the lock
excludes nobody and is not in the model; `ipc/weight_sync.py:38` asks for it to be passed
in.  The collector's first read is part of `AppoInit`: the learner writes nothing
before it has a rollout.  Each step of the ring appears once, alone or together with the
weights it changes, which is what `AppoImplementsRing` proves.

### DpSync

A rank's `pc` and `cursor` follow the learner loop and the steps of an update (`Update`);
`call` is the collective it is blocked in, with what the call says of itself: its kind, the
optimizer it belongs to, the length of its buffer or the source of its broadcast.  The
process group is external: a collective completes for all ranks at once when all have made
the same call, and a blocked rank may give up when a peer is gone, late or elsewhere
(`TimesOut`).  A loss and its gradients are finite or not, chosen per rank (`Backward`);
a network is the number of steps each optimizer applied.  `Gate` is where the decision to
step is made: SAC's compiled step with a sentinel in the exchange (`"sac"`), FlashSAC's
armed from its own loss (`"flash"`), or checks on the host (`"host"`), which every learner
uses that is not compiled on a CUDA or ROCm device: on CPU and MPS always, FlashSAC on CUDA
or ROCm without `use_compile` (the default on ROCm), SAC on ROCm likewise
(`flash_sac/learner.py:241-264`, `sac/learner.py:483-496`).  The statistics of a report are
the collector's step counter and one episode field that not every rank has yet, which is what
the schema exchange is for; they are aggregated in the logger and restored before the next
drain.  A process that leaves forgets what it had in memory (`Forget`).

With `Gate = "host"` a rank whose loss is not finite skips the exchange, and its peers wait
in another collective.  `CollectivesMatch` and `ReplicasStayEqual` are not claimed for that
gate, and runs and theorems leave it out: they are about compiled learners, which the launcher
does not require.

### DpSupervisor

`sup` follows `DpRankSupervisor.__enter__`, the training in its body and `__exit__`; the
watchdog is a thread of its own.  A signal waits in `signals` until its rank is outside a
collective and comes before anything else then, as Python's handlers do.  A child is a
process group: the rank and its collector (`groups`).  `HandleSignal` includes what the
handlers do before they raise, `Unwound` where the exception takes the main thread.  A
wait with a timeout may end at any time; `Interrupt` is the user's Ctrl-C.

### UpdateCycle and Startup

A tensor is what produced it: weights are the sequence of updates that moved them, each
with the step of the schedule whose rate it had; moments are how many gradients an
optimizer has absorbed.  So a dry run that leaves a trace, a rate tensor filled in the wrong
order or a graph replayed under another key is visible, and `Reference(n)` is the
plain loop.  `UpdateCycle` has the paths: warm-up at rate zero and restoration, capture, its
failure, replay, recapture when the reward normalizer gets its shape, eager updates of a DP
rank.  `batches` counts the copies of a learner batch the device holds memory for: a clone is
made before the one it replaces is let go.  `Startup` has the runner around them, in the order of the code: host and device
guards, each resource with the bytes it takes, the logger, the DP broadcast, preparation,
the collector, iterations, checkpoints, the two ways out and `close`.  It may raise or be
killed at each step and be started again from any file it left; `torch.save` interrupted
leaves half a file.  The two are one state machine because what `close` and a resume must undo is
the state `UpdateCycle` keeps.

### MemoryBudget and RankTopology

Both are pure functions.  `MemoryBudget` states each estimate the way the estimator sums it
and each allocation the way the constructor sizes it, so that their equality is a theorem
and not a definition.  In `RankTopology` a visibility mask is a sequence of opaque entries
and a CPU share a set of numbers; reading `/proc` and setting environment variables stay
outside.

### CollectorMetrics

An episode is its number, a report the episodes it is computed from.  `window`, `doneWindow`
and `reasons` are the three accumulators of `tensor_metrics.py` and `worker.py` that are
emptied at different moments; a step that raises in the update of the metrics has already
counted its reasons (`StepRaises`).  `pendingFlush` is what a refused report leaves.  The queue is
`multiprocessing.Queue`: a semaphore over what is put and not taken, a feeder thread's
buffer and a pipe.  A killed collector loses the buffer.  The learner drains where the code
does: on an empty poll, behind each served tick, and once behind the join, which drains
nothing itself.

## Runs

| run | expects | bounds | what it shows |
|---|---|---|---|
| `ReplayIngress` | pass | Depth 2, slots of 2 rows, ring of 4, vectors of 3 rows, 2 vectors, both faults | a vector is a full and a partial chunk, slots are reused, the ring wraps and one chunk crosses its end; safety, the refinement of `ReplayLog` and liveness |
| `IngressReceipts` | violation | Depth 2, 3 chunks | a copy does not wait for its own slot |
| `ReplayPrepare` | pass | Depth 2, ring of 3, 2 ticks per update, 3 updates, with and without statistics | both batch slots are used again, the ring wraps |
| `ReplayPrepareStats` | violation | Depth 2, ring of 2, 1 tick per update, 3 updates | a batch contains rows that are not committed |
| `InferenceRing` | pass | 2 slots, 5 ticks | each slot is used for a third tick; actions answer their own observation, counters are ordered, every request is answered |
| `LockStep` | pass | 2 ticks per update, 2 vectors to start, 2 updates, ingress of 2, all five faults, with and without reward statistics | an update before and after the first prefetch, an ingress that fills up, one failure at any step or several |
| `Appo` | pass | 2 slots, 1 step, pool of 2, 4 iterations, 4 rollouts, actor of 2 parameters and critic of 1, all faults | both slots and the pool are used twice, the learner is lapped before and during a copy; rollouts are whole unless lapped, staged once and in order, weights lag by two versions at most, `learn` ends |
| `RolloutRingOverwritten` | violation | 2 slots, 3 rollouts | the oldest slot of the reader's window is the one being written |
| `Dp` | pass | 2 ranks, 2 iterations of 2 updates after the warm-up, an actor update in every second update, one bad value, one exception or kill, one interrupt | ranks meet in the same collectives and stay replicas through any one failure, statistics are global, failures are reported, nothing survives, everything ends; the topology on hosts of up to six CPUs and 2 to 4 ranks |
| `DpFlash` | violation | 2 ranks, 1 iteration, one bad value | a loss that overflows on one rank splits FlashSAC's replicas |
| `Startup` | pass | SAC and FlashSAC, 3 updates per cycle, frequencies 2 and 2, 3 iterations, a save every second, five configurations, three amounts of device and two of host memory, 3 runs, 2 faults | all update paths train alike across resumes; an accepted configuration is not refused half way, and its resources and cloned batches fit while the clones are at most a fifth of what is taken; lifetimes nest |
| `CollectorMetrics` | pass | 2 environments, windows of 2 steps, reports over 3 episodes, queues of 1 and 2, pipe of 1, 7 ticks | reports are refused, taken up again and flushed behind the stop; a partial window at the end |

Bounds.  `MaxVectors`, `MaxChunks` and `MaxTicks` bound counters in guards (`AddBatch`,
`EnqueueSlotWrites`, `AcquireFreeSlot`); `MaxIterations` is the `max_iterations` of the
run, and with it the loops of `ReplayPrepare`, `LockStep`, `DpSync` and `Startup` end.  The other constants
are configuration.  Two slots are the smallest ring in which the collector writes one slot
while another is being copied; the third reuse of a slot repeats the second.  `MaxRollouts` bounds the
collector of `RolloutRing` in `StartRollout`; four rollouts through two slots let it lap
the learner by a whole ring and begin again, and the bound of `HeldLag`, which is
reached, needs three updates.  A ring of `ReplayIngress` holds 4 rows and a vector 3, so
that a chunk crosses its end; the runner asks for multiples of the vector, but
`ReplayBuffer` accepts any capacity from one slot up.

`MaxBad`, `MaxFaults` and `MaxSignals` bound the values, failures and interrupts of `Dp`
(`Backward`, `Raise`, `Kill`, `PopenFails`, `Interrupt`).  Two ranks are the least that can
disagree; the theorems hold for any number.  Two iterations behind
the warm-up are the least in which the schema changes on one rank only: in the first
report it is new to all.  An update with an actor step and one without are both in the cycle.  In `Startup` 3 updates
with frequency 2 give a cycle whose ends are both actor updates, so that a rate taken
from the wrong place differs; `FreeBytes` and `ShmBytes` lie on both sides of what the
configurations need, and in one of them a batch is three times its ring, so that it is accepted
with 327 bytes free and has taken 334 after the first clone; three iterations with a save every second end with a checkpoint the
loop has not written.  `MaxRuns` bounds `Restart`, `MaxFaults` `Raise` and `Killed`.
`MaxTicks` of `CollectorMetrics` is the length of the run; seven ticks are three whole
windows and a partial one, so that a report can be refused twice before the last flush.
`QueueSizes` are 1 and 2 where the code has 100: the manifest occupies one.

In the run of `IngressReceipts` the system stops when all chunks are published, the violation
runs `ReplayPrepareStats` and `RolloutRingOverwritten` look for one state, and `Startup` ends
when its last run is closed or killed: these carry `CHECK_DEADLOCK FALSE`.  In every other run
a state without a successor is an error; their modules name the states in which the system
may rest (`Finished`, `Ended`, `Closed`, `AllEnded`).  In `DpSupervisor` a blocked rank may
also wait (`Waits`); that it does not wait for ever is `EverythingEnds`.

### The four disagreements

*Receipts.*  `_submit_new_spans` imports the newest receipt and then takes a token
(`gpu_resident.py:349-350`).  A collector that publishes in between has its chunk taken
with the previous receipt, and the side stream's copy is not ordered behind the slot's
writes.  The buffer documents the receipt as guarding the newest published slot
(`replay_buffer.py:256`).  Theorem `ReceiptLag` says how far it can go: a copy waits for
the event of the chunk before its own at least.

*Reward statistics.*  `_service_pending_prepare` returns when a span is in flight, but
it looks under the lock and gathers later without it (`gpu_resident.py:486-488`).  With
a reward normalizer the learner thread submits spans in `read_committed_fields`; the
gather then runs behind a copy that is not committed, and once the ring has wrapped
that copy has overwritten rows of the sample domain, which the module's consistency
note excludes (`gpu_resident.py:8-16`).  `GatherSeesCommitted` shows the note holds
for learners without reward statistics.

*The slot being written.*  The ring lets the reader fall `num_slots` rollouts behind
(`tensor_rollout_ring_buffer.py:109`), but then the oldest of them is in slot
`write_ptr % num_slots`, which `write_buffer` hands to the collector for the next
rollout.  The tests of both rings read it back whole
(`tests/ipc/test_tensor_rollout_ring_buffer.py:110-112`; `test_rollout_ring_buffer.py:90`
calls it the oldest slot not overwritten), and stop before the collector begins the next.  A
learner that is slower than its collector is in this state for as long as it is, and
trains on rollouts of which some steps are from the next.  `IntactUnlessLapped` shows
that the last `num_slots - 1` rollouts are safe.

*FlashSAC's finite gate.*  `_arm_optimizer_finite_gate` takes `found_inf` from the rank's own
loss (`flash_sac/learner.py:564`, and `sonic/flashsac.py:448`).  A loss may overflow on one rank
while its gradients stay finite, as `tests/algos/test_sac_compile.py:367-368` says of SAC;
that rank skips a step which the others apply, and nothing brings the replicas together
again, against `dp_sync.py:12-13`.  SAC sends the validity of the loss along with the
gradients, and `ReplicasStayEqual` proves that this is enough.

### Observations without a run

Noted while modelling; nothing in the repository says otherwise, or no model here reaches
them.

- `_wait_for_inference_request` and `_wait_for_replay_batch_ready` find a dead collector and
  record `collector_died`; the handler around the loop (`double_buffer_runner.py:2378`)
  overwrites it with `learner_failure`.
- `start_prepare` can clear an error the daemon has just stored (`gpu_resident.py:715`);
  the learner then polls for a batch nobody prepares, while the collector lives
  (`double_buffer_runner.py:1349`).
- `last_obs` and `last_critic` of APPO's rollouts are never written (`algos/appo/worker.py:338`)
  and keep the zeros of shared memory, with which V(s_T) is computed.
- With reward normalization FlashSAC's graph of the preparation is captured again at the
  first update, because the normalizer gets its shape there; the docstring at
  `flash_sac/learner.py:406` has collection begin with the graph to be used.
- `_ensure_update_cycle_graph` clones a third learner batch (`sac/learner.py:1338-1340`,
  `flash_sac/learner.py:1102-1104`) and, when a graph is captured again, another one before it
  lets the first go.  No estimate counts it, though `memory_budget.py:242` promises to
  "Conservatively pre-flight all startup CUDA tensor-runtime allocations".  It has to come out of
  the tenth the estimates add for overhead, at least 32 MiB each, and of the fifth the limit
  leaves.  Where the tenth decides, that is too little for one clone once a learner batch has
  more than about one and a half times the rows of the ring: the preflight accepts the
  configuration and the preparation exceeds what was free.
  `PreflightCovers` is about clones of at most a fifth of what is taken; without this
  condition it is false of the run's fifth configuration.
- With reward statistics the learner can be left polling for ever behind a killed collector.
  `add_batch` stores `published_ptr` (`replay_buffer.py:599`) before it releases the ready token
  (`:606`); a collector killed in between leaves rows that are published and cannot be taken,
  and `read_committed_fields`, called before each update (`double_buffer_runner.py:1921`), polls
  for exactly these rows with no timeout and no look at the process (`gpu_resident.py:618-621`),
  against `README.md:116`: "Coordination failures use learner phase/progress and process
  liveness".  The wait for an inference request, in the same loop, is built to avoid this.  In
  `LockStep` the state is `Stranded`.  In a data-parallel run the other ranks then wait in
  their next collective until the process group gives them up, and the hung rank is left to
  the teardown; `LockStep` has one rank, and `DpSupervisor` no such hang.
- A pipeline constructor that fails behind `register_host_slots` leaves the slots registered.
- A process killed in `torch.save` leaves a torn checkpoint, possibly in place of a whole
  one; a resume refuses it (`Torn`).
- The last `mean_reward` of a data-parallel run is the rank's own last report
  (`double_buffer_runner.py:2322`), not the aggregate shown before.
- "The bounded queue still preserves every message" (`double_buffer_runner.py:673-678`) does
  not hold for a collector that is terminated or whose last report finds the queue full for
  five seconds; `SummaryIsComplete` exempts both.
- Automatic thread counts are per process and take the whole host for each rank.
- The collector of rank r has the seed of the learner of rank r+1 (different generators).

## Fairness

Processes and threads that are neither killed nor failed keep taking steps, and a
stream executes what it was given (weak fairness per party).  A thread waiting for the
submission lock gets it eventually (strong fairness): the daemon sleeps between loops,
so the lock is free again and again.  Nothing forces the collector to produce, the
learner to read, stop or close, or a fault to happen.

In `InferenceRing` publishing and consuming are fair separately: the collector alternates
between them, and publishing ahead is bounded by the slots.  In `LockStep` the
collector, the watchdog thread, the learner and the sync daemon are fair as long as
they live; `Boot` and `EnvStep` are not, because environment construction and the
simulator are outside the program.  `CollectorEnds` holds nevertheless, by `terminate`
or by the watchdog; SIGTERM ends a collector because it installs no handler.
`LearnerEnds` needs no answer from anybody, because each wait of the learner but one looks at
the process.  The one is the poll of `read_committed_fields`, where the learner can be left for
ever behind a killed collector (`Stranded`, see the observations below); `LearnerEnds` exempts
exactly this state, which only exists with reward statistics.

In `Appo` the learner is fair, and strongly fair for the ends of a slice and of the
budget, which are timeouts: a look at an empty ring cannot be repeated for ever.  The
collector is not fair at all, because simulator steps are outside the program;
`AppoEnds` says that the learner does not need it.

In `DpSupervisor` a completed collective returns, the supervisor's thread, its watchdog and
every rank's process go on while they live, and a call that cannot complete is given up by
the process group, which is created with a timeout (`dp_sync.py`, `timeout_s`).  Nothing
forces a failure or an interrupt.  `EverythingEnds` covers ranks blocked behind a dead peer,
collectors without a rank, and a supervisor interrupted in its own teardown.

`Startup` and `CollectorMetrics` state no fairness: their questions are what has been lost or left
open when an end is reached; that ends are reached is in `LockStep`.

## Proofs

Every safety and action property a passing run checks is proved for all values of the
constants that satisfy the modules' assumptions.
None of these properties but the smallest is inductive; what follows says which invariant
each rests on.

**`ReplayIngressProofs`.**  Six layers, each inductive relative to the ones before.

1. `TypeInv`: `TypeOK`, which thread holds the lock at which step (`LockInv`), and when
   a token is held (`TakenInv`).
2. `TokenInv`: free slots, chunks being written, chunks published, taken, submitted and
   in release, plus the tokens `close` has handed out, add up to at most the depth
   until `closed` is set.  After that the sum may exceed it, but no producer gets past
   the second look at `closed`.  `HighWaterBounded` is not inductive by itself: the
   mark is computed from a publish sequence and a release sequence read at different
   moments, and it is the conservation law that bounds it.
3. `SeqInv`: taken, submitted and committed chunks carry consecutive sequence numbers
   between `releaseSeq` and `publishSeq`, and a slot is its sequence number modulo the
   depth.  `SlotExclusion` follows from 2 and 3: two sequence numbers less than Depth
   apart have different remainders (`SlotsDiffer`).
4. `LogInv` and `PipelineInv`: each outstanding chunk begins where the one before ends
   (`Position`), the spans in flight are the outstanding chunks in order, and while no
   thread has failed nothing is taken that is not submitted next.  Then neither order check can
   raise (`ChecksNeverFire`), and the state maps to `ReplayLog`: the chunk sequence of the
   abstract log is the sequence of counts from `releaseSeq` to `publishSeq` (`Pending`).
   `IngressImplementsLog` shows that publication appends to it, a commit takes its head,
   and every other step leaves it.
5. `ContentInv`: the slot of every outstanding chunk holds the finished rows it stands
   for, and what the collector is writing is as far as its step says.  `RingHolds` carries
   that to the device: a copy moves the end of the ring by one chunk, whose rows are less
   than Capacity apart and so go to different places (`RemainderUnique`).
6. `CloseInv`: unless the collector was killed, what is published is taken, signalled or
   about to be signalled.  Behind a collector that has ended and without a failed thread, a
   submission that finds no signal leaves nothing queued, and a drain behind the stream's
   synchronization leaves nothing in flight.

**`ReplayPrepareProofs`.**  One invariant, `IInv`, for every depth, capacity, number of
iterations and of steps between updates, with reward statistics and without: the served
ticks and the one in flight (`TicksServed`), a boundary the collector cannot move
(`BoundaryFrozen`), one outstanding request that is of the tick the learner's step implies
(`RequestInTurn`), the daemon's job at each of its steps (`JobStage`), a gather or a prepared
batch exactly while its request is outstanding (`GatherOfRequest`), and kernels that have the
hot slot (`KernelsOfUpdate`).  `NeverRefused`, `PrefetchIsFresh`, `GatherSeesCommitted` and the
action property `KernelsReadTheirBatch` follow from it.  The products of ticks and steps are
terms of a table `Due`, because the provers reason about sums only.

**`InferenceRingProofs`.**  `TicksOrdered`, `NeverRaises` and `TypeOK` rest on three laws: a
slot is free, held by the collector around an exchange, or in the exchange
(`SlotsConserved`); a token of either semaphore is backed by a tick between two counters
(`TokensBacked`); the learner answers the tick it observed last (`AnswersInTurn`).  `Headers`
then says what every slot of a tick in the exchange contains; it is preserved because a slot
is rewritten for tick t only when tick t - Capacity has been consumed, and ticks closer than
that use different slots (`SlotsApart`, `SlotReused`).  For `ActionAnswersObservation`,
`DeviceInv` adds the device: each side's queue is the tail of the operations it has enqueued,
in the order of its ticks; the record of an event in a slot is the latest one made for that
slot; an operation that waits for an event runs behind the operation the record stands for
(`ExecutionOrder`); and so the contents of slots, staging and actions are of the ticks in
between (`Contents`).

**`AppoProofs`.**  Of `RolloutRing`: the order of the two pointers and of `newest` and
`trained` at each step of the learner (`PointerInv`, `StagedInv`), and what the slots
contain: the last NumSlots - 1 published rollouts are whole, and so is the part of the
current one that is written (`SlotInv`).  Rollouts less than NumSlots apart are in different
slots.  `ReadsPublished` needs `PointerInv`, because `num_new` stays valid only as long as the
window moves forward.  `AppoImplementsRing` is `AppoSpec => Spec`, with the identity for a
mapping, so these theorems are about APPO.  Of the weights: the two lags follow from one
quantity, the versions the learner can still finish before the collector publishes again
(`Coming`).  It is at most two, since a learner drains the ring before each update and needs
a rollout it has not trained on, and every version finished takes one of it away; `LagInv`
bounds what a read in progress has kept, what the collector holds, and what the rollouts
began with, by the version plus what is to come.

**`LockStepProofs`.**  `TypeOK`, `OneTickInFlight`, `NoSpuriousCollectorError` and
`QuiescedBeforeClose` for any number of steps and iterations and any set of faults.  Three
invariants, each inductive relative to the ones before: the types; where a tick may be
while each side is where it is, and that published vectors are ahead of the takeable ones
only between the two steps of an `add_batch` (`TickInv`), from which a retry cannot repeat a
request; and what has happened by the time a flag is raised (`OrderInv`): the stop event is set before the
phase says so, and the learner passes the join only without a collector.

**`DpProofs`.**  For any number of ranks, iterations, updates and frequencies, any
failures and any interrupts: ranks match (`RanksMatch` for the learners by themselves,
`RunMatches` under the supervisor), SAC's replicas stay equal, loggers show the run, nothing
survives and no failure is swallowed.  The theorems about collectives assume `Gate # "host"`,
`ReplicasStayEqual` assumes `Gate = "sac"` (for FlashSAC it is false, see `DpFlash`).  A
collective ends for all ranks at once, so between two collectives the ranks differ only by
steps that need none: target updates and the ends of iterations.  `SyncInv` says for every two
live ranks that one leads the other by such steps only (`Leads`), and that what the next call
depends on - schema, fields, source - is the same.  `AgreeInv` compares the networks two ranks
will have once the one behind has caught up (`AppliedNext`, `FiniteNext`), because at
different places they do differ.  `LoggersInv` says what a rank's logger shows between the
snapshot and the reduction, its own counter and last report; the sums then agree because the
functions summed do, without an induction over the ranks.  `ExitInv` follows the teardown:
which children have been polled, told, waited for and killed at each place of `__exit__`, and
that exit code 0 is not set before every child's is known.

**`StartupProofs`.**  Of pure functions, without bounds: collectors of different ranks share
no CPU, no collector is left without one, spawned ranks see different devices, the ring
estimates are the allocations, and what the preflight accepts is accepted by the pipeline's
own guard and takes at most four fifths of the device, so that batches cloned beside it fit as
long as they are at most a fifth of all that is taken (`PreflightIsEnough`, from
`BudgetAssumption` alone).  Of `Startup`: `MemoryInv` follows what has been taken at each
constructor and with each clone, so that `PreflightIsEnough` applies at every step; `ListInv` says that what is open is
registered, with the pipeline at the head, and `PhaseInv` what can be open at which place.
`CountInv` and `FilesInv` keep iterations, updates and checkpoint files in step, and `GraphInv`
says that a captured graph was captured with the LR tensors prepared last, which a replay
fills.

`EveryPathTrainsAlike` is `TrainingFollowsReference` for cycles of any length, any two
frequencies, either order of critic and actor, and any number of runs and faults.  The machine
part is short.  `LearnerInv` says that wherever iterations and updates agree, and behind the
updates of a cycle until its metrics are read, `training` is the plain loop's;
`CapturedInv` that a captured graph is a graph of the whole cycle; `SavedInv` that a readable
`model_n` holds what n cycles of the plain loop make.  They are inductive together with
`CountInv`, `FilesInv` and `GraphInv`.  TLC found no violation of the six on the instance of
run `Startup` (but for `IsSequence(tensors)`, which it cannot enumerate); the run itself lists
the properties only.
The step that replays rests on `ReplayTrainsAsTheLoop`, whose hypotheses are what these
invariants say of the graph and of its LR tensors.  It compares three orders of doing things:
a launch that reads rates by place in the graph, rates staged by number within the cycle, and a
schedule that runs on from cycle to cycle.  All three are related to `After(all, m)`, the learner
after the first m updates of one long sequence, in which the rate of an update is its number
among those of its optimizer.  That schedulers then advance by the right number of steps is
`CycleMatchesItsRates`: the learner divides and rounds up, the cycle has places, and the two
agree for every length and frequency.

These are inductions over the length of a cycle and over the number of cycles.  The induction
theorems of the library take an operator as parameter and cannot be used, but `WFMin`, that
a nonempty set has a minimal element, does not: `SetInduction` and `UpTo` are derived from it
for a property given as the set of the numbers that have it.  A fold is defined by CHOOSE of a
function over the sets of places; `FoldTableExists` builds that function, and
`FlatteningExists` does the same for `FlattenSeq`.  `Occurrences` counts the places that have an
operation as a cardinality, because the facts the library has are about finite sets.

**`CollectorProofs`.**  `WindowInv`: accepted reports, the window of refused ones and the
device window are consecutive intervals of the episodes in the order they ended, and the
report to be sent is over the last History of the accepted.  `QueueInv`: the newest report
that says anything is with the learner or in one of the two queues with only silent
messages behind it.  `EndInv`: what an orderly end has flushed and drained.  For the
receipts, `RecordInv` relates the record's handle and version to the step the collector
is at and to the tokens, and `SeenInv` says that a thread that looks at the version before it
takes a token knows at least the version of its last token (`ReceiptLag`).  The
receipts come through an INSTANCE, with their collector's place renamed to `publishing`,
because both modules have a `cpc`.

Model-checked only: liveness, which is out of the prover's reach (`BlockedAddReturns`,
`PublishedIsCommitted`, `ReadCommittedReturns`, `UpdatesFinish`, `RequestAnswered`,
`LearnerEnds`, `CollectorEnds`, `AppoEnds`, `EverythingEnds`), and the violations of the four
runs that expect one.

## Not modelled, and why

The single-threaded MPS mode, in which the learner thread does all of the daemon's
work; the 15 s progress timeout and the 30 s coordination timeouts (they end the run);
the progress counter, which only tells a stalled queue from a slow one by the clock;
Ctrl-C, which differs from another exception in the learner by its classification; the
daemon's own failure inside `ReplayPrepare`; torn reads of the completion handle;
values of tensors, networks and losses, the SONIC variant and APPO's losses; logging, run
manifests, validation of configurations and file formats; device transfers beyond their
order.  The NumPy rollout ring, which only tests use.  The rendezvous of the process group
through its file store and the torchrun launcher, which are calls into PyTorch; reading
limits, CPU topology and masks from the operating system.  What is left is numerical code,
formatting, or elapsed time, and has no interleaving or failure a model of this kind would
tell apart.

## Plan

Done: replay, inference, lock-step and APPO; data parallelism with its supervisor; startup,
update paths and budgets; metrics; topology; and the proofs of their safety properties.
Left, most important first:

1. The daemon's own failure inside `ReplayPrepare`, with the error that `start_prepare` may clear.
2. The MPS mode of the pipeline, where the learner thread does the daemon's work.
3. `CollectorMetrics` for several windows in the learner's logger.

Runs take from seconds to about two and a half minutes; a module gets one passing run with all its
properties, and another one only for another question.
