---------------------------- MODULE ReplayPrepare ----------------------------
(***************************************************************************)
(* Batches for the learner: the double-buffered gather of                  *)
(* ipc/replay_pipelines/gpu_resident.py, driven by the update loop of      *)
(* offpolicy/double_buffer_runner.py and the lock-step collector.          *)
(*                                                                         *)
(* While the learner's kernels read the hot slot, the sync daemon gathers  *)
(* the next batch into the cold one, once the replay holds the transitions *)
(* up to a boundary frozen when the last inference response was released.  *)
(* The daemon and the learner share _prepare_state and the prepared        *)
(* metadata under a condition; the learner reads both without it.          *)
(*                                                                         *)
(* Rows are counted in collector vectors (num_envs rows), so that one tick *)
(* publishes one.  Slots, tokens and the drain are in ReplayIngress: here  *)
(* a section under the submission lock is one step.                        *)
(***************************************************************************)
EXTENDS Integers, Sequences

CONSTANTS
  Depth,          \* vectors the ingress holds
  Capacity,       \* vectors the device ring holds
  StepsPerSync,   \* env_steps_per_sync
  Threshold,      \* vectors required before the first update
  MaxIterations,  \* max_iterations
  StatsModes      \* which learners are explored: with a reward normalizer or without

ASSUME PrepareAssumption ==
  /\ Depth \in Nat \ {0} /\ Capacity \in Nat \ {0}
  /\ StepsPerSync \in Nat \ {0} /\ MaxIterations \in Nat \ {0}
  /\ Threshold \in 1..Capacity
  /\ StatsModes \subseteq BOOLEAN

VARIABLES
  \* collector and the queues between it and the learner
  cpc, published, request, response,
  \* the learner thread
  lpc, stats, iteration, sinceUpdate, boundary, preparedTick, snapshot,
  \* the pipeline
  submitted,      \* _submitted_ptr
  visible,        \* _visible_ptr, ReplayBuffer.ptr
  prepareState, prepareTick, requiredPtr,
  prepared,       \* _prepared_metadata
  hot,            \* _hot; the other slot is _cold
  \* the daemon
  dpc,
  latched,        \* locals of _service_pending_prepare
  condition,      \* who holds _prepare_condition between two steps
  \* the device
  stream,         \* side stream: copies and gathers, oldest first
  copied,         \* vectors copied
  content,        \* what each batch slot holds
  kernels         \* learner stream: the batches its pending kernels read, oldest first

collectorVars == <<cpc, published, request, response>>
learnerVars == <<lpc, stats, iteration, sinceUpdate, boundary, preparedTick, snapshot>>
prepareVars == <<prepareState, prepareTick, requiredPtr, prepared, hot>>
daemonVars == <<dpc, latched, condition>>
deviceVars == <<copied, content, kernels>>
vars == <<collectorVars, learnerVars, submitted, visible, prepareVars, daemonVars,
          stream, deviceVars>>

None == -1
NoBatch == [tick |-> None, slot |-> 0, visible |-> 0, upto |-> 0]
Batches == {0, 1}
cold == 1 - hot
Pending == submitted # visible
\* the event recorded after the last gather into a slot has fired
GatherDone(slot) ==
  \A i \in 1..Len(stream) : ~(stream[i].op = "gather" /\ stream[i].batch.slot = slot)

Init ==
  /\ cpc = "observe" /\ published = 0 /\ request = FALSE /\ response = FALSE
  /\ lpc = "wait" /\ stats \in StatsModes /\ iteration = 1 /\ sinceUpdate = 0
  /\ boundary = None /\ preparedTick = None /\ snapshot = 0
  /\ submitted = 0 /\ visible = 0
  /\ prepareState = "idle" /\ prepareTick = None /\ requiredPtr = 0
  /\ prepared = NoBatch /\ hot = 0
  /\ dpc = "drain" /\ latched = NoBatch /\ condition = "free"
  /\ stream = <<>> /\ copied = 0 /\ content = [s \in Batches |-> NoBatch]
  /\ kernels = <<>>
-----------------------------------------------------------------------------
(***************************************************************************)
(* The collector's cycle and the device.                                   *)
(***************************************************************************)
pipelineVars == <<submitted, prepareVars, daemonVars>>

RequestInference ==
  /\ cpc = "observe"
  /\ request' = TRUE /\ cpc' = "wait"
  /\ UNCHANGED <<published, response, learnerVars, visible, pipelineVars, stream, deviceVars>>

ReceiveAction ==
  /\ cpc = "wait" /\ response
  /\ response' = FALSE /\ cpc' = "add"
  /\ UNCHANGED <<published, request, learnerVars, visible, pipelineVars, stream, deviceVars>>

AddBatch ==
  /\ cpc = "add" /\ published - visible < Depth
  /\ published' = published + 1 /\ cpc' = "observe"
  /\ UNCHANGED <<request, response, learnerVars, visible, pipelineVars, stream, deviceVars>>

\* the side stream runs its oldest copy or gather
SideStream ==
  /\ stream # <<>>
  /\ stream' = Tail(stream)
  /\ LET head == Head(stream)
     IN  IF head.op = "copy"
         THEN copied' = head.batch.upto /\ UNCHANGED content
         ELSE content' = [content EXCEPT ![head.batch.slot] = head.batch]
              /\ UNCHANGED copied
  /\ UNCHANGED <<collectorVars, learnerVars, visible, pipelineVars, kernels>>

LearnerStream ==
  /\ kernels # <<>>
  /\ kernels' = Tail(kernels)
  /\ UNCHANGED <<collectorVars, learnerVars, visible, pipelineVars, stream, copied, content>>
-----------------------------------------------------------------------------
(***************************************************************************)
(* The sync daemon: drain, prepare, submit.                                *)
(***************************************************************************)
otherThanDaemon == <<collectorVars, learnerVars, deviceVars>>

DrainCompletedSpans ==
  /\ dpc = "drain"
  /\ visible' = copied
  /\ dpc' = "prepare"
  /\ UNCHANGED <<otherThanDaemon, submitted, prepareVars, latched, condition, stream>>

\* mutant: the check is missing
CheckNothing ==
  /\ dpc = "prepare"
  /\ dpc' = "latch"
  /\ UNCHANGED <<otherThanDaemon, submitted, visible, prepareVars, latched, condition, stream>>

\* under the submission lock: nothing to prepare while a copy is in flight
CheckSpans ==
  /\ dpc = "prepare"
  /\ dpc' = IF Pending THEN "submit" ELSE "latch"
  /\ UNCHANGED <<otherThanDaemon, submitted, visible, prepareVars, latched, condition, stream>>

\* under the condition
LatchPrepare ==
  /\ dpc = "latch" /\ condition = "free"
  /\ IF prepareState = "preparing"
     THEN /\ latched' = [NoBatch EXCEPT !.tick = prepareTick, !.slot = cold]
          /\ dpc' = "size"
     ELSE dpc' = "submit" /\ UNCHANGED latched
  /\ UNCHANGED <<otherThanDaemon, submitted, visible, prepareVars, condition, stream>>

\* under no lock
SampleDomain ==
  /\ dpc = "size"
  /\ IF visible < requiredPtr \/ visible = 0
     THEN dpc' = "submit" /\ UNCHANGED latched
     ELSE dpc' = "gather" /\ latched' = [latched EXCEPT !.visible = visible]
  /\ UNCHANGED <<otherThanDaemon, submitted, visible, prepareVars, condition, stream>>

\* a gather sees every vector submitted before it
GatherRows ==
  /\ dpc = "gather"
  /\ stream' = Append(stream, [op |-> "gather", batch |-> [latched EXCEPT !.upto = submitted]])
  /\ dpc' = "metadata"
  /\ UNCHANGED <<otherThanDaemon, submitted, visible, prepareVars, latched, condition>>

\* two assignments under the condition; the learner does not take it to read them
PublishMetadata ==
  /\ dpc = "metadata" /\ condition = "free"
  /\ prepared' = latched
  /\ condition' = "daemon" /\ dpc' = "state"
  /\ UNCHANGED <<otherThanDaemon, submitted, visible, prepareState, prepareTick,
                 requiredPtr, hot, latched, stream>>

PublishState ==
  /\ dpc = "state"
  /\ prepareState' = "gather_submitted"
  /\ condition' = "free" /\ dpc' = "submit"
  /\ UNCHANGED <<otherThanDaemon, submitted, visible, prepareTick, requiredPtr, prepared,
                 hot, latched, stream>>

\* _submit_new_spans, by either thread
SubmitNewSpans ==
  IF submitted = published THEN UNCHANGED <<submitted, stream>>
  ELSE /\ submitted' = published
       /\ stream' = Append(stream, [op |-> "copy", batch |-> [NoBatch EXCEPT !.upto = published]])

DaemonSubmits ==
  /\ dpc = "submit"
  /\ SubmitNewSpans
  /\ dpc' = "drain"
  /\ UNCHANGED <<otherThanDaemon, visible, prepareVars, latched, condition>>
-----------------------------------------------------------------------------
(***************************************************************************)
(* The learner's update loop.                                              *)
(***************************************************************************)
otherThanLearner == <<cpc, published, daemonVars, copied, content>>

\* the event query of _refresh_prepare_state
Refreshed ==
  IF prepared # NoBatch /\ GatherDone(prepared.slot) THEN "ready" ELSE prepareState

\* start_prepare: a refresh without the condition, which the daemon may overwrite, then
\* the section under it; "raised" when the call is refused
StartPrepare(tick, required, next) ==
  /\ condition = "free"
  /\ IF prepared = NoBatch /\ prepareState \in {"idle", "ready"}
     THEN /\ prepareTick' = tick /\ requiredPtr' = required
          /\ prepareState' = "preparing"
          /\ lpc' = next
     ELSE /\ lpc' = IF (IF prepared # NoBatch THEN prepared.tick ELSE prepareTick) = tick
                    THEN next ELSE "raised"
          /\ prepareState' \in {prepareState, Refreshed}
          /\ UNCHANGED <<prepareTick, requiredPtr>>
  /\ UNCHANGED <<prepared, hot>>

\* the boundary frozen with the release of a tick that makes an update due (the mutants
\* forget the transitions still to come, or count them twice)
FrozenBoundaryPast == published
FrozenBoundaryTwice == published + 2 * StepsPerSync
FrozenBoundary == published + StepsPerSync

\* serve the request, count the tick, freeze the boundary, answer
ServeInference ==
  /\ lpc = "wait" /\ request
  /\ request' = FALSE /\ response' = TRUE
  /\ sinceUpdate' = sinceUpdate + 1
  /\ boundary' = IF sinceUpdate + 1 >= StepsPerSync THEN FrozenBoundary ELSE boundary
  /\ lpc' = "progress"
  /\ UNCHANGED <<otherThanLearner, stats, iteration, preparedTick, snapshot, submitted,
                 visible, prepareVars, stream, kernels>>

\* progress(wait=True), which refreshes, and the decision to update
Progress ==
  /\ lpc = "progress" /\ ~Pending
  /\ IF visible >= Threshold /\ sinceUpdate >= StepsPerSync
     THEN IF preparedTick # iteration
          THEN StartPrepare(iteration, visible, "stats") /\ preparedTick' = iteration
          ELSE /\ lpc' = "stats" /\ prepareState' = Refreshed
               /\ UNCHANGED <<prepareTick, requiredPtr, prepared, hot, preparedTick>>
     ELSE /\ lpc' = "wait" /\ prepareState' = Refreshed
          /\ UNCHANGED <<prepareTick, requiredPtr, prepared, hot, preparedTick>>
  /\ UNCHANGED <<otherThanLearner, request, response, stats, iteration, sinceUpdate,
                 boundary, snapshot, submitted, visible, stream, kernels>>

\* update_reward_stats_from_replay: read_committed_fields when there is a normalizer
BeginRewardStats ==
  /\ lpc = "stats"
  /\ IF stats THEN lpc' = "read" /\ snapshot' = published
     ELSE lpc' = "batch" /\ UNCHANGED snapshot
  /\ UNCHANGED <<otherThanLearner, request, response, stats, iteration, sinceUpdate,
                 boundary, preparedTick, submitted, visible, prepareVars, stream, kernels>>

ReaderSubmits ==
  /\ lpc = "read" /\ submitted < snapshot
  /\ SubmitNewSpans
  /\ UNCHANGED <<otherThanLearner, request, response, learnerVars, visible, prepareVars,
                 kernels>>

ReadCommittedFields ==
  /\ lpc = "read" /\ submitted >= snapshot /\ copied = submitted
  /\ visible' = copied
  /\ lpc' = "batch"
  /\ UNCHANGED <<otherThanLearner, request, response, stats, iteration, sinceUpdate,
                 boundary, preparedTick, snapshot, submitted, prepareVars, stream, kernels>>

\* batch_ready: refresh without the condition, then compare
BatchReady ==
  /\ lpc \in {"batch", "poll"}
  /\ prepareState' = Refreshed
  /\ lpc' = IF prepared.tick = iteration /\ Refreshed = "ready" THEN "sample"
            ELSE IF lpc = "batch" THEN "ask" ELSE "poll"
  /\ UNCHANGED <<otherThanLearner, request, response, stats, iteration, sinceUpdate,
                 boundary, preparedTick, snapshot, submitted, visible, prepareTick,
                 requiredPtr, prepared, hot, stream, kernels>>

\* _wait_for_replay_batch_ready asks again before it polls
AskAgain ==
  /\ lpc = "ask"
  /\ StartPrepare(iteration, visible, "poll")
  /\ UNCHANGED <<otherThanLearner, request, response, stats, iteration, sinceUpdate,
                 boundary, preparedTick, snapshot, submitted, visible, stream, kernels>>

\* sample_large_batch: the swap under the condition, and the kernels that read the slot
\* (the mutant leaves the consumed metadata behind)
SampleKeepsMetadata ==
  /\ lpc = "sample" /\ condition = "free" /\ prepared.slot = cold
  /\ hot' = cold
  /\ prepareTick' = None /\ prepareState' = "idle"
  /\ kernels' = Append(kernels, prepared)
  /\ lpc' = "prefetch"
  /\ UNCHANGED <<otherThanLearner, request, response, stats, iteration, sinceUpdate,
                 boundary, preparedTick, snapshot, submitted, visible, requiredPtr,
                 prepared, stream>>

SampleLargeBatch ==
  /\ lpc = "sample" /\ condition = "free"
  /\ IF prepared.slot # cold THEN lpc' = "raised" /\ UNCHANGED <<prepareVars, kernels>>
     ELSE /\ hot' = cold
          /\ prepared' = NoBatch /\ prepareTick' = None /\ prepareState' = "idle"
          /\ kernels' = Append(kernels, prepared)
          /\ lpc' = "prefetch"
          /\ UNCHANGED requiredPtr
  /\ UNCHANGED <<otherThanLearner, request, response, stats, iteration, sinceUpdate,
                 boundary, preparedTick, snapshot, submitted, visible, stream>>

\* range(start_iteration, max_iterations + 1)
MoreIterations == iteration < MaxIterations

\* the next batch is asked for before this one is used
Prefetch ==
  /\ lpc = "prefetch"
  /\ IF MoreIterations
     THEN IF boundary = None THEN lpc' = "raised" /\ UNCHANGED <<prepareVars, preparedTick>>
          ELSE /\ StartPrepare(iteration + 1, boundary, "update")
               /\ preparedTick' = iteration + 1
     ELSE lpc' = "update" /\ UNCHANGED <<prepareVars, preparedTick>>
  /\ UNCHANGED <<otherThanLearner, request, response, stats, iteration, sinceUpdate,
                 boundary, snapshot, submitted, visible, stream, kernels>>

\* the iteration ends when the learner stream has drained (the mutant does not wait)
StreamIgnored == TRUE
StreamSynchronized == kernels = <<>>

FinishUpdate ==
  /\ lpc = "update" /\ StreamSynchronized
  /\ sinceUpdate' = 0 /\ boundary' = None
  /\ iteration' = iteration + 1
  /\ lpc' = IF MoreIterations THEN "wait" ELSE "done"
  /\ UNCHANGED <<otherThanLearner, request, response, stats, preparedTick, snapshot,
                 submitted, visible, prepareVars, stream, kernels>>

Collector == RequestInference \/ ReceiveAction \/ AddBatch
Daemon ==
  \/ DrainCompletedSpans \/ CheckSpans \/ LatchPrepare \/ SampleDomain \/ GatherRows
  \/ PublishMetadata \/ PublishState \/ DaemonSubmits
Learner ==
  \/ ServeInference \/ Progress \/ BeginRewardStats \/ ReaderSubmits
  \/ ReadCommittedFields \/ BatchReady \/ AskAgain \/ SampleLargeBatch \/ Prefetch
  \/ FinishUpdate

\* the loop is over; the collector waits for the shutdown
Finished == lpc = "done" /\ UNCHANGED vars

Next == Collector \/ Daemon \/ Learner \/ SideStream \/ LearnerStream \/ Finished

Spec == Init /\ [][Next]_vars

\* Every thread keeps running and both streams execute what they were given.
Fairness ==
  /\ WF_vars(Collector) /\ WF_vars(Daemon) /\ WF_vars(Learner)
  /\ WF_vars(SideStream) /\ WF_vars(LearnerStream)

FairSpec == Spec /\ Fairness
-----------------------------------------------------------------------------
\* The update loop is never refused a batch: no start_prepare meets an unconsumed one,
\* no prepared batch sits in the hot slot, no boundary is lost, whatever the two threads
\* interleave around _prepare_state (start_prepare, sample_large_batch, _learn_impl).
NeverRefused == lpc # "raised"

\* Kernels of an iteration read that iteration's batch: no later gather has reached
\* their slot when they run (hot/cold swap, the stream synchronization of _learn_impl).
KernelsReadTheirBatch ==
  [][Len(kernels') < Len(kernels) =>
       content[Head(kernels).slot].tick = Head(kernels).tick]_vars

\* A prefetched batch sees the vectors of all ticks but the one in flight: training is
\* never fed from a replay that lags an update behind (_release_inference_tick).
PrefetchIsFresh ==
  \A slot \in Batches :
    content[slot].tick > 1 => content[slot].visible >= content[slot].tick * StepsPerSync - 1

\* The gather of a learner without reward statistics never meets a row whose copy is
\* not committed (_service_pending_prepare's check under the submission lock).
GatherSeesCommitted ==
  ~stats => \A slot \in Batches :
    content[slot].upto > content[slot].visible => content[slot].upto <= Capacity

\* The sample domain holds committed rows only, for every learner: "the sample domain is
\* [0, min(device_visible_ptr, capacity))" (gpu_resident.py's consistency model).
BatchIsCommitted ==
  \A slot \in Batches :
    content[slot].upto > content[slot].visible => content[slot].upto <= Capacity

\* Every run of the update loop finishes: the frozen boundary is always reached without
\* another inference tick (_release_inference_tick, _wait_for_replay_batch_ready).
UpdatesFinish == <>(lpc = "done")
=============================================================================
