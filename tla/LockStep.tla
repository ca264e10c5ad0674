------------------------------ MODULE LockStep ------------------------------
(***************************************************************************)
(* The lock-step protocol between the off-policy collector process         *)
(* (offpolicy/worker.py) and the learner (offpolicy/double_buffer_runner.py*)
(* on ipc/async_runner.py): two queues of length one, a phase word, a stop *)
(* event, an inference ring that either side may close, the collector's    *)
(* parent watchdog, and what every side does when the other one dies,      *)
(* raises or finishes.                                                     *)
(*                                                                         *)
(* Ticks and collector vectors are counted one by one; the ring's slots    *)
(* are in InferenceRing, the batches in ReplayPrepare, the ingress in      *)
(* ReplayIngress.                                                          *)
(***************************************************************************)
EXTENDS Integers, Sequences

CONSTANTS
  StepsPerSync,   \* env_steps_per_sync
  Threshold,      \* vectors required before the first update
  MaxIterations,  \* max_iterations
  Depth,          \* vectors the ingress holds
  Faults          \* what may go wrong, of the set below

ASSUME LockStepAssumption ==
  /\ StepsPerSync \in Nat \ {0} /\ MaxIterations \in Nat \ {0} /\ Depth \in Nat \ {0}
  /\ Threshold \in Nat
  /\ Faults \subseteq {"collector killed", "collector raises", "learner killed",
                       "learner raises", "join times out"}

VARIABLES
  request, response,  \* the queues, maxsize 1
  observed, answered, \* ticks the ring holds an observation, an action of
  ringClosed, stop, phase,
  \* vectors in the ingress, those whose ready token was released, those in the device ring
  published, takeable, visible,
  pipelineClosed, bufferClosed,
  \* the collector process
  process,   \* "unborn", "alive", "exited", "crashed" or "killed"
  cpc, tick, phaseSeen,
  cerror,    \* what it raised
  watchdog,
  \* the learner process
  lpc, ready, nextTick, sinceUpdate, iteration, boundary, required,
  rewardStats, \* whether it keeps a reward normalizer (FlashSAC may), fixed for a run
  snapshot,  \* what read_committed_fields waits for
  failure,        \* the exception that ended learn()
  classification, \* of the shutdown diagnostics
  status          \* of the run's summary

queues == <<request, response>>
ring == <<observed, answered, ringClosed>>
replay == <<published, takeable, visible, pipelineClosed, bufferClosed>>
collectorVars == <<process, cpc, tick, phaseSeen, cerror, watchdog>>
loopVars == <<ready, nextTick, sinceUpdate, iteration, boundary, required>>
statsVars == <<rewardStats, snapshot>>
outcome == <<failure, classification, status>>
learnerVars == <<lpc, loopVars, statsVars, outcome>>
vars == <<queues, ring, stop, phase, replay, collectorVars, learnerVars>>

READY == -1
None == -1
Alive == process = "alive"
Dead == process \in {"exited", "crashed", "killed"}
LearnerGone == lpc \in {"exited", "killed"}

Init ==
  /\ request = <<>> /\ response = <<>>
  /\ observed = 0 /\ answered = 0 /\ ringClosed = FALSE
  /\ stop = FALSE /\ phase = "STOPPED"
  /\ published = 0 /\ takeable = 0 /\ visible = 0
  /\ pipelineClosed = FALSE /\ bufferClosed = FALSE
  /\ process = "unborn" /\ cpc = "boot" /\ tick = 0 /\ phaseSeen = "STOPPED"
  /\ cerror = "none" /\ watchdog = "watching"
  /\ lpc = "startup" /\ ready = FALSE /\ nextTick = 0 /\ sinceUpdate = 0
  /\ iteration = 1 /\ boundary = None /\ required = None
  /\ rewardStats \in BOOLEAN /\ snapshot = None
  /\ failure = "none" /\ classification = "unknown_failure" /\ status = "none"
-----------------------------------------------------------------------------
(***************************************************************************)
(* The collector: _run_collector inside _collector_entry_wrapper.          *)
(***************************************************************************)
CollectorAt(at) == Alive /\ cpc = at
Go(to) == cpc' = to /\ UNCHANGED <<process, tick, phaseSeen, cerror, watchdog>>
\* an exception inside the loop runs the worker's finally clause
RaiseIn(error) ==
  /\ cerror' = error /\ cpc' = "finally"
  /\ UNCHANGED <<process, tick, phaseSeen, watchdog>>
others == <<phase, learnerVars>>

\* environment construction may take for ever
Boot ==
  /\ CollectorAt("boot") /\ Go("ready")
  /\ UNCHANGED <<queues, ring, stop, replay, others>>

PublishCollectorReady ==
  /\ CollectorAt("ready")
  /\ IF stop THEN /\ process' = "exited"
                  /\ UNCHANGED <<request, cpc, tick, phaseSeen, cerror, watchdog>>
             ELSE request = <<>> /\ request' = <<READY>> /\ Go("loop")
  /\ UNCHANGED <<response, ring, stop, replay, others>>

PublishObservation ==
  /\ CollectorAt("loop")
  /\ CASE stop -> Go("finally") /\ UNCHANGED observed
       [] ~stop /\ ringClosed -> RaiseIn("ring closed") /\ UNCHANGED observed
       [] OTHER -> observed' = tick + 1 /\ Go("request")
  /\ UNCHANGED <<queues, answered, ringClosed, stop, replay, others>>

PublishInferenceTick ==
  /\ CollectorAt("request")
  /\ IF stop THEN Go("finally") /\ UNCHANGED request
     ELSE request = <<>> /\ request' = <<tick>> /\ Go("wait")
  /\ UNCHANGED <<response, ring, stop, replay, others>>

\* _wait_for_inference_tick: the stop event, then the queue ...
TakeResponse ==
  /\ CollectorAt("wait")
  /\ CASE stop -> Go("finally") /\ UNCHANGED response
       [] ~stop /\ response = <<>> -> Go("empty") /\ UNCHANGED response
       [] OTHER -> /\ response' = <<>>
                   /\ IF Head(response) = tick THEN Go("consume") ELSE RaiseIn("tick mismatch")
  /\ UNCHANGED <<request, ring, stop, replay, others>>

\* ... the stop event again, the learner's phase, its process ...
QueueEmpty ==
  /\ CollectorAt("empty")
  /\ IF stop THEN Go("finally") ELSE Go("snapshot")
  /\ UNCHANGED <<queues, ring, stop, replay, others>>

SnapshotLearner ==
  /\ CollectorAt("snapshot")
  /\ phaseSeen' = phase /\ cpc' = "judge"
  /\ UNCHANGED <<process, tick, cerror, watchdog, queues, ring, stop, replay, others>>

\* (a killed learner nobody has reaped is still observed)
LearnerDied ==
  /\ CollectorAt("judge") /\ LearnerGone
  /\ RaiseIn("learner died")
  /\ UNCHANGED <<queues, ring, stop, replay, others>>

\* ... and a stopped learner must have set the stop event (the first mutant does not
\* look again, the second asks anew after every timeout)
JudgeWithoutStop ==
  /\ CollectorAt("judge")
  /\ IF phaseSeen # "STOPPED" THEN Go("wait") ELSE RaiseIn("learner stopped")
  /\ UNCHANGED <<queues, ring, stop, replay, others>>

JudgeAsksAgain ==
  /\ CollectorAt("judge")
  /\ CASE phaseSeen # "STOPPED" -> Go("request")
       [] phaseSeen = "STOPPED" /\ stop -> Go("finally")
       [] OTHER -> RaiseIn("learner stopped")
  /\ UNCHANGED <<queues, ring, stop, replay, others>>

JudgePhase ==
  /\ CollectorAt("judge")
  /\ CASE phaseSeen # "STOPPED" -> Go("wait")
       [] phaseSeen = "STOPPED" /\ stop -> Go("finally")
       [] OTHER -> RaiseIn("learner stopped")
  /\ UNCHANGED <<queues, ring, stop, replay, others>>

ConsumeAction ==
  /\ CollectorAt("consume")
  /\ IF ringClosed THEN RaiseIn("ring closed") ELSE answered > tick /\ Go("step")
  /\ UNCHANGED <<queues, ring, stop, replay, others>>

\* the simulator may take for ever
EnvStep ==
  /\ CollectorAt("step")
  /\ tick' = tick + 1 /\ cpc' = "add"
  /\ UNCHANGED <<process, phaseSeen, cerror, watchdog, queues, ring, stop, replay, others>>

\* add_batch: published_ptr and publish_seq ...
AddBatch ==
  /\ CollectorAt("add") /\ ~bufferClosed /\ published - visible < Depth
  /\ published' = published + 1 /\ Go("token")
  /\ UNCHANGED <<queues, ring, stop, takeable, visible, pipelineClosed, bufferClosed, others>>

\* ... and its ready token, without which nobody takes what was published
ReleaseReady ==
  /\ CollectorAt("token")
  /\ takeable' = takeable + 1 /\ Go("loop")
  /\ UNCHANGED <<queues, ring, stop, published, visible, pipelineClosed, bufferClosed, others>>

AddRejected ==
  /\ CollectorAt("add")
  /\ bufferClosed \/ (stop /\ published - visible = Depth)
  /\ IF stop THEN Go("finally") ELSE RaiseIn("ingress closed")
  /\ UNCHANGED <<queues, ring, stop, replay, others>>

Finally ==
  /\ CollectorAt("finally")
  /\ ringClosed' = TRUE
  /\ IF cerror = "none" THEN process' = "exited" /\ UNCHANGED cpc
     ELSE cpc' = "guard" /\ UNCHANGED process
  /\ UNCHANGED <<tick, phaseSeen, cerror, watchdog, queues, observed, answered, stop,
                 replay, others>>

\* collector_error_guard: the error record, the stop event, and on with the exception
ErrorGuard ==
  /\ CollectorAt("guard")
  /\ stop' = TRUE /\ process' = "crashed"
  /\ UNCHANGED <<cpc, tick, phaseSeen, cerror, watchdog, queues, ring, replay, others>>

CollectorRaises ==
  /\ "collector raises" \in Faults /\ Alive /\ cpc \notin {"finally", "guard"}
  /\ cerror' = "fault"
  /\ cpc' = IF cpc \in {"boot", "ready"} THEN "guard" ELSE "finally"
  /\ UNCHANGED <<process, tick, phaseSeen, watchdog, queues, ring, stop, replay, others>>

CollectorKilled ==
  /\ "collector killed" \in Faults /\ Alive
  /\ process' = "killed"
  /\ UNCHANGED <<cpc, tick, phaseSeen, cerror, watchdog, queues, ring, stop, replay, others>>

(***************************************************************************)
(* The watchdog thread: a stop request when the parent is gone, and the    *)
(* end of the process when the grace period is over.                       *)
(***************************************************************************)
WatchdogStops ==
  /\ Alive /\ watchdog = "watching" /\ LearnerGone
  /\ stop' = TRUE /\ watchdog' = "grace"
  /\ UNCHANGED <<process, cpc, tick, phaseSeen, cerror, queues, ring, replay, others>>

\* mutant: the graceful request is all there is
NoForcedExit == FALSE /\ UNCHANGED vars

WatchdogExits ==
  /\ Alive /\ watchdog = "grace"
  /\ process' = "killed" /\ watchdog' = "done"
  /\ UNCHANGED <<cpc, tick, phaseSeen, cerror, queues, ring, stop, replay, others>>
-----------------------------------------------------------------------------
(***************************************************************************)
(* The learner: _learn_impl.                                               *)
(***************************************************************************)
LearnerGo(from, to) == lpc = from /\ lpc' = to

MarkWaiting ==
  /\ LearnerGo("startup", "spawn")
  /\ phase' = "WAITING"
  /\ UNCHANGED <<loopVars, statsVars, outcome, queues, ring, stop, replay, collectorVars>>

StartCollector ==
  /\ LearnerGo("spawn", "enter")
  /\ process' = "alive"
  /\ UNCHANGED <<loopVars, statsVars, outcome, queues, ring, stop, phase, replay, cpc, tick,
                 phaseSeen, cerror, watchdog>>

\* an exception leaves the loop for the handler of every exception
LearnerRaise(error) == failure' = error /\ lpc' = "handle" /\ UNCHANGED <<classification, status>>

\* _fail_collector_died raises as well; its caller's handler is next
FailCollectorDied(error) ==
  /\ classification' = "collector_failure" /\ status' = "collector_died"
  /\ pipelineClosed' = TRUE
  /\ failure' = error
  /\ lpc' = IF error = "died in put" THEN "stop" ELSE "handle"

\* _wait_for_inference_request
EnterWait ==
  /\ LearnerGo("enter", "poll")
  /\ phase' = "WAITING"
  /\ UNCHANGED <<loopVars, statsVars, outcome, queues, ring, stop, replay, collectorVars>>

TakeRequest ==
  /\ lpc = "poll" /\ request # <<>>
  /\ request' = <<>>
  /\ phase' = "BUSY"
  /\ LET message == Head(request)
     IN  CASE message = READY /\ ~ready -> ready' = TRUE /\ UNCHANGED <<lpc, outcome>>
           [] message # READY /\ ready /\ message = nextTick ->
                lpc' = "serve" /\ UNCHANGED <<ready, outcome>>
           [] OTHER -> LearnerRaise("protocol") /\ UNCHANGED ready
  /\ UNCHANGED <<nextTick, sinceUpdate, iteration, boundary, required, statsVars, response,
                 ring, stop, replay, collectorVars>>

RequestEmpty ==
  /\ LearnerGo("poll", "idle") /\ request = <<>>
  /\ UNCHANGED <<loopVars, statsVars, outcome, queues, ring, stop, phase, replay,
                 collectorVars>>

\* mutant: polls without a look at the process
PollForever ==
  /\ LearnerGo("idle", "poll")
  /\ UNCHANGED <<loopVars, statsVars, outcome, queues, ring, stop, phase, replay,
                 collectorVars>>

CheckCollector ==
  /\ lpc = "idle"
  /\ IF Dead THEN FailCollectorDied("died")
     ELSE lpc' = "poll" /\ UNCHANGED <<outcome, pipelineClosed>>
  /\ UNCHANGED <<loopVars, statsVars, queues, ring, stop, phase, published, takeable, visible,
                 bufferClosed, collectorVars>>

\* _serve_learner_inference: copy_observation_to, publish_action
CopyObservation ==
  /\ lpc = "serve"
  /\ IF ringClosed THEN LearnerRaise("ring closed")
     ELSE observed > nextTick /\ lpc' = "answer" /\ UNCHANGED outcome
  /\ UNCHANGED <<loopVars, statsVars, queues, ring, stop, phase, replay, collectorVars>>

PublishAction ==
  /\ lpc = "answer"
  /\ IF ringClosed THEN LearnerRaise("ring closed") /\ UNCHANGED <<answered, nextTick, sinceUpdate>>
     ELSE /\ answered' = nextTick + 1
          /\ nextTick' = nextTick + 1 /\ sinceUpdate' = sinceUpdate + 1
          /\ lpc' = "release" /\ UNCHANGED outcome
  /\ UNCHANGED <<ready, iteration, boundary, required, statsVars, queues, observed, ringClosed,
                 stop, phase, replay, collectorVars>>

\* _release_inference_tick: the boundary, then _publish_inference_response, which waits for
\* a queue that is full unless the collector is dead
ReleaseInferenceTick ==
  /\ lpc = "release"
  /\ boundary' = IF sinceUpdate >= StepsPerSync THEN published + StepsPerSync ELSE boundary
  /\ IF response = <<>>
     THEN /\ response' = <<nextTick - 1>> /\ lpc' = "decide"
          /\ UNCHANGED <<outcome, pipelineClosed>>
     ELSE /\ Dead /\ FailCollectorDied("died in put")
          /\ UNCHANGED response
  /\ UNCHANGED <<ready, nextTick, sinceUpdate, iteration, required, statsVars, request, ring,
                 stop, phase, published, takeable, visible, bufferClosed, collectorVars>>

Decide ==
  /\ lpc = "decide"
  /\ IF visible >= Threshold /\ sinceUpdate >= StepsPerSync
     THEN /\ lpc' = IF rewardStats THEN "stats" ELSE "batch"
          /\ required' = IF required = None THEN visible ELSE required
     ELSE lpc' = "enter" /\ UNCHANGED required
  /\ UNCHANGED <<ready, nextTick, sinceUpdate, iteration, boundary, statsVars, outcome, queues,
                 ring, stop, phase, replay, collectorVars>>

\* _update_reward_stats_from_replay, read_committed_fields: what is published now ...
ReadCommitted ==
  /\ LearnerGo("stats", "committing")
  /\ snapshot' = published
  /\ UNCHANGED <<loopVars, rewardStats, outcome, queues, ring, stop, phase, replay,
                 collectorVars>>

\* ... and sleep until it is submitted, with no timeout and no look at the collector (a
\* submission by the learner itself is a step of the daemon's)
StatsCommitted ==
  /\ LearnerGo("committing", "batch") /\ visible >= snapshot
  /\ snapshot' = None
  /\ UNCHANGED <<loopVars, rewardStats, outcome, queues, ring, stop, phase, replay,
                 collectorVars>>

\* _wait_for_replay_batch_ready
BatchReady ==
  /\ lpc = "batch"
  /\ lpc' = IF visible >= required THEN "update" ELSE "unready"
  /\ UNCHANGED <<loopVars, statsVars, outcome, queues, ring, stop, phase, replay,
                 collectorVars>>

BatchNotReady ==
  /\ lpc = "unready"
  /\ IF Dead THEN FailCollectorDied("died")
     ELSE lpc' = "batch" /\ UNCHANGED <<outcome, pipelineClosed>>
  /\ UNCHANGED <<loopVars, statsVars, queues, ring, stop, phase, published, takeable, visible,
                 bufferClosed, collectorVars>>

Update ==
  /\ lpc = "update"
  /\ sinceUpdate' = 0 /\ required' = boundary /\ boundary' = None
  /\ iteration' = iteration + 1
  /\ lpc' = IF iteration < MaxIterations THEN "enter" ELSE "stop"
  /\ UNCHANGED <<ready, nextTick, statsVars, outcome, queues, ring, stop, phase, replay,
                 collectorVars>>

\* "except BaseException" around the loop
HandleException ==
  /\ LearnerGo("handle", "stop")
  /\ classification' = "learner_failure" /\ status' = "failed"
  /\ UNCHANGED <<loopVars, statsVars, failure, queues, ring, stop, phase, replay,
                 collectorVars>>

\* _shutdown_collector: stop, STOPPED, join, terminate
SetStop ==
  /\ LearnerGo("stop", "stopped")
  /\ stop' = TRUE
  /\ UNCHANGED <<loopVars, statsVars, outcome, queues, ring, phase, replay, collectorVars>>

MarkStopped ==
  /\ LearnerGo("stopped", "join")
  /\ phase' = "STOPPED"
  /\ UNCHANGED <<loopVars, statsVars, outcome, queues, ring, stop, replay, collectorVars>>

AfterJoin == IF failure = "none" /\ status = "none" THEN "finalize" ELSE "close"

\* mutant: a join that timed out is taken for an end
JoinGivesUp ==
  /\ LearnerGo("join", AfterJoin)
  /\ UNCHANGED <<loopVars, statsVars, outcome, queues, ring, stop, phase, replay,
                 collectorVars>>

\* SIGTERM ends a Python process that installs no handler
Join ==
  /\ LearnerGo("join", AfterJoin)
  /\ IF Alive THEN "join times out" \in Faults /\ process' = "killed" ELSE UNCHANGED process
  /\ UNCHANGED <<loopVars, statsVars, outcome, queues, ring, stop, phase, replay, cpc, tick,
                 phaseSeen, cerror, watchdog>>

Finalize ==
  /\ LearnerGo("finalize", "close")
  /\ pipelineClosed' = TRUE
  /\ classification' = "normal_completion" /\ status' = "completed"
  /\ UNCHANGED <<loopVars, statsVars, failure, queues, ring, stop, phase, published, takeable,
                 visible, bufferClosed, collectorVars>>

\* AsyncRunner.close: the collector is dead by now; pipeline, buffer and ring
Close ==
  /\ LearnerGo("close", "exited")
  /\ pipelineClosed' = TRUE /\ bufferClosed' = TRUE /\ ringClosed' = TRUE
  /\ UNCHANGED <<loopVars, statsVars, outcome, queues, observed, answered, stop, phase,
                 published, takeable, visible, collectorVars>>

LearnerRaises ==
  /\ "learner raises" \in Faults
  /\ lpc \notin {"handle", "stop", "stopped", "join", "close", "exited", "killed"}
  /\ LearnerRaise("error")
  /\ UNCHANGED <<loopVars, statsVars, queues, ring, stop, phase, replay, collectorVars>>

LearnerKilled ==
  /\ "learner killed" \in Faults /\ ~LearnerGone
  /\ lpc' = "killed"
  /\ UNCHANGED <<loopVars, statsVars, outcome, queues, ring, stop, phase, replay,
                 collectorVars>>

\* the sync daemon commits what the collector published
Daemon ==
  /\ ~LearnerGone /\ ~pipelineClosed /\ visible < takeable
  /\ visible' = visible + 1
  /\ UNCHANGED <<learnerVars, queues, ring, stop, phase, published, takeable,
                 pipelineClosed, bufferClosed, collectorVars>>

Collector ==
  \/ PublishCollectorReady \/ PublishObservation \/ PublishInferenceTick
  \/ TakeResponse \/ QueueEmpty \/ SnapshotLearner \/ LearnerDied \/ JudgePhase \/ ConsumeAction
  \/ AddBatch \/ ReleaseReady \/ AddRejected \/ Finally \/ ErrorGuard
Watchdog == WatchdogStops \/ WatchdogExits
Learner ==
  \/ MarkWaiting \/ StartCollector \/ EnterWait \/ TakeRequest \/ RequestEmpty \/ CheckCollector
  \/ CopyObservation \/ PublishAction \/ ReleaseInferenceTick \/ Decide
  \/ ReadCommitted \/ StatsCommitted \/ BatchReady \/ BatchNotReady \/ Update
  \/ HandleException \/ SetStop \/ MarkStopped \/ Join \/ Finalize \/ Close

Ended == LearnerGone /\ ~Alive /\ UNCHANGED vars

Next ==
  \/ Boot \/ Collector \/ EnvStep \/ Watchdog \/ Learner \/ Daemon
  \/ CollectorRaises \/ CollectorKilled \/ LearnerRaises \/ LearnerKilled \/ Ended

Spec == Init /\ [][Next]_vars

\* Threads that are neither killed nor ended keep running; the simulator need neither start
\* nor return.
Fairness == WF_vars(Collector) /\ WF_vars(Watchdog) /\ WF_vars(Learner) /\ WF_vars(Daemon)

FairSpec == Spec /\ Fairness
-----------------------------------------------------------------------------
\* a queue of maxsize 1
Queue(Message) == {<<>>} \cup {<<m>> : m \in Message}

CounterTypes ==
  /\ request \in Queue(Nat \cup {READY}) /\ response \in Queue(Nat)
  /\ tick \in Nat /\ nextTick \in Nat /\ observed \in Nat /\ answered \in Nat
  /\ published \in Nat /\ takeable \in 0..published /\ visible \in 0..takeable
  /\ iteration \in 1..(MaxIterations + 1)
  /\ sinceUpdate \in Nat /\ boundary \in Nat \cup {None} /\ required \in Nat \cup {None}
  /\ snapshot \in Nat \cup {None}

PlaceTypes ==
  /\ rewardStats \in BOOLEAN /\ ready \in BOOLEAN /\ ringClosed \in BOOLEAN /\ stop \in BOOLEAN
  /\ phase \in {"STOPPED", "WAITING", "BUSY"} /\ phaseSeen \in {"STOPPED", "WAITING", "BUSY"}
  /\ process \in {"unborn", "alive", "exited", "crashed", "killed"}
  /\ cpc \in {"boot", "ready", "loop", "request", "wait", "empty", "snapshot", "judge",
              "consume", "step", "add", "token", "finally", "guard"}
  /\ lpc \in {"startup", "spawn", "enter", "poll", "idle", "serve", "answer", "release",
              "decide", "stats", "committing", "batch", "unready", "update", "handle", "stop",
              "stopped", "join", "finalize", "close", "exited", "killed"}

TypeOK == CounterTypes /\ PlaceTypes

\* One tick is in flight: the two sides' counters differ by the tick being served, a
\* message is always the one expected, and the response queue is free when a tick is
\* released, whatever either side was doing when the other died (_wait_for_inference_tick,
\* _wait_for_inference_request, _publish_inference_response).
OneTickInFlight ==
  /\ nextTick \in {tick, tick + 1}
  /\ request \notin {<<>>, <<READY>>} => request = <<nextTick>> /\ nextTick = tick
  /\ response # <<>> => response = <<tick>> /\ nextTick = tick + 1
  /\ lpc = "release" => response = <<>>
  /\ failure # "protocol"

\* A collector that meets no fault of its own raises only when the learner process has
\* been killed: a run that completes, fails or is closed lets it go in order
\* (_shutdown_collector's order, the second look at the stop event).
NoSpuriousCollectorError ==
  cerror \in {"none", "fault"} \/ (cerror = "learner died" /\ lpc = "killed")

\* The pipeline and the buffer are closed behind a collector that has ended: no chunk is
\* published into a pipeline that drains for the last time (_learn_impl's finalize,
\* _fail_collector_died, AsyncRunner.close).
QuiescedBeforeClose == pipelineClosed \/ bufferClosed => Dead \/ process = "unborn"

\* The wait for committed rows that nothing ends: the collector died between published_ptr
\* and the ready token, and the learner's reward statistics wait for the vector in between
\* (add_batch, read_committed_fields).
Stranded == Dead /\ lpc = "committing" /\ takeable < snapshot

\* The learner does not outlive its collector: every wait notices that it died, but for the
\* one of the reward statistics, which holds a learner for ever if the vector it waits for
\* has no token (_wait_for_inference_request, _publish_inference_response,
\* _wait_for_replay_batch_ready, read_committed_fields).
LearnerEnds == Dead ~> LearnerGone \/ Stranded

\* The collector does not outlive its learner, even inside a simulator step that does not
\* return (_watch_loop, _shutdown_collector).
CollectorEnds == LearnerGone ~> ~Alive
=============================================================================
