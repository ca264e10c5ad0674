-------------------------- MODULE CollectorMetrics --------------------------
(***************************************************************************)
(* The way of an episode from the step that finishes it to the summary of  *)
(* a run: the collector's device window of metrics (offpolicy/             *)
(* tensor_metrics.py), its publication into a bounded multiprocessing      *)
(* queue that may refuse it (offpolicy/worker.py), the learner's drains    *)
(* (logging/metrics_drain.py) and the last drain behind the shutdown       *)
(* (double_buffer_runner.py).                                              *)
(*                                                                         *)
(* An episode is its number in the order in which episodes finish; the     *)
(* means of returns, lengths and reward terms are what the episodes they   *)
(* are taken over determine.                                               *)
(***************************************************************************)
EXTENDS Integers, SequencesExt

CONSTANTS NumEnvs,      \* environments of the collector
          Interval,     \* steps of a metric window (collector_metrics_interval)
          History,      \* episodes a report is taken over (100 in the code)
          QueueSizes,   \* sizes of the metrics queue a run may have (100 in the code)
          PipeSize,     \* messages the queue's pipe holds
          MaxTicks      \* bound: ticks of a run

ASSUME MetricsAssumption ==
  /\ NumEnvs \in Nat \ {0} /\ Interval \in Nat \ {0} /\ History \in Nat \ {0}
  /\ QueueSizes \subseteq Nat \ {0} /\ PipeSize \in Nat \ {0} /\ MaxTicks \in Nat

VARIABLES
  queueSize,
  \* the collector
  cpc,            \* where it is in its loop
  raising,        \* an exception is on its way out
  finished,       \* episodes finished so far
  updates,        \* _updates: steps in the device window
  window,         \* finished_valid: the episodes in it
  reasons,        \* termination_reason_counts_t, summed over the reasons
  doneWindow,     \* done_count_window: flushed, and in no accepted report
  epRewards,      \* the last episodes of the accepted reports
  refused,        \* pending_tensor_metric_flush is not None
  pendingFlush,   \* the episodes of the reports refused since the last accepted one
  accounted,      \* done counts of the accepted reports
  finalLost,      \* the last report found no room in its five seconds
  \* metrics_queue: the buffer of its feeder thread and its pipe
  buffered, pipe,
  \* the exchange of ticks
  request, released,
  \* the learner
  lpc, tick, stop,
  lastReport,     \* reward_history[-1]
  ended           \* of the collector process: "no", "exited", "terminated"

windowVars == <<finished, updates, window, reasons>>
reportVars == <<doneWindow, epRewards, refused, pendingFlush, accounted, finalLost>>
queueVars == <<queueSize, buffered, pipe>>
learnerVars == <<lpc, tick, stop, lastReport>>
tickVars == <<request, released>>
vars == <<cpc, raising, windowVars, reportVars, queueVars, tickVars, learnerVars, ended>>

\* What is left of a sequence in a deque of History entries.
Latest(s) == SubSeq(s, IF Len(s) > History THEN Len(s) - History + 1 ELSE 1, Len(s))

Message(kind, report, done, reason) ==
  [kind |-> kind, report |-> report, done |-> done, reasons |-> reason]

\* The runtime manifest is the first message of the collector.
Init ==
  /\ queueSize \in QueueSizes
  /\ cpc = "request" /\ raising = FALSE
  /\ finished = 0 /\ updates = 0 /\ window = <<>> /\ reasons = 0
  /\ doneWindow = 0 /\ epRewards = <<>> /\ refused = FALSE /\ pendingFlush = <<>>
  /\ accounted = 0 /\ finalLost = FALSE
  /\ buffered = <<Message("manifest", <<>>, 0, 0)>> /\ pipe = <<>>
  /\ request = FALSE /\ released = FALSE
  /\ lpc = "wait" /\ tick = 0 /\ stop = FALSE /\ lastReport = <<>>
  /\ ended = "no"
-----------------------------------------------------------------------------
\* The queue's bounded semaphore counts what is put and not yet taken.
Room == Len(buffered) + Len(pipe) < queueSize

\* The feeder thread writes the buffer to the pipe, a message at a time.
Feed ==
  /\ buffered # <<>> /\ Len(pipe) < PipeSize /\ ended # "terminated"
  /\ pipe' = Append(pipe, Head(buffered))
  /\ buffered' = Tail(buffered)
  /\ UNCHANGED <<cpc, raising, windowVars, reportVars, queueSize, tickVars, learnerVars, ended>>
-----------------------------------------------------------------------------
Running == ended = "no"

\* The head of the loop, and its waits: they return at a stop
AskForAction ==
  /\ Running /\ cpc = "request"
  /\ IF stop THEN cpc' = "final" /\ UNCHANGED request
             ELSE cpc' = "answer" /\ request' = TRUE
  /\ UNCHANGED <<raising, windowVars, reportVars, queueVars, released, learnerVars, ended>>

TakeAction ==
  /\ Running /\ cpc = "answer"
  /\ \/ released /\ released' = FALSE /\ cpc' = "step"
     \/ stop /\ cpc' = "final" /\ UNCHANGED released
  /\ UNCHANGED <<raising, windowVars, reportVars, queueVars, request, learnerVars, ended>>

\* The environments step and some finish an episode; update() refuses a full window
Step ==
  /\ Running /\ cpc = "step" /\ updates < Interval
  /\ \E count \in 0..NumEnvs :
       /\ window' = window \o [i \in 1..count |-> finished + i]
       /\ finished' = finished + count
       /\ reasons' = reasons + count
  /\ updates' = updates + 1
  /\ cpc' = IF updates' >= Interval THEN "publish" ELSE "request"
  /\ UNCHANGED <<raising, reportVars, queueVars, tickVars, learnerVars, ended>>

\* The step raises, or what is read from its state does: before the reasons are counted or
\* between them and the update of the window
StepRaises ==
  /\ Running /\ cpc = "step"
  /\ raising' = TRUE
  /\ \E count \in 0..NumEnvs : reasons' = reasons + count
  /\ cpc' = "final"
  /\ UNCHANGED <<finished, updates, window, reportVars, queueVars, tickVars, learnerVars, ended>>
-----------------------------------------------------------------------------
\* The flush with the ones that were refused before it (the mutant drops those) ...
CompletedFlushLatest == window
CompletedFlush == pendingFlush \o window

Done == doneWindow + Len(window)

\* ... and the report over it
ReportOf(kind) == Message(kind, Latest(epRewards \o CompletedFlush), Done, reasons)

\* _flush empties the device window, whatever becomes of the report
EmptyWindow == window' = <<>> /\ updates' = 0 /\ UNCHANGED finished

\* "Mutable source windows are consumed only after the queue accepts the message" ...
Accept(kind) ==
  /\ buffered' = Append(buffered, ReportOf(kind))
  /\ epRewards' = Latest(epRewards \o CompletedFlush)
  /\ accounted' = accounted + Done
  /\ doneWindow' = 0 /\ reasons' = (IF Done > 0 THEN 0 ELSE reasons)
  /\ refused' = FALSE /\ pendingFlush' = <<>>
  /\ EmptyWindow

\* ... and kept, with the flush, for the next report (the mutant consumes them)
RefuseConsumed ==
  /\ doneWindow' = 0 /\ reasons' = 0
  /\ refused' = TRUE /\ pendingFlush' = CompletedFlush
  /\ EmptyWindow
  /\ UNCHANGED <<buffered, epRewards, accounted>>

Refuse ==
  /\ doneWindow' = Done
  /\ refused' = TRUE /\ pendingFlush' = CompletedFlush
  /\ EmptyWindow
  /\ UNCHANGED <<buffered, epRewards, accounted, reasons>>

\* A window of Interval steps is published without waiting.
PublishWindow ==
  /\ Running /\ cpc = "publish"
  /\ IF Room THEN Accept("window") ELSE Refuse
  /\ cpc' = "request"
  /\ UNCHANGED <<raising, finalLost, queueSize, pipe, tickVars, learnerVars, ended>>

\* flush_final_tensor_metrics: the partial window, if there is anything to tell ...
NothingToFlush ==
  /\ Running /\ cpc = "final" /\ ~refused /\ window = <<>>
  /\ cpc' = "report"
  /\ UNCHANGED <<raising, windowVars, reportVars, queueVars, tickVars, learnerVars, ended>>

\* ... waits for room ...
PublishFinal ==
  /\ Running /\ cpc = "final" /\ (refused \/ window # <<>>) /\ Room
  /\ Accept("final")
  /\ cpc' = "report"
  /\ UNCHANGED <<raising, finalLost, queueSize, pipe, tickVars, learnerVars, ended>>

\* ... for five seconds
FinalTimesOut ==
  /\ Running /\ cpc = "final" /\ (refused \/ window # <<>>) /\ ~Room
  /\ Refuse
  /\ finalLost' = TRUE
  /\ cpc' = "report"
  /\ UNCHANGED <<raising, queueSize, pipe, tickVars, learnerVars, ended>>

\* collector_error_guard: the error follows the last window, if there is room, and
\* the stop event is set
ReportError ==
  /\ Running /\ cpc = "report"
  /\ buffered' = IF raising /\ Room THEN Append(buffered, Message("error", <<>>, 0, 0))
                                    ELSE buffered
  /\ stop' = (stop \/ raising)
  /\ cpc' = "exit"
  /\ UNCHANGED <<raising, windowVars, reportVars, queueSize, pipe, tickVars, lpc, tick,
                 lastReport, ended>>

\* A process joins the feeder of its queue before it exits.
Exit ==
  /\ Running /\ cpc = "exit" /\ buffered = <<>>
  /\ ended' = "exited"
  /\ UNCHANGED <<cpc, raising, windowVars, reportVars, queueVars, tickVars, learnerVars>>

\* A process killed from outside loses the feeder with what it holds.
Killed ==
  /\ Running
  /\ ended' = "terminated"
  /\ buffered' = <<>>
  /\ UNCHANGED <<cpc, raising, windowVars, reportVars, queueSize, pipe, tickVars, learnerVars>>
-----------------------------------------------------------------------------
\* Serving a tick; the poll of the request queue that found none
Serve ==
  /\ lpc = "wait"
  /\ IF request
     THEN request' = FALSE /\ released' = TRUE /\ tick' = tick + 1 /\ lpc' = "served"
     ELSE lpc' = "poll" /\ UNCHANGED <<tickVars, tick>>
  /\ UNCHANGED <<cpc, raising, windowVars, reportVars, queueVars, stop, lastReport, ended>>

Draining == lpc \in {"poll", "served", "last"}

\* drain_collector_metrics: a message after the other, the error message raises
TakeMessage ==
  /\ Draining /\ pipe # <<>>
  /\ pipe' = Tail(pipe)
  /\ lpc' = IF Head(pipe).kind = "error" THEN "failed" ELSE lpc
  /\ lastReport' = IF Head(pipe).report = <<>> THEN lastReport ELSE Head(pipe).report
  /\ UNCHANGED <<cpc, raising, windowVars, reportVars, queueSize, buffered, tickVars, tick,
                 stop, ended>>

\* ... until the pipe is empty, although the feeder may hold more
PolledOut == lpc = "poll" /\ lpc' = (IF ended = "no" THEN "wait" ELSE "failed")
ServedOut == lpc = "served" /\ tick < MaxTicks /\ lpc' = "wait"

DrainEnds ==
  /\ pipe = <<>>
  /\ PolledOut \/ ServedOut
  /\ UNCHANGED <<cpc, raising, windowVars, reportVars, queueVars, tickVars, tick, stop,
                 lastReport, ended>>

\* _shutdown_collector: the stop event, a join that drains nothing ...
SetStop ==
  /\ lpc = "served" /\ pipe = <<>> /\ tick = MaxTicks
  /\ stop' = TRUE
  /\ lpc' = "join"
  /\ UNCHANGED <<cpc, raising, windowVars, reportVars, queueVars, tickVars, tick, lastReport,
                 ended>>

Join ==
  /\ lpc = "join" /\ ended # "no"
  /\ lpc' = "last"
  /\ UNCHANGED <<cpc, raising, windowVars, reportVars, queueVars, tickVars, tick, stop,
                 lastReport, ended>>

\* ... and a signal for a collector that takes longer than five seconds
Terminate ==
  /\ lpc = "join" /\ Running
  /\ ended' = "terminated"
  /\ buffered' = <<>>
  /\ lpc' = "last"
  /\ UNCHANGED <<cpc, raising, windowVars, reportVars, queueSize, pipe, tickVars, tick, stop,
                 lastReport>>

\* _drain_collector_metrics_after_shutdown, and the summary of the complete history
Summarise ==
  /\ lpc = "last" /\ pipe = <<>>
  /\ lpc' = "done"
  /\ UNCHANGED <<cpc, raising, windowVars, reportVars, queueVars, tickVars, tick, stop,
                 lastReport, ended>>

Finished == lpc \in {"done", "failed"} /\ UNCHANGED vars

Next ==
  \/ Feed
  \/ AskForAction \/ TakeAction \/ Step \/ StepRaises \/ PublishWindow
  \/ NothingToFlush \/ PublishFinal \/ FinalTimesOut \/ ReportError \/ Exit \/ Killed
  \/ Serve \/ TakeMessage \/ DrainEnds \/ SetStop \/ Join \/ Terminate \/ Summarise
  \/ Finished

Spec == Init /\ [][Next]_vars
-----------------------------------------------------------------------------
\* Every finished episode is in the device window, in the window of refused reports or in
\* exactly one accepted report, and a report's reasons are those of the episodes it counts,
\* although the two are kept apart, reset apart and outlive refused reports
\* (enqueue_collector_metrics, flush_final_tensor_metrics).  Only the final report behind a
\* step that raised may hold the reasons of that step besides.
EpisodesAccounted ==
  /\ accounted + doneWindow + Len(window) = finished
  /\ ~raising => reasons = doneWindow + Len(window)
  /\ \A i \in 1..Len(buffered) :
       \/ buffered[i].reasons = buffered[i].done
       \/ raising /\ buffered[i].kind = "final"

\* A run that ends in order is summarised from all its episodes: unless the collector had
\* to be killed or found the queue full for five seconds, the last report the learner
\* holds is over the last History episodes of the run, in order and without a gap,
\* whatever reports were refused on the way (_drain_collector_metrics_after_shutdown).
SummaryIsComplete ==
  lpc = "done" /\ ended = "exited" /\ ~finalLost =>
    lastReport = Latest([i \in 1..finished |-> i])
=============================================================================
