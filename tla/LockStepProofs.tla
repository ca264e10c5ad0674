--------------------------- MODULE LockStepProofs ---------------------------
(***************************************************************************)
(* The lock-step protocol keeps one tick in flight, lets its collector go  *)
(* without an error and closes the replay behind it, for every number of   *)
(* steps, iterations and vectors and every set of faults.                  *)
(*                                                                         *)
(* Three invariants, each inductive relative to the ones before it: the    *)
(* types; where a tick may be while each side is where it is (TickInv);    *)
(* and what has happened by the time a flag is raised (OrderInv).          *)
(***************************************************************************)
EXTENDS LockStep, TLAPS

LoopAt == {"startup", "spawn", "enter", "poll", "idle", "serve", "answer", "release", "decide",
           "stats", "committing", "batch", "unready", "update"}

\* The collector has asked and nothing has been answered to it, or it is on its way out.
Settled == {"wait", "empty", "snapshot", "judge", "finally", "guard"}
Serving == {"serve", "answer", "release"}
InLoop == {"loop", "request", "wait", "empty", "snapshot", "judge", "consume", "step", "add",
           "token"}

\* The tick is with the collector, in the request queue, with the learner, or in the
\* response queue, and the counters tell which.
TickInv ==
  /\ nextTick \in {tick, tick + 1}
  /\ \/ request = <<>>
     \/ request = <<READY>> /\ ~ready
     \/ /\ request = <<nextTick>> /\ ready /\ nextTick = tick /\ response = <<>>
        /\ cpc \in Settled /\ lpc \notin Serving
  /\ \/ response = <<>>
     \/ /\ response = <<tick>> /\ nextTick = tick + 1 /\ request = <<>>
        /\ cpc \in Settled /\ lpc \notin Serving
  /\ lpc \in Serving =>
       /\ request = <<>> /\ response = <<>> /\ cpc \in Settled
       /\ nextTick = IF lpc = "release" THEN tick + 1 ELSE tick
  /\ cpc \in {"boot", "ready"} => ~ready /\ request = <<>>
  /\ cpc \in InLoop /\ request = <<>> => ready
  /\ cpc \in {"boot", "ready", "loop", "request", "add", "token"} => nextTick = tick
  /\ cpc \in {"consume", "step"} => nextTick = tick + 1
  /\ cpc = "token" => takeable < published
  /\ failure # "protocol" /\ cerror # "tick mismatch"

\* The stop event is set before the phase says so, the ring is closed by a collector that
\* leaves or behind it, and the learner goes past the join only without a collector.
OrderInv ==
  /\ lpc \in {"startup", "spawn"} =>
       process = "unborn" /\ ~pipelineClosed /\ ~bufferClosed /\ ~ringClosed
  /\ lpc = "spawn" => phase # "STOPPED"
  /\ lpc \in {"stopped", "join", "finalize", "close", "exited"} => stop
  /\ lpc \in {"finalize", "close", "exited"} => ~Alive
  /\ phase = "STOPPED" => stop \/ process = "unborn"
  /\ cpc = "judge" /\ phaseSeen = "STOPPED" => stop
  /\ ringClosed /\ Alive => cpc = "guard"
  /\ pipelineClosed \/ bufferClosed => ~Alive
  /\ lpc \in LoopAt => iteration <= MaxIterations
  /\ NoSpuriousCollectorError

-----------------------------------------------------------------------------
LEMMA Bounds == StepsPerSync \in Nat /\ MaxIterations \in Nat \ {0}
BY LockStepAssumption DEF LockStepAssumption

\* What the two sides find in a queue.
LEMMA TakesItsTick ==
  ASSUME TakeResponse, ~stop, response = <<tick>>
  PROVE  cpc' = "consume" /\ response' = <<>>
BY DEF TakeResponse, Go

LEMMA TakesReady ==
  ASSUME TakeRequest, request = <<READY>>, ~ready
  PROVE  ready' = TRUE /\ UNCHANGED <<lpc, outcome>>
BY DEF TakeRequest

LEMMA TakesNextTick ==
  ASSUME TakeRequest, request = <<nextTick>>, ready, nextTick \in Nat
  PROVE  lpc' = "serve" /\ UNCHANGED <<ready, outcome>>
<1>1. Head(request) = nextTick /\ nextTick # READY /\ request # <<>>
  BY DEF READY
<1>2. QED
  BY <1>1 DEF TakeRequest

LEMMA ReadyIsNoTick ==
  ASSUME nextTick \in Nat
  PROVE  <<READY>> # <<nextTick>> /\ <<READY>> # <<>>
BY DEF READY

LEMMA UpdateEnds ==
  ASSUME Update, CounterTypes
  PROVE  lpc' \in {"enter", "stop"} /\ (lpc' = "enter" => iteration' <= MaxIterations)
BY Bounds DEF Update, CounterTypes

LEMMA PublishedAhead ==
  ASSUME CounterTypes, published' = published + 1, UNCHANGED takeable
  PROVE  takeable' < published'
BY DEF CounterTypes

LEMMA ReleasedTick ==
  ASSUME ReleaseInferenceTick, response = <<>>, tick \in Nat, nextTick = tick + 1
  PROVE  response' = <<tick>> /\ lpc' = "decide" /\ UNCHANGED outcome
BY DEF ReleaseInferenceTick

LEMMA InitInv == Init => TypeOK /\ TickInv /\ OrderInv
<1> SUFFICES ASSUME Init PROVE TypeOK /\ TickInv /\ OrderInv
  OBVIOUS
<1>1. TypeOK
  <2>1. CounterTypes
    BY Bounds DEF Init, CounterTypes, Queue, READY, None
  <2>2. PlaceTypes
    BY DEF Init, PlaceTypes
  <2>3. QED
    BY <2>1, <2>2 DEF TypeOK
<1>2. TickInv
  BY DEF Init, TickInv, Settled, Serving, InLoop
<1>3. OrderInv
  BY Bounds DEF Init, OrderInv, LoopAt, NoSpuriousCollectorError, Alive
<1>4. QED
  BY <1>1, <1>2, <1>3

LEMMA CounterStep ==
  ASSUME CounterTypes, TickInv, OrderInv, [Next]_vars
  PROVE  CounterTypes'
<1> USE Bounds
    DEF queues, ring, replay, collectorVars, loopVars, statsVars, outcome, learnerVars,
           others, CollectorAt, Go, RaiseIn, LearnerGo, LearnerRaise, FailCollectorDied, Alive,
           Dead, LearnerGone, AfterJoin, READY, None
\* the collector
<1>1. CASE Boot
  BY <1>1 DEF Boot, CounterTypes, Queue
<1>2. CASE PublishCollectorReady
  BY <1>2 DEF PublishCollectorReady, CounterTypes, Queue
<1>3. CASE PublishObservation
  <2>1. observed' \in {observed, tick + 1}
    BY <1>3 DEF PublishObservation
  <2>2. UNCHANGED <<request, response, tick, nextTick, answered, published, takeable, visible,
                    iteration, snapshot,
                    sinceUpdate, boundary, required>>
    BY <1>3 DEF PublishObservation
  <2>3. QED
    BY <2>1, <2>2 DEF CounterTypes, Queue
<1>4. CASE PublishInferenceTick
  BY <1>4 DEF PublishInferenceTick, CounterTypes, Queue
<1>5. CASE TakeResponse
  BY <1>5 DEF TakeResponse, CounterTypes, Queue
<1>6. CASE QueueEmpty
  BY <1>6 DEF QueueEmpty, CounterTypes, Queue
<1>7. CASE SnapshotLearner
  BY <1>7 DEF SnapshotLearner, CounterTypes, Queue
<1>8. CASE LearnerDied
  BY <1>8 DEF LearnerDied, CounterTypes, Queue
<1>9. CASE JudgePhase
  BY <1>9 DEF JudgePhase, CounterTypes, Queue
<1>10. CASE ConsumeAction
  BY <1>10 DEF ConsumeAction, CounterTypes, Queue
<1>11. CASE EnvStep
  BY <1>11 DEF EnvStep, CounterTypes, Queue
<1>12. CASE AddBatch
  BY <1>12 DEF AddBatch, CounterTypes, Queue
<1>13. CASE ReleaseReady
  <2>1. takeable < published
    BY <1>13 DEF ReleaseReady, TickInv
  <2>2. takeable' = takeable + 1
    BY <1>13 DEF ReleaseReady
  <2>3. takeable' \in 0..published /\ visible \in 0..takeable'
    BY <2>1, <2>2 DEF CounterTypes
  <2>4. UNCHANGED <<request, response, tick, nextTick, observed, answered, published, visible,
                    iteration, snapshot, sinceUpdate, boundary, required>>
    BY <1>13 DEF ReleaseReady
  <2>5. QED
    BY <2>3, <2>4 DEF CounterTypes, Queue
<1>14. CASE AddRejected
  BY <1>14 DEF AddRejected, CounterTypes, Queue
<1>15. CASE Finally
  BY <1>15 DEF Finally, CounterTypes, Queue
<1>16. CASE ErrorGuard
  BY <1>16 DEF ErrorGuard, CounterTypes, Queue
\* its ends and its watchdog
<1>17. CASE CollectorRaises
  BY <1>17 DEF CollectorRaises, CounterTypes, Queue
<1>18. CASE CollectorKilled
  BY <1>18 DEF CollectorKilled, CounterTypes, Queue
<1>19. CASE WatchdogStops
  BY <1>19 DEF WatchdogStops, CounterTypes, Queue
<1>20. CASE WatchdogExits
  BY <1>20 DEF WatchdogExits, CounterTypes, Queue
\* the learner's loop
<1>21. CASE MarkWaiting
  BY <1>21 DEF MarkWaiting, CounterTypes, Queue
<1>22. CASE StartCollector
  BY <1>22 DEF StartCollector, CounterTypes, Queue
<1>23. CASE EnterWait
  BY <1>23 DEF EnterWait, CounterTypes, Queue
<1>24. CASE TakeRequest
  BY <1>24 DEF TakeRequest, CounterTypes, Queue
<1>25. CASE RequestEmpty
  BY <1>25 DEF RequestEmpty, CounterTypes, Queue
<1>26. CASE CheckCollector
  BY <1>26 DEF CheckCollector, CounterTypes, Queue
<1>27. CASE CopyObservation
  BY <1>27 DEF CopyObservation, CounterTypes, Queue
<1>28. CASE PublishAction
  <2>1. CASE ringClosed
    <3>1. UNCHANGED <<request, response, tick, nextTick, observed, answered, published,
                      takeable, visible, iteration, snapshot, sinceUpdate, boundary, required>>
      BY <1>28, <2>1 DEF PublishAction
    <3>2. QED
      BY <3>1 DEF CounterTypes, Queue
  <2>2. CASE ~ringClosed
    <3>1. /\ answered' = nextTick + 1 /\ nextTick' = nextTick + 1
         /\ sinceUpdate' = sinceUpdate + 1
         /\ UNCHANGED <<request, response, tick, observed, published, takeable, visible,
                        iteration, snapshot, boundary, required>>
      BY <1>28, <2>2 DEF PublishAction
    <3>2. QED
      BY <3>1 DEF CounterTypes, Queue
  <2>3. QED
    BY <2>1, <2>2
<1>29. CASE ReleaseInferenceTick
  <2>1. boundary' \in {boundary, published + StepsPerSync}
    BY <1>29 DEF ReleaseInferenceTick
  <2>0. response = <<>> /\ nextTick = tick + 1 /\ tick \in Nat
    BY <1>29 DEF ReleaseInferenceTick, CounterTypes, TickInv, Serving
  <2>2. response' = <<tick>>
    BY <1>29, <2>0, ReleasedTick
  <2>3. UNCHANGED <<request, tick, nextTick, observed, answered, published, takeable, visible,
                    iteration, snapshot,
                    sinceUpdate, required>>
    BY <1>29 DEF ReleaseInferenceTick
  <2>4. QED
    BY <2>1, <2>0, <2>2, <2>3 DEF CounterTypes, Queue
<1>30. CASE Decide
  BY <1>30 DEF Decide, CounterTypes, Queue
<1>31. CASE ReadCommitted
  BY <1>31 DEF ReadCommitted, CounterTypes, Queue
<1>32. CASE StatsCommitted
  BY <1>32 DEF StatsCommitted, CounterTypes, Queue
<1>33. CASE BatchReady
  BY <1>33 DEF BatchReady, CounterTypes, Queue
<1>34. CASE BatchNotReady
  BY <1>34 DEF BatchNotReady, CounterTypes, Queue
<1>35. CASE Update
  BY <1>35 DEF Update, CounterTypes, Queue, OrderInv, LoopAt
\* its shutdown and its ends
<1>36. CASE HandleException
  BY <1>36 DEF HandleException, CounterTypes, Queue
<1>37. CASE SetStop
  BY <1>37 DEF SetStop, CounterTypes, Queue
<1>38. CASE MarkStopped
  BY <1>38 DEF MarkStopped, CounterTypes, Queue
<1>39. CASE Join
  BY <1>39 DEF Join, CounterTypes, Queue
<1>40. CASE Finalize
  BY <1>40 DEF Finalize, CounterTypes, Queue
<1>41. CASE Close
  BY <1>41 DEF Close, CounterTypes, Queue
<1>42. CASE LearnerRaises
  BY <1>42 DEF LearnerRaises, CounterTypes, Queue
<1>43. CASE LearnerKilled
  BY <1>43 DEF LearnerKilled, CounterTypes, Queue
\* the daemon, and a system that stands still
<1>44. CASE Daemon
  BY <1>44 DEF Daemon, CounterTypes, Queue
<1>45. CASE UNCHANGED vars
  BY <1>45 DEF vars, CounterTypes, Queue
<1>46. QED
  BY <1>1, <1>2, <1>3, <1>4, <1>5, <1>6, <1>7, <1>8, <1>9, <1>10, <1>11, <1>12, <1>13,
     <1>14, <1>15, <1>16, <1>17, <1>18, <1>19, <1>20, <1>21, <1>22, <1>23, <1>24, <1>25,
     <1>26, <1>27, <1>28, <1>29, <1>30, <1>31, <1>32, <1>33, <1>34, <1>35, <1>36, <1>37,
     <1>38, <1>39, <1>40, <1>41, <1>42, <1>43, <1>44, <1>45
  DEF Next, Collector, Watchdog, Learner, Ended

LEMMA PlaceStep ==
  ASSUME PlaceTypes, [Next]_vars
  PROVE  PlaceTypes'
<1> USE DEF queues, ring, replay, collectorVars, loopVars, statsVars, outcome, learnerVars,
           others, CollectorAt, Go, RaiseIn, LearnerGo, LearnerRaise, FailCollectorDied, Alive,
           Dead, LearnerGone, AfterJoin, READY, None
\* the collector
<1>1. CASE Boot
  <2>1. cpc' = "ready" /\ UNCHANGED <<rewardStats, ready, ringClosed, stop, phase, phaseSeen,
                                      process, lpc>>
    BY <1>1 DEF Boot
  <2>2. QED
    BY <2>1 DEF PlaceTypes
<1>2. CASE PublishCollectorReady
  BY <1>2 DEF PublishCollectorReady, PlaceTypes
<1>3. CASE PublishObservation
  <2>1. cpc' \in {"finally", "request"} /\ UNCHANGED <<rewardStats, ready, ringClosed, stop,
                                                       phase, phaseSeen, process, lpc>>
    BY <1>3 DEF PublishObservation
  <2>2. QED
    BY <2>1 DEF PlaceTypes
<1>4. CASE PublishInferenceTick
  BY <1>4 DEF PublishInferenceTick, PlaceTypes
<1>5. CASE TakeResponse
  <2>1. cpc' \in {"finally", "empty", "consume"} /\ UNCHANGED <<rewardStats, ready,
                                                                ringClosed, stop, phase,
                                                                phaseSeen, process, lpc>>
    BY <1>5 DEF TakeResponse
  <2>2. QED
    BY <2>1 DEF PlaceTypes
<1>6. CASE QueueEmpty
  <2>1. cpc' \in {"finally", "snapshot"} /\ UNCHANGED <<rewardStats, ready, ringClosed, stop,
                                                        phase, phaseSeen, process, lpc>>
    BY <1>6 DEF QueueEmpty
  <2>2. QED
    BY <2>1 DEF PlaceTypes
<1>7. CASE SnapshotLearner
  BY <1>7 DEF SnapshotLearner, PlaceTypes
<1>8. CASE LearnerDied
  <2>1. cpc' = "finally" /\ UNCHANGED <<rewardStats, ready, ringClosed, stop, phase,
                                        phaseSeen, process, lpc>>
    BY <1>8 DEF LearnerDied
  <2>2. QED
    BY <2>1 DEF PlaceTypes
<1>9. CASE JudgePhase
  <2>1. cpc' \in {"wait", "finally"} /\ UNCHANGED <<rewardStats, ready, ringClosed, stop,
                                                    phase, phaseSeen, process, lpc>>
    BY <1>9 DEF JudgePhase
  <2>2. QED
    BY <2>1 DEF PlaceTypes
<1>10. CASE ConsumeAction
  <2>1. cpc' \in {"finally", "step"} /\ UNCHANGED <<rewardStats, ready, ringClosed, stop,
                                                    phase, phaseSeen, process, lpc>>
    BY <1>10 DEF ConsumeAction
  <2>2. QED
    BY <2>1 DEF PlaceTypes
<1>11. CASE EnvStep
  BY <1>11 DEF EnvStep, PlaceTypes
<1>12. CASE AddBatch
  BY <1>12 DEF AddBatch, PlaceTypes
<1>13. CASE ReleaseReady
  BY <1>13 DEF ReleaseReady, PlaceTypes
<1>14. CASE AddRejected
  <2>1. cpc' = "finally" /\ UNCHANGED <<rewardStats, ready, ringClosed, stop, phase,
                                        phaseSeen, process, lpc>>
    BY <1>14 DEF AddRejected
  <2>2. QED
    BY <2>1 DEF PlaceTypes
<1>15. CASE Finally
  BY <1>15 DEF Finally, PlaceTypes
<1>16. CASE ErrorGuard
  BY <1>16 DEF ErrorGuard, PlaceTypes
\* its ends and its watchdog
<1>17. CASE CollectorRaises
  <2>1. cpc' \in {"guard", "finally"} /\ UNCHANGED <<rewardStats, ready, ringClosed, stop,
                                                     phase, phaseSeen, process, lpc>>
    BY <1>17 DEF CollectorRaises
  <2>2. QED
    BY <2>1 DEF PlaceTypes
<1>18. CASE CollectorKilled
  <2>1. process' = "killed" /\ UNCHANGED <<rewardStats, ready, ringClosed, stop, phase,
                                           phaseSeen, cpc, lpc>>
    BY <1>18 DEF CollectorKilled
  <2>2. QED
    BY <2>1 DEF PlaceTypes
<1>19. CASE WatchdogStops
  BY <1>19 DEF WatchdogStops, PlaceTypes
<1>20. CASE WatchdogExits
  BY <1>20 DEF WatchdogExits, PlaceTypes
\* the learner's loop
<1>21. CASE MarkWaiting
  BY <1>21 DEF MarkWaiting, PlaceTypes
<1>22. CASE StartCollector
  BY <1>22 DEF StartCollector, PlaceTypes
<1>23. CASE EnterWait
  BY <1>23 DEF EnterWait, PlaceTypes
<1>24. CASE TakeRequest
  <2>1. ready' \in BOOLEAN /\ phase' = "BUSY"
    BY <1>24 DEF TakeRequest, PlaceTypes
  <2>2. lpc' \in {lpc, "serve", "handle"}
    BY <1>24 DEF TakeRequest
  <2>3. UNCHANGED <<rewardStats, ringClosed, stop, phaseSeen, process, cpc>>
    BY <1>24 DEF TakeRequest
  <2>4. CASE lpc' = lpc
    BY <2>1, <2>3, <2>4 DEF PlaceTypes
  <2>5. CASE lpc' \in {"serve", "handle"}
    BY <2>1, <2>3, <2>5 DEF PlaceTypes
  <2>6. QED
    BY <2>2, <2>4, <2>5
<1>25. CASE RequestEmpty
  BY <1>25 DEF RequestEmpty, PlaceTypes
<1>26. CASE CheckCollector
  BY <1>26 DEF CheckCollector, PlaceTypes
<1>27. CASE CopyObservation
  <2>1. lpc' \in {"answer", "handle"} /\ UNCHANGED <<rewardStats, ready, ringClosed, stop,
                                                     phase, phaseSeen, process, cpc>>
    BY <1>27 DEF CopyObservation
  <2>2. QED
    BY <2>1 DEF PlaceTypes
<1>28. CASE PublishAction
  <2>1. lpc' \in {"release", "handle"} /\ UNCHANGED <<rewardStats, ready, ringClosed, stop,
                                                      phase, phaseSeen, process, cpc>>
    BY <1>28 DEF PublishAction
  <2>2. QED
    BY <2>1 DEF PlaceTypes
<1>29. CASE ReleaseInferenceTick
  <2>1. lpc' \in {"decide", "stop"} /\ UNCHANGED <<rewardStats, ready, ringClosed, stop,
                                                   phase, phaseSeen, process, cpc>>
    BY <1>29 DEF ReleaseInferenceTick
  <2>2. QED
    BY <2>1 DEF PlaceTypes
<1>30. CASE Decide
  BY <1>30 DEF Decide, PlaceTypes
<1>31. CASE ReadCommitted
  BY <1>31 DEF ReadCommitted, PlaceTypes
<1>32. CASE StatsCommitted
  BY <1>32 DEF StatsCommitted, PlaceTypes
<1>33. CASE BatchReady
  <2>1. lpc' \in {"update", "unready"} /\ UNCHANGED <<rewardStats, ready, ringClosed, stop,
                                                      phase, phaseSeen, process, cpc>>
    BY <1>33 DEF BatchReady
  <2>2. QED
    BY <2>1 DEF PlaceTypes
<1>34. CASE BatchNotReady
  BY <1>34 DEF BatchNotReady, PlaceTypes
<1>35. CASE Update
  BY <1>35 DEF Update, PlaceTypes
\* its shutdown and its ends
<1>36. CASE HandleException
  BY <1>36 DEF HandleException, PlaceTypes
<1>37. CASE SetStop
  BY <1>37 DEF SetStop, PlaceTypes
<1>38. CASE MarkStopped
  BY <1>38 DEF MarkStopped, PlaceTypes
<1>39. CASE Join
  <2>1. lpc' \in {"finalize", "close"} /\ process' \in {process, "killed"}
         /\ UNCHANGED <<rewardStats, ready, ringClosed, stop, phase, phaseSeen, cpc>>
    BY <1>39 DEF Join
  <2>2. QED
    BY <2>1 DEF PlaceTypes
<1>40. CASE Finalize
  BY <1>40 DEF Finalize, PlaceTypes
<1>41. CASE Close
  BY <1>41 DEF Close, PlaceTypes
<1>42. CASE LearnerRaises
  <2>1. lpc' = "handle" /\ UNCHANGED <<rewardStats, ready, ringClosed, stop, phase, phaseSeen,
                                       process, cpc>>
    BY <1>42 DEF LearnerRaises
  <2>2. QED
    BY <2>1 DEF PlaceTypes
<1>43. CASE LearnerKilled
  <2>1. lpc' = "killed" /\ UNCHANGED <<rewardStats, ready, ringClosed, stop, phase, phaseSeen,
                                       process, cpc>>
    BY <1>43, ZenonT(30) DEF LearnerKilled
  <2>2. QED
    BY <2>1 DEF PlaceTypes
\* the daemon, and a system that stands still
<1>44. CASE Daemon
  BY <1>44, SMTT(30) DEF Daemon, PlaceTypes
<1>45. CASE UNCHANGED vars
  BY <1>45, SMTT(30) DEF vars, PlaceTypes
<1>46. QED
  BY <1>1, <1>2, <1>3, <1>4, <1>5, <1>6, <1>7, <1>8, <1>9, <1>10, <1>11, <1>12, <1>13,
     <1>14, <1>15, <1>16, <1>17, <1>18, <1>19, <1>20, <1>21, <1>22, <1>23, <1>24, <1>25,
     <1>26, <1>27, <1>28, <1>29, <1>30, <1>31, <1>32, <1>33, <1>34, <1>35, <1>36, <1>37,
     <1>38, <1>39, <1>40, <1>41, <1>42, <1>43, <1>44, <1>45
  DEF Next, Collector, Watchdog, Learner, Ended

\* No step takes the tick from where the counters say it is.
LEMMA TickStep ==
  ASSUME TypeOK, TickInv, [Next]_vars
  PROVE  TickInv'
<1> USE DEF TypeOK, CounterTypes, PlaceTypes, TickInv, LoopAt, Settled, Serving, InLoop,
           queues, ring, replay, collectorVars, loopVars, statsVars, outcome, learnerVars,
           others, CollectorAt, Go, RaiseIn, LearnerGo, LearnerRaise, FailCollectorDied, Alive,
           Dead, LearnerGone, AfterJoin, READY, None
\* the collector
<1>1. CASE Boot
  BY <1>1 DEF Boot
<1>2. CASE PublishCollectorReady
  <2>1. request = <<>> /\ ~ready /\ nextTick = tick /\ response = <<>> /\ lpc \notin Serving
    BY <1>2 DEF PublishCollectorReady
  <2>2. CASE stop
    BY <1>2, <2>1, <2>2 DEF PublishCollectorReady
  <2>3. CASE ~stop
    <3>1. request' = <<READY>> /\ cpc' = "loop" /\ UNCHANGED <<response, tick, cerror,
                       learnerVars>>
      BY <1>2, <2>3 DEF PublishCollectorReady
    <3>2. request' # <<>>
      BY <3>1
    <3>3. QED
      BY <2>1, <3>1, <3>2
  <2>4. QED
    BY <2>2, <2>3
<1>3. CASE PublishObservation
  BY <1>3 DEF PublishObservation
<1>4. CASE PublishInferenceTick
  BY <1>4 DEF PublishInferenceTick
<1>5. CASE TakeResponse
  <2>1. CASE stop
    BY <1>5, <2>1 DEF TakeResponse
  <2>2. CASE ~stop /\ response = <<>>
    BY <1>5, <2>2 DEF TakeResponse
  <2>3. CASE ~stop /\ response # <<>>
    <3>1. response = <<tick>> /\ nextTick = tick + 1 /\ request = <<>> /\ lpc \notin Serving
      BY <2>3
    <3>2. cpc' = "consume" /\ response' = <<>>
      BY <1>5, <2>3, <3>1, TakesItsTick
    <3>3. QED
      BY <1>5, <2>3, <3>1, <3>2 DEF TakeResponse
  <2>4. QED
    BY <2>1, <2>2, <2>3
<1>6. CASE QueueEmpty
  BY <1>6 DEF QueueEmpty
<1>7. CASE SnapshotLearner
  BY <1>7 DEF SnapshotLearner
<1>8. CASE LearnerDied
  BY <1>8 DEF LearnerDied
<1>9. CASE JudgePhase
  BY <1>9 DEF JudgePhase
<1>10. CASE ConsumeAction
  BY <1>10 DEF ConsumeAction
<1>11. CASE EnvStep
  BY <1>11 DEF EnvStep
<1>12. CASE AddBatch
  <2>1. published' = published + 1 /\ UNCHANGED takeable /\ cpc = "add" /\ cpc' = "token"
    BY <1>12 DEF AddBatch
  <2>2. takeable' < published'
    BY <2>1, PublishedAhead
  <2>3. UNCHANGED <<request, response, ready, tick, nextTick, lpc, failure, cerror>>
    BY <1>12 DEF AddBatch
  <2>4. QED
    BY <2>1, <2>2, <2>3
<1>13. CASE ReleaseReady
  BY <1>13 DEF ReleaseReady
<1>14. CASE AddRejected
  BY <1>14 DEF AddRejected
<1>15. CASE Finally
  BY <1>15 DEF Finally
<1>16. CASE ErrorGuard
  BY <1>16 DEF ErrorGuard
\* its ends and its watchdog
<1>17. CASE CollectorRaises
  BY <1>17 DEF CollectorRaises
<1>18. CASE CollectorKilled
  BY <1>18 DEF CollectorKilled
<1>19. CASE WatchdogStops
  BY <1>19 DEF WatchdogStops
<1>20. CASE WatchdogExits
  BY <1>20 DEF WatchdogExits
\* the learner's loop
<1>21. CASE MarkWaiting
  BY <1>21 DEF MarkWaiting
<1>22. CASE StartCollector
  BY <1>22 DEF StartCollector
<1>23. CASE EnterWait
  BY <1>23 DEF EnterWait
<1>24. CASE TakeRequest
  <2>1. CASE request = <<READY>>
    <3>0. ~ready
      BY <2>1, ReadyIsNoTick
    <3>1. ready' = TRUE /\ UNCHANGED <<lpc, outcome>>
      BY <1>24, <2>1, <3>0, TakesReady DEF READY
    <3>2. QED
      BY <1>24, <2>1, <3>1 DEF TakeRequest
  <2>2. CASE request = <<nextTick>> /\ ready
    <3>1. lpc' = "serve" /\ UNCHANGED <<ready, outcome>>
      BY <1>24, <2>2, TakesNextTick
    <3>2. QED
      BY <1>24, <2>2, <3>1 DEF TakeRequest
  <2>3. QED
    BY <1>24, <2>1, <2>2 DEF TakeRequest
<1>25. CASE RequestEmpty
  BY <1>25 DEF RequestEmpty
<1>26. CASE CheckCollector
  BY <1>26 DEF CheckCollector
<1>27. CASE CopyObservation
  BY <1>27 DEF CopyObservation
<1>28. CASE PublishAction
  BY <1>28 DEF PublishAction
<1>29. CASE ReleaseInferenceTick
  <2>1. response = <<>> /\ request = <<>> /\ nextTick = tick + 1 /\ cpc \in Settled
    BY <1>29 DEF ReleaseInferenceTick
  <2>2. response' = <<tick>> /\ lpc' = "decide" /\ UNCHANGED outcome
    BY <1>29, <2>1, ReleasedTick
  <2>3. QED
    BY <1>29, <2>1, <2>2 DEF ReleaseInferenceTick
<1>30. CASE Decide
  BY <1>30 DEF Decide
<1>31. CASE ReadCommitted
  BY <1>31 DEF ReadCommitted
<1>32. CASE StatsCommitted
  BY <1>32 DEF StatsCommitted
<1>33. CASE BatchReady
  BY <1>33 DEF BatchReady
<1>34. CASE BatchNotReady
  BY <1>34 DEF BatchNotReady
<1>35. CASE Update
  BY <1>35 DEF Update
\* its shutdown and its ends
<1>36. CASE HandleException
  BY <1>36 DEF HandleException
<1>37. CASE SetStop
  BY <1>37 DEF SetStop
<1>38. CASE MarkStopped
  BY <1>38 DEF MarkStopped
<1>39. CASE Join
  BY <1>39 DEF Join
<1>40. CASE Finalize
  BY <1>40 DEF Finalize
<1>41. CASE Close
  BY <1>41 DEF Close
<1>42. CASE LearnerRaises
  BY <1>42 DEF LearnerRaises
<1>43. CASE LearnerKilled
  BY <1>43, ZenonT(30) DEF LearnerKilled
\* the daemon, and a system that stands still
<1>44. CASE Daemon
  BY <1>44, ZenonT(30) DEF Daemon
<1>45. CASE UNCHANGED vars
  BY <1>45, ZenonT(30) DEF vars
<1>46. QED
  BY <1>1, <1>2, <1>3, <1>4, <1>5, <1>6, <1>7, <1>8, <1>9, <1>10, <1>11, <1>12, <1>13,
     <1>14, <1>15, <1>16, <1>17, <1>18, <1>19, <1>20, <1>21, <1>22, <1>23, <1>24, <1>25,
     <1>26, <1>27, <1>28, <1>29, <1>30, <1>31, <1>32, <1>33, <1>34, <1>35, <1>36, <1>37,
     <1>38, <1>39, <1>40, <1>41, <1>42, <1>43, <1>44, <1>45
  DEF Next, Collector, Watchdog, Learner, Ended

\* No step overtakes the shutdown's order.
LEMMA OrderStep ==
  ASSUME TypeOK, TickInv, OrderInv, [Next]_vars
  PROVE  OrderInv'
<1> USE Bounds
    DEF TypeOK, PlaceTypes, TickInv, OrderInv, NoSpuriousCollectorError, Settled, Serving,
           InLoop, LoopAt,
           queues, ring, replay, collectorVars, loopVars, statsVars, outcome, learnerVars,
           others, CollectorAt, Go, RaiseIn, LearnerGo, LearnerRaise, FailCollectorDied, Alive,
           Dead, LearnerGone, AfterJoin, READY, None
\* the collector
<1>1. CASE Boot
  BY <1>1 DEF Boot
<1>2. CASE PublishCollectorReady
  BY <1>2 DEF PublishCollectorReady
<1>3. CASE PublishObservation
  BY <1>3 DEF PublishObservation
<1>4. CASE PublishInferenceTick
  BY <1>4 DEF PublishInferenceTick
<1>5. CASE TakeResponse
  <2>1. CASE stop
    BY <1>5, <2>1 DEF TakeResponse
  <2>2. CASE ~stop /\ response = <<>>
    BY <1>5, <2>2 DEF TakeResponse
  <2>3. CASE ~stop /\ response # <<>>
    <3>1. cpc' = "consume"
      BY <1>5, <2>3, TakesItsTick
    <3>2. cerror' = cerror /\ UNCHANGED <<process, phaseSeen>>
      BY <1>5, <2>3, <3>1 DEF TakeResponse
    <3>3. QED
      BY <1>5, <3>1, <3>2 DEF TakeResponse
  <2>4. QED
    BY <2>1, <2>2, <2>3
<1>6. CASE QueueEmpty
  BY <1>6 DEF QueueEmpty
<1>7. CASE SnapshotLearner
  BY <1>7 DEF SnapshotLearner
<1>8. CASE LearnerDied
  BY <1>8 DEF LearnerDied
<1>9. CASE JudgePhase
  BY <1>9 DEF JudgePhase
<1>10. CASE ConsumeAction
  BY <1>10 DEF ConsumeAction
<1>11. CASE EnvStep
  BY <1>11 DEF EnvStep
<1>12. CASE AddBatch
  BY <1>12 DEF AddBatch
<1>13. CASE ReleaseReady
  BY <1>13 DEF ReleaseReady
<1>14. CASE AddRejected
  BY <1>14 DEF AddRejected
<1>15. CASE Finally
  BY <1>15 DEF Finally
<1>16. CASE ErrorGuard
  BY <1>16 DEF ErrorGuard
\* its ends and its watchdog
<1>17. CASE CollectorRaises
  BY <1>17 DEF CollectorRaises
<1>18. CASE CollectorKilled
  BY <1>18 DEF CollectorKilled
<1>19. CASE WatchdogStops
  BY <1>19 DEF WatchdogStops
<1>20. CASE WatchdogExits
  BY <1>20 DEF WatchdogExits
\* the learner's loop
<1>21. CASE MarkWaiting
  BY <1>21 DEF MarkWaiting
<1>22. CASE StartCollector
  BY <1>22 DEF StartCollector
<1>23. CASE EnterWait
  BY <1>23 DEF EnterWait
<1>24. CASE TakeRequest
  BY <1>24 DEF TakeRequest
<1>25. CASE RequestEmpty
  BY <1>25 DEF RequestEmpty
<1>26. CASE CheckCollector
  BY <1>26 DEF CheckCollector
<1>27. CASE CopyObservation
  BY <1>27 DEF CopyObservation
<1>28. CASE PublishAction
  BY <1>28 DEF PublishAction
<1>29. CASE ReleaseInferenceTick
  BY <1>29 DEF ReleaseInferenceTick
<1>30. CASE Decide
  BY <1>30 DEF Decide
<1>31. CASE ReadCommitted
  BY <1>31 DEF ReadCommitted
<1>32. CASE StatsCommitted
  BY <1>32 DEF StatsCommitted
<1>33. CASE BatchReady
  BY <1>33 DEF BatchReady
<1>34. CASE BatchNotReady
  BY <1>34 DEF BatchNotReady
<1>35. CASE Update
  <2>1. lpc' \in {"enter", "stop"} /\ (lpc' = "enter" => iteration' <= MaxIterations)
    BY <1>35, UpdateEnds, Zenon
  <2>2. UNCHANGED <<stop, phase, process, cpc, phaseSeen, ringClosed, pipelineClosed,
                    bufferClosed,
                   cerror>> /\ lpc # "killed"
    BY <1>35 DEF Update
  <2>3. CASE lpc' = "enter"
    BY <2>1, <2>2, <2>3
  <2>4. CASE lpc' = "stop"
    BY <2>2, <2>4
  <2>5. QED
    BY <2>1, <2>3, <2>4
\* its shutdown and its ends
<1>36. CASE HandleException
  BY <1>36 DEF HandleException
<1>37. CASE SetStop
  BY <1>37 DEF SetStop
<1>38. CASE MarkStopped
  BY <1>38 DEF MarkStopped
<1>39. CASE Join
  BY <1>39 DEF Join
<1>40. CASE Finalize
  BY <1>40 DEF Finalize
<1>41. CASE Close
  BY <1>41 DEF Close
<1>42. CASE LearnerRaises
  BY <1>42 DEF LearnerRaises
<1>43. CASE LearnerKilled
  BY <1>43 DEF LearnerKilled
\* the daemon, and a system that stands still
<1>44. CASE Daemon
  BY <1>44 DEF Daemon
<1>45. CASE UNCHANGED vars
  BY <1>45 DEF vars
<1>46. QED
  BY <1>1, <1>2, <1>3, <1>4, <1>5, <1>6, <1>7, <1>8, <1>9, <1>10, <1>11, <1>12, <1>13,
     <1>14, <1>15, <1>16, <1>17, <1>18, <1>19, <1>20, <1>21, <1>22, <1>23, <1>24, <1>25,
     <1>26, <1>27, <1>28, <1>29, <1>30, <1>31, <1>32, <1>33, <1>34, <1>35, <1>36, <1>37,
     <1>38, <1>39, <1>40, <1>41, <1>42, <1>43, <1>44, <1>45
  DEF Next, Collector, Watchdog, Learner, Ended

LEMMA Inductive == Spec => [](TypeOK /\ TickInv /\ OrderInv)
<1>1. TypeOK /\ TickInv /\ OrderInv /\ [Next]_vars => (TypeOK /\ TickInv /\ OrderInv)'
  BY CounterStep, PlaceStep, TickStep, OrderStep DEF TypeOK
<1>2. QED
  BY InitInv, <1>1, PTL DEF Spec
-----------------------------------------------------------------------------
\* Every variable keeps its type, the iteration its bound and the device ring never holds
\* more than was published (TypeOK of LockStep).
THEOREM TypeCorrect == Spec => []TypeOK
BY Inductive, PTL

\* One tick is in flight, whatever fails where: no message is unexpected and none is put
\* into a queue that is full (_wait_for_inference_tick, _wait_for_inference_request,
\* _publish_inference_response).
THEOREM OneTick == Spec => []OneTickInFlight
<1>1. TypeOK /\ TickInv => OneTickInFlight
  BY DEF TypeOK, CounterTypes, TickInv, OneTickInFlight, Serving, READY
<1>2. QED
  BY <1>1, Inductive, PTL

\* A collector without a fault of its own raises only behind a learner that was killed
\* (_shutdown_collector's order, the second look at the stop event).
THEOREM OrderlyEnd == Spec => []NoSpuriousCollectorError
<1>1. OrderInv => NoSpuriousCollectorError
  BY DEF OrderInv
<1>2. QED
  BY <1>1, Inductive, PTL

\* The pipeline and the buffer are closed behind the collector
\* (finalize, _fail_collector_died, AsyncRunner.close).
THEOREM ClosedBehind == Spec => []QuiescedBeforeClose
<1>1. TypeOK /\ OrderInv => QuiescedBeforeClose
  BY DEF TypeOK, PlaceTypes, OrderInv, QuiescedBeforeClose, Alive, Dead
<1>2. QED
  BY <1>1, Inductive, PTL
=============================================================================
