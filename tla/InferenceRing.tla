---------------------------- MODULE InferenceRing ----------------------------
(***************************************************************************)
(* The observation/action exchange of ipc/inference_ring.py.               *)
(*                                                                         *)
(* The collector publishes the observation of a tick into a slot and later *)
(* consumes the action of that tick from the same slot; the learner copies *)
(* the observation, runs the policy and publishes the action.  On the host *)
(* three semaphores and a few shared integers order the two processes.  On *)
(* the device each process has a stream, the host runs ahead of it, and    *)
(* one interprocess event per slot and direction is all that orders the    *)
(* streams: an operation waits for what the event's latest record stands   *)
(* for when the wait is enqueued.                                          *)
(*                                                                         *)
(* An observation is represented by its tick, an action by the tick of the *)
(* observation it was computed from.                                       *)
(***************************************************************************)
EXTENDS Integers, Sequences

CONSTANTS
  Capacity,  \* slots
  MaxTicks   \* bound: ticks the collector publishes

ASSUME RingAssumption == Capacity \in Nat \ {0} /\ MaxTicks \in Nat

Slots == 0..(Capacity - 1)
None == -1
Events == {"observation", "action", "done"}

VARIABLES
  freeSlots, observationReady, actionReady,                  \* semaphores
  publishedTick, observationTick, actionTick, consumedTick,  \* shared counters
  requestTicks,    \* _request_ticks
  responseTicks,   \* _response_ticks
  doneTicks,       \* _consumer_done_ticks
  cpc, lpc,        \* next step of the collector and of the learner
  \* the device
  recorded,        \* tick of the latest record of each event, enqueued
  fired,           \* ... and executed
  collectorStream, \* operations enqueued and not executed, oldest first
  learnerStream,
  observations,    \* slot storage
  actions,
  scratch,         \* the learner's observation
  returned         \* the action consume_action returned last, and its tick

collectorTicks == <<publishedTick, consumedTick>>
learnerTicks == <<observationTick, actionTick>>
headers == <<requestTicks, responseTicks, doneTicks>>
semaphores == <<freeSlots, observationReady, actionReady>>
storage == <<fired, observations, actions, scratch, returned>>
vars == <<semaphores, collectorTicks, learnerTicks, headers, cpc, lpc, recorded,
          collectorStream, learnerStream, storage>>

SlotIndex(tick) == tick % Capacity

Init ==
  /\ freeSlots = Capacity /\ observationReady = 0 /\ actionReady = 0
  /\ publishedTick = None /\ observationTick = None
  /\ actionTick = None /\ consumedTick = None
  /\ requestTicks = [s \in Slots |-> None]
  /\ responseTicks = [s \in Slots |-> None]
  /\ doneTicks = [s \in Slots |-> None]
  /\ cpc = "idle" /\ lpc = "idle"
  /\ recorded = [e \in Events |-> [s \in Slots |-> None]]
  /\ fired = [e \in Events |-> [s \in Slots |-> None]]
  /\ collectorStream = <<>> /\ learnerStream = <<>>
  /\ observations = [s \in Slots |-> None] /\ actions = [s \in Slots |-> None]
  /\ scratch = None /\ returned = [tick |-> None, of |-> None]
-----------------------------------------------------------------------------
\* An operation of a stream, the event recorded behind it ("none" if there is none),
\* and the event and record it waits for.
Operation(op, tick, event, waitFor, after) ==
  [op |-> op, tick |-> tick, event |-> event, waitFor |-> waitFor, after |-> after]

Record(event, tick) ==
  recorded' = [recorded EXCEPT ![event][SlotIndex(tick)] = tick]

Latest(event, tick) == recorded[event][SlotIndex(tick)]

(***************************************************************************)
(* The collector: try_publish_observation and try_consume_action.  It may  *)
(* publish ahead of the answers until the slots are used up; an acquire    *)
(* that times out leaves it idle.                                          *)
(***************************************************************************)
publishing == publishedTick + 1
consuming == consumedTick + 1

\* mutant: looks at the free slots and takes none
AcquireNothing ==
  /\ cpc = "idle" /\ freeSlots > 0 /\ publishing < MaxTicks
  /\ cpc' = "write"
  /\ UNCHANGED <<semaphores, collectorTicks, learnerTicks, headers, lpc, recorded,
                 collectorStream, learnerStream, storage>>

AcquireFreeSlot ==
  /\ cpc = "idle" /\ freeSlots > 0 /\ publishing < MaxTicks
  /\ freeSlots' = freeSlots - 1
  /\ cpc' = "write"
  /\ UNCHANGED <<observationReady, actionReady, collectorTicks, learnerTicks, headers,
                 lpc, recorded, collectorStream, learnerStream, storage>>

\* the header is withdrawn while the slot is rewritten
WriteObservation ==
  /\ cpc = "write"
  /\ requestTicks' = [requestTicks EXCEPT ![SlotIndex(publishing)] = None]
  /\ collectorStream' =
       Append(collectorStream, Operation("observe", publishing, "observation", "none", None))
  /\ Record("observation", publishing)
  /\ cpc' = "header"
  /\ UNCHANGED <<semaphores, collectorTicks, learnerTicks, responseTicks, doneTicks, lpc,
                 learnerStream, storage>>

PublishObservation ==
  /\ cpc = "header"
  /\ requestTicks' = [requestTicks EXCEPT ![SlotIndex(publishing)] = publishing]
  /\ publishedTick' = publishing
  /\ cpc' = "signal"
  /\ UNCHANGED <<semaphores, consumedTick, learnerTicks, responseTicks, doneTicks, lpc,
                 recorded, collectorStream, learnerStream, storage>>

SignalObservation ==
  /\ cpc = "signal"
  /\ observationReady' = observationReady + 1
  /\ cpc' = "idle"
  /\ UNCHANGED <<freeSlots, actionReady, collectorTicks, learnerTicks, headers, lpc,
                 recorded, collectorStream, learnerStream, storage>>

AcquireAction ==
  /\ cpc = "idle" /\ actionReady > 0
  /\ actionReady' = actionReady - 1
  /\ cpc' = "consume"
  /\ UNCHANGED <<freeSlots, observationReady, collectorTicks, learnerTicks, headers, lpc,
                 recorded, collectorStream, learnerStream, storage>>

\* waits for the action's event, clones the slot, records consumer-done
ConsumeAction ==
  /\ cpc = "consume"
  /\ IF responseTicks[SlotIndex(consuming)] = consuming
     THEN /\ collectorStream' =
               Append(collectorStream, Operation("clone", consuming, "done", "action",
                                                 Latest("action", consuming)))
          /\ Record("done", consuming)
          /\ doneTicks' = [doneTicks EXCEPT ![SlotIndex(consuming)] = consuming]
          /\ cpc' = "retire"
     ELSE /\ cpc' = "raised"
          /\ UNCHANGED <<collectorStream, recorded, doneTicks>>
  /\ UNCHANGED <<semaphores, collectorTicks, learnerTicks, requestTicks, responseTicks,
                 lpc, learnerStream, storage>>

\* mutant: the response stays in the slot
RetireNothing ==
  /\ cpc = "retire"
  /\ consumedTick' = consuming
  /\ cpc' = "release"
  /\ UNCHANGED <<semaphores, publishedTick, learnerTicks, headers, lpc, recorded,
                 collectorStream, learnerStream, storage>>

RetireAction ==
  /\ cpc = "retire"
  /\ responseTicks' = [responseTicks EXCEPT ![SlotIndex(consuming)] = None]
  /\ consumedTick' = consuming
  /\ cpc' = "release"
  /\ UNCHANGED <<semaphores, publishedTick, learnerTicks, requestTicks, doneTicks, lpc,
                 recorded, collectorStream, learnerStream, storage>>

ReleaseSlot ==
  /\ cpc = "release"
  /\ freeSlots' = freeSlots + 1
  /\ cpc' = "idle"
  /\ UNCHANGED <<observationReady, actionReady, collectorTicks, learnerTicks, headers,
                 lpc, recorded, collectorStream, learnerStream, storage>>
-----------------------------------------------------------------------------
(***************************************************************************)
(* The learner: try_copy_observation_to and publish_action, in turn.       *)
(***************************************************************************)
observing == observationTick + 1
answering == observationTick

AcquireObservation ==
  /\ lpc = "idle" /\ observationReady > 0
  /\ observationReady' = observationReady - 1
  /\ lpc' = "copy"
  /\ UNCHANGED <<freeSlots, actionReady, collectorTicks, learnerTicks, headers, cpc,
                 recorded, collectorStream, learnerStream, storage>>

\* mutant: the copy does not wait for the observation's event
CopyWithoutWait ==
  /\ lpc = "copy"
  /\ learnerStream' = Append(learnerStream, Operation("copy", observing, "none", "none", None))
  /\ observationTick' = observing
  /\ lpc' = "respond"
  /\ UNCHANGED <<semaphores, collectorTicks, actionTick, headers, cpc, recorded,
                 collectorStream, storage>>

CopyObservation ==
  /\ lpc = "copy"
  /\ IF requestTicks[SlotIndex(observing)] = observing
     THEN /\ learnerStream' =
               Append(learnerStream, Operation("copy", observing, "none", "observation",
                                               Latest("observation", observing)))
          /\ observationTick' = observing
          /\ lpc' = "respond"
     ELSE /\ lpc' = "raised"
          /\ UNCHANGED <<learnerStream, observationTick>>
  /\ UNCHANGED <<semaphores, collectorTicks, actionTick, headers, cpc, recorded,
                 collectorStream, storage>>

\* the policy's action overwrites the slot's last one behind its consumer-done event
PublishAction ==
  /\ lpc = "respond"
  /\ IF requestTicks[SlotIndex(answering)] = answering
        /\ responseTicks[SlotIndex(answering)] = None
     THEN /\ learnerStream' =
               Append(learnerStream,
                 IF doneTicks[SlotIndex(answering)] = None
                 THEN Operation("act", answering, "action", "none", None)
                 ELSE Operation("act", answering, "action", "done", Latest("done", answering)))
          /\ Record("action", answering)
          /\ lpc' = "answer"
     ELSE /\ lpc' = "raised"
          /\ UNCHANGED <<learnerStream, recorded>>
  /\ UNCHANGED <<semaphores, collectorTicks, learnerTicks, headers, cpc,
                 collectorStream, storage>>

PublishResponse ==
  /\ lpc = "answer"
  /\ responseTicks' = [responseTicks EXCEPT ![SlotIndex(answering)] = answering]
  /\ actionTick' = answering
  /\ lpc' = "signal"
  /\ UNCHANGED <<semaphores, collectorTicks, observationTick, requestTicks, doneTicks, cpc,
                 recorded, collectorStream, learnerStream, storage>>

\* mutant: the response is stored and nobody is told
SignalNothing ==
  /\ lpc = "signal"
  /\ lpc' = "idle"
  /\ UNCHANGED <<semaphores, collectorTicks, learnerTicks, headers, cpc, recorded,
                 collectorStream, learnerStream, storage>>

SignalAction ==
  /\ lpc = "signal"
  /\ actionReady' = actionReady + 1
  /\ lpc' = "idle"
  /\ UNCHANGED <<freeSlots, observationReady, collectorTicks, learnerTicks, headers, cpc,
                 recorded, collectorStream, learnerStream, storage>>
-----------------------------------------------------------------------------
(***************************************************************************)
(* The device executes each stream in order; an operation starts when the  *)
(* record it waits for has been executed.                                  *)
(***************************************************************************)
host == <<semaphores, collectorTicks, learnerTicks, headers, cpc, lpc, recorded>>

Ready(operation) ==
  operation.waitFor # "none" =>
    fired[operation.waitFor][SlotIndex(operation.tick)] >= operation.after

Execute(operation) ==
  LET slot == SlotIndex(operation.tick)
  IN  /\ observations' = IF operation.op = "observe"
                         THEN [observations EXCEPT ![slot] = operation.tick] ELSE observations
      /\ scratch' = IF operation.op = "copy" THEN observations[slot] ELSE scratch
      /\ actions' = IF operation.op = "act"
                    THEN [actions EXCEPT ![slot] = scratch] ELSE actions
      /\ returned' = IF operation.op = "clone"
                     THEN [tick |-> operation.tick, of |-> actions[slot]] ELSE returned
      /\ fired' = IF operation.event # "none"
                  THEN [fired EXCEPT ![operation.event][slot] = operation.tick] ELSE fired

CollectorDevice ==
  /\ collectorStream # <<>> /\ Ready(Head(collectorStream))
  /\ Execute(Head(collectorStream))
  /\ collectorStream' = Tail(collectorStream)
  /\ UNCHANGED <<host, learnerStream>>

LearnerDevice ==
  /\ learnerStream # <<>> /\ Ready(Head(learnerStream))
  /\ Execute(Head(learnerStream))
  /\ learnerStream' = Tail(learnerStream)
  /\ UNCHANGED <<host, collectorStream>>

Publish == AcquireFreeSlot \/ WriteObservation \/ PublishObservation \/ SignalObservation
Consume == AcquireAction \/ ConsumeAction \/ RetireAction \/ ReleaseSlot
Learner ==
  \/ AcquireObservation \/ CopyObservation \/ PublishAction \/ PublishResponse
  \/ SignalAction

\* the collector was stopped after its last tick, and everything was answered
Finished ==
  /\ consumedTick = MaxTicks - 1 /\ cpc = "idle"
  /\ collectorStream = <<>> /\ learnerStream = <<>>
  /\ UNCHANGED vars

Next == Publish \/ Consume \/ Learner \/ CollectorDevice \/ LearnerDevice \/ Finished

Spec == Init /\ [][Next]_vars

\* Both processes keep running, the collector does not publish for ever when an action
\* waits for it (it publishes a bounded number of observations ahead), and both streams
\* execute what they were given.
Fairness ==
  /\ WF_vars(Publish) /\ WF_vars(Consume) /\ WF_vars(Learner)
  /\ WF_vars(CollectorDevice) /\ WF_vars(LearnerDevice)

FairSpec == Spec /\ Fairness
-----------------------------------------------------------------------------
Ticks == Nat \cup {None}

TypeOK ==
  /\ freeSlots \in 0..Capacity
  /\ observationReady \in 0..Capacity /\ actionReady \in 0..Capacity
  /\ publishedTick \in Ticks /\ consumedTick \in Ticks
  /\ observationTick \in Ticks /\ actionTick \in Ticks
  /\ requestTicks \in [Slots -> Ticks] /\ responseTicks \in [Slots -> Ticks]
  /\ doneTicks \in [Slots -> Ticks]
  /\ cpc \in {"idle", "write", "header", "signal", "consume", "retire", "release", "raised"}
  /\ lpc \in {"idle", "copy", "respond", "answer", "signal", "raised"}

\* The action the collector's stream holds for a tick was computed from the observation
\* of that tick: no slot is rewritten under a copy, on either stream, at any lead of the
\* hosts over the device (the events of try_publish_observation, try_copy_observation_to,
\* publish_action and try_consume_action).
ActionAnswersObservation == returned.of = returned.tick

\* No tick or header check of the ring fires between a collector that publishes ahead
\* and a learner that answers in turn (_require_header, "already published", "action
\* tick mismatch").
NeverRaises == cpc # "raised" /\ lpc # "raised"

\* The four counters, stored by two processes at different moments, are always in the
\* order of the exchange, and publication leads consumption by the capacity at most
\* (_inference_flight_metrics clamps their differences: a violation would not show).
TicksOrdered ==
  /\ consumedTick <= actionTick
  /\ actionTick <= observationTick
  /\ observationTick <= publishedTick
  /\ publishedTick <= consumedTick + Capacity

\* Every published observation is answered and its action consumed.
RequestAnswered ==
  \A tick \in 0..(MaxTicks - 1) : (publishedTick >= tick) ~> (consumedTick >= tick)
=============================================================================
