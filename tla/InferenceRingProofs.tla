------------------------- MODULE InferenceRingProofs -------------------------
(***************************************************************************)
(* Proofs about InferenceRing, for every capacity: the counters stay in    *)
(* order, no tick or header check of the ring fires, and an action answers *)
(* the observation of its tick.                                            *)
(***************************************************************************)
EXTENDS InferenceRing, TLAPS

\* 1 when a process is inside a step, 0 otherwise.
Inside(pc, steps) == IF pc \in steps THEN 1 ELSE 0

\* What the type invariant says of the counters alone.
CounterTypes ==
  /\ freeSlots \in Int /\ observationReady \in Int /\ actionReady \in Int
  /\ publishedTick \in Int /\ consumedTick \in Int
  /\ observationTick \in Int /\ actionTick \in Int
  /\ consumedTick >= None
  /\ requestTicks \in [Slots -> Ticks] /\ responseTicks \in [Slots -> Ticks]
  /\ doneTicks \in [Slots -> Ticks]
  /\ cpc \in {"idle", "write", "header", "signal", "consume", "retire", "release", "raised"}
  /\ lpc \in {"idle", "copy", "respond", "answer", "signal", "raised"}

\* A slot is free, held by the collector before or after its exchange, or in the exchange.
SlotsConserved ==
  freeSlots + Inside(cpc, {"write", "header"}) + Inside(cpc, {"release"})
    + (publishedTick - consumedTick) = Capacity

\* Tokens never run ahead of the ticks they stand for.
TokensBacked ==
  /\ freeSlots >= 0 /\ observationReady >= 0 /\ actionReady >= 0
  /\ observationReady + Inside(lpc, {"copy"}) + Inside(cpc, {"signal"})
       <= publishedTick - observationTick
  /\ actionReady + Inside(lpc, {"signal"}) + Inside(cpc, {"consume", "retire"})
       <= actionTick - consumedTick

\* The learner answers the tick it observed last.
AnswersInTurn ==
  /\ lpc \in {"respond", "answer"} => actionTick = observationTick - 1
  /\ lpc \in {"idle", "copy", "signal"} => actionTick = observationTick
  /\ actionTick <= observationTick

\* The headers of the ticks in the exchange.
Headers ==
  /\ \A t \in (consumedTick + 1)..publishedTick : requestTicks[SlotIndex(t)] = t
  /\ \A t \in (consumedTick + 1)..actionTick : responseTicks[SlotIndex(t)] = t
  /\ \A t \in (actionTick + 1)..(consumedTick + Capacity) : responseTicks[SlotIndex(t)] = None

IInv ==
  CounterTypes /\ SlotsConserved /\ TokensBacked /\ AnswersInTurn /\ Headers /\ NeverRaises
-----------------------------------------------------------------------------
\* Ticks less than Capacity apart use different slots.
LEMMA SlotsApart ==
  ASSUME NEW a \in Nat, NEW b \in Nat, a < b, b - a < Capacity
  PROVE  SlotIndex(a) # SlotIndex(b)
<1> USE RingAssumption
<1> DEFINE qa == a \div Capacity
           qb == b \div Capacity
<1>1. /\ qa \in Int /\ a = Capacity * qa + (a % Capacity) /\ a % Capacity \in 0..(Capacity - 1)
      /\ qb \in Int /\ b = Capacity * qb + (b % Capacity) /\ b % Capacity \in 0..(Capacity - 1)
  OBVIOUS
<1>2. SUFFICES ASSUME a % Capacity = b % Capacity PROVE FALSE
  BY DEF SlotIndex
<1>3. b - a = Capacity * (qb - qa)
  BY <1>1, <1>2
<1>4. qb - qa >= 1
  <2>1. SUFFICES ASSUME qb - qa <= 0 PROVE FALSE
    BY <1>1
  <2>2. Capacity * (qb - qa) <= 0
    BY <2>1, <1>1
  <2>3. QED
    BY <2>2, <1>3
<1>5. Capacity * (qb - qa) >= Capacity
  BY <1>4, <1>1
<1>6. QED
  BY <1>3, <1>5

\* A tick and the one a whole ring later share their slot.
LEMMA SlotReused ==
  ASSUME NEW a \in Nat
  PROVE  SlotIndex(a + Capacity) = SlotIndex(a)
<1> USE RingAssumption
<1> DEFINE qa == a \div Capacity
           qb == (a + Capacity) \div Capacity
           ra == a % Capacity
           rb == (a + Capacity) % Capacity
<1>1. /\ qa \in Int /\ a = Capacity * qa + ra /\ ra \in 0..(Capacity - 1)
      /\ qb \in Int /\ a + Capacity = Capacity * qb + rb /\ rb \in 0..(Capacity - 1)
  OBVIOUS
<1> HIDE DEF qa, qb, ra, rb
<1>2. Capacity * (qb - qa - 1) = ra - rb
  BY <1>1
<1>3. ra - rb < Capacity /\ ra - rb > -Capacity
  BY <1>1
<1>4. qb - qa - 1 < 1
  <2>1. SUFFICES ASSUME qb - qa - 1 >= 1 PROVE FALSE
    BY <1>1
  <2>2. Capacity * (qb - qa - 1) >= Capacity
    BY <2>1, <1>1
  <2>3. QED
    BY <2>2, <1>2, <1>3, <1>1
<1>5. qb - qa - 1 > -1
  <2>1. SUFFICES ASSUME qb - qa - 1 <= -1 PROVE FALSE
    BY <1>1
  <2>2. Capacity * (qb - qa - 1) <= -Capacity
    BY <2>1, <1>1
  <2>3. QED
    BY <2>2, <1>2, <1>3, <1>1
<1>6. qb - qa - 1 = 0
  BY <1>4, <1>5, <1>1
<1>7. ra = rb
  BY <1>2, <1>6, <1>1
<1>8. QED
  BY <1>7 DEF SlotIndex, ra, rb

LEMMA SlotIsSlot == ASSUME NEW t \in Nat PROVE SlotIndex(t) \in Slots
BY RingAssumption DEF SlotIndex, Slots
-----------------------------------------------------------------------------
\* What the conservation laws give of the counters.
LEMMA Order ==
  ASSUME CounterTypes, SlotsConserved, TokensBacked, AnswersInTurn
  PROVE  TicksOrdered
BY DEF CounterTypes, SlotsConserved, TokensBacked, AnswersInTurn, TicksOrdered, Inside

LEMMA InitInv == Init => IInv
<1> SUFFICES ASSUME Init PROVE IInv
  OBVIOUS
<1> USE RingAssumption DEF Init, None
<1>1. CounterTypes
  BY DEF CounterTypes, Ticks
<1>2. SlotsConserved /\ TokensBacked /\ AnswersInTurn /\ NeverRaises
  BY DEF SlotsConserved, TokensBacked, AnswersInTurn, NeverRaises, Inside
<1>3. Headers
  <2>1. \A t \in 0..(Capacity - 1) : SlotIndex(t) \in Slots
    BY SlotIsSlot
  <2>2. QED
    BY <2>1 DEF Headers
<1>4. QED
  BY <1>1, <1>2, <1>3 DEF IInv

\* The counters, on which the order rests, without the headers.
CountInv == CounterTypes /\ SlotsConserved /\ TokensBacked /\ AnswersInTurn /\ NeverRaises

\* The checks of the three operations that look at a header pass.
LEMMA ChecksPass ==
  ASSUME IInv
  PROVE  /\ cpc = "consume" => responseTicks[SlotIndex(consuming)] = consuming
         /\ lpc = "copy" => requestTicks[SlotIndex(observing)] = observing
         /\ lpc = "respond" => /\ requestTicks[SlotIndex(answering)] = answering
                               /\ responseTicks[SlotIndex(answering)] = None
<1> USE RingAssumption
<1>1. TicksOrdered /\ CounterTypes
  BY Order DEF IInv
<1>2. ASSUME cpc = "consume" PROVE responseTicks[SlotIndex(consuming)] = consuming
  <2>1. consuming \in (consumedTick + 1)..actionTick
    BY <1>1, <1>2 DEF IInv, CounterTypes, TokensBacked, Inside, consuming
  <2>2. QED
    BY <2>1 DEF IInv, Headers
<1>3. ASSUME lpc = "copy" PROVE requestTicks[SlotIndex(observing)] = observing
  <2>1. observing \in (consumedTick + 1)..publishedTick
    BY <1>1, <1>3 DEF IInv, CounterTypes, TokensBacked, TicksOrdered, Inside, observing
  <2>2. QED
    BY <2>1 DEF IInv, Headers
<1>4. ASSUME lpc = "respond"
      PROVE  /\ requestTicks[SlotIndex(answering)] = answering
             /\ responseTicks[SlotIndex(answering)] = None
  <2>1. answering \in (consumedTick + 1)..publishedTick
    BY <1>1, <1>4 DEF IInv, CounterTypes, AnswersInTurn, TicksOrdered, answering
  <2>2. answering \in (actionTick + 1)..(consumedTick + Capacity)
    BY <1>1, <1>4 DEF IInv, CounterTypes, AnswersInTurn, TicksOrdered, answering
  <2>3. QED
    BY <2>1, <2>2 DEF IInv, Headers
<1>5. QED
  BY <1>2, <1>3, <1>4
-----------------------------------------------------------------------------
\* The counting part is preserved by every step.
LEMMA CountStep ==
  ASSUME IInv, [Next]_vars
  PROVE  CountInv'
<1> USE DEF Inside, CounterTypes, SlotsConserved, TokensBacked, AnswersInTurn, NeverRaises
<1> USE RingAssumption
<1>1. CountInv /\ TicksOrdered
  BY Order DEF IInv, CountInv
<1> USE <1>1 DEF CountInv, TicksOrdered, None
<1>2. CASE Publish
  <2>1. CASE AcquireFreeSlot
    BY <2>1 DEF AcquireFreeSlot, semaphores, collectorTicks, learnerTicks, headers
  <2>2. CASE WriteObservation
    BY <2>2 DEF WriteObservation, semaphores, collectorTicks, learnerTicks, publishing, Ticks
  <2>3. CASE PublishObservation
    <3>1. publishing \in Ticks
      BY DEF publishing, Ticks
    <3>2. requestTicks' \in [Slots -> Ticks]
      BY <2>3, <3>1 DEF PublishObservation
    <3>3. QED
      BY <2>3, <3>2 DEF PublishObservation, semaphores, learnerTicks, publishing
  <2>4. CASE SignalObservation
    BY <2>4 DEF SignalObservation, collectorTicks, learnerTicks, headers
  <2>5. QED
    BY <1>2, <2>1, <2>2, <2>3, <2>4 DEF Publish
<1>3. CASE Consume
  <2>1. CASE AcquireAction
    BY <2>1 DEF AcquireAction, collectorTicks, learnerTicks, headers
  <2>2. CASE ConsumeAction
    <3>1. responseTicks[SlotIndex(consuming)] = consuming
      BY <2>2, ChecksPass DEF ConsumeAction
    <3>2. consuming \in Ticks
      BY DEF consuming, Ticks
    <3>3. QED
      BY <2>2, <3>1, <3>2 DEF ConsumeAction, semaphores, collectorTicks, learnerTicks
  <2>3. CASE RetireAction
    <3>1. responseTicks' \in [Slots -> Ticks]
      BY <2>3 DEF RetireAction, Ticks
    <3>2. QED
      BY <2>3, <3>1 DEF RetireAction, semaphores, learnerTicks, consuming
  <2>4. CASE ReleaseSlot
    BY <2>4 DEF ReleaseSlot, collectorTicks, learnerTicks, headers
  <2>5. QED
    BY <1>3, <2>1, <2>2, <2>3, <2>4 DEF Consume
<1>4. CASE Learner
  <2>1. CASE AcquireObservation
    BY <2>1 DEF AcquireObservation, collectorTicks, learnerTicks, headers
  <2>2. CASE CopyObservation
    <3>1. requestTicks[SlotIndex(observing)] = observing
      BY <2>2, ChecksPass DEF CopyObservation
    <3>2. QED
      BY <2>2, <3>1 DEF CopyObservation, semaphores, collectorTicks, headers, observing
  <2>3. CASE PublishAction
    <3>1. /\ requestTicks[SlotIndex(answering)] = answering
          /\ responseTicks[SlotIndex(answering)] = None
      BY <2>3, ChecksPass DEF PublishAction
    <3>2. QED
      BY <2>3, <3>1 DEF PublishAction, semaphores, collectorTicks, learnerTicks, headers
  <2>4. CASE PublishResponse
    <3>1. answering \in Ticks
      BY DEF answering, Ticks
    <3>2. responseTicks' \in [Slots -> Ticks]
      BY <2>4, <3>1 DEF PublishResponse
    <3>3. QED
      BY <2>4, <3>2 DEF PublishResponse, semaphores, collectorTicks, answering
  <2>5. CASE SignalAction
    BY <2>5 DEF SignalAction, collectorTicks, learnerTicks, headers
  <2>6. QED
    BY <1>4, <2>1, <2>2, <2>3, <2>4, <2>5 DEF Learner
<1>5. CASE CollectorDevice \/ LearnerDevice \/ Finished \/ UNCHANGED vars
  BY <1>5 DEF CollectorDevice, LearnerDevice, Finished, vars, host, semaphores, collectorTicks,
    learnerTicks, headers
<1>6. QED
  BY <1>2, <1>3, <1>4, <1>5 DEF Next
-----------------------------------------------------------------------------
\* The headers a tick of the exchange relies on are preserved by every step: a slot is
\* rewritten for a tick only when the last tick that used it has been consumed.
LEMMA HeaderStep ==
  ASSUME IInv, [Next]_vars
  PROVE  Headers'
<1> USE RingAssumption DEF None
<1>1. CountInv /\ TicksOrdered /\ Headers
  BY Order DEF IInv, CountInv
<1>2. /\ publishedTick \in Int /\ consumedTick \in Int /\ actionTick \in Int
      /\ observationTick \in Int /\ consumedTick >= -1
      /\ requestTicks \in [Slots -> Ticks] /\ responseTicks \in [Slots -> Ticks]
  BY <1>1 DEF CountInv, CounterTypes
<1>3. UNCHANGED <<publishedTick, consumedTick, actionTick, requestTicks, responseTicks>>
      => Headers'
  BY <1>1 DEF Headers
<1>4. CASE WriteObservation
  <2>1. publishedTick + 1 - consumedTick <= Capacity
    BY <1>1, <1>2, <1>4
    DEF WriteObservation, CountInv, CounterTypes, SlotsConserved, TokensBacked, Inside
  <2>2. ASSUME NEW t \in (consumedTick + 1)..publishedTick
        PROVE  SlotIndex(t) # SlotIndex(publishing) /\ SlotIndex(t) \in Slots
    BY <1>1, <1>2, <2>1, <2>2, SlotsApart, SlotIsSlot DEF publishing
  <2>3. \A t \in (consumedTick + 1)..publishedTick : requestTicks'[SlotIndex(t)] = t
    BY <1>1, <1>2, <1>4, <2>2 DEF WriteObservation, Headers
  <2>4. QED
    BY <1>1, <1>4, <2>3 DEF WriteObservation, Headers, collectorTicks, learnerTicks
<1>5. CASE PublishObservation
  <2>1. publishedTick + 1 - consumedTick <= Capacity /\ publishing \in Nat
    BY <1>1, <1>2, <1>5
    DEF PublishObservation, CountInv, CounterTypes, SlotsConserved, TokensBacked, Inside,
        publishing, TicksOrdered
  <2>2. ASSUME NEW t \in (consumedTick + 1)..publishedTick
        PROVE  SlotIndex(t) # SlotIndex(publishing) /\ SlotIndex(t) \in Slots
    BY <1>1, <1>2, <2>1, <2>2, SlotsApart, SlotIsSlot DEF publishing
  <2>3. SlotIndex(publishing) \in Slots
    BY <2>1, SlotIsSlot
  <2>4. \A t \in (consumedTick + 1)..publishing : requestTicks'[SlotIndex(t)] = t
    BY <1>1, <1>2, <1>5, <2>1, <2>2, <2>3 DEF PublishObservation, Headers, publishing
  <2>5. QED
    BY <1>1, <1>5, <2>4 DEF PublishObservation, Headers, learnerTicks
<1>6. CASE RetireAction
  <2>1. consuming \in Nat /\ consuming <= actionTick
    BY <1>1, <1>2, <1>6
    DEF RetireAction, CountInv, CounterTypes, TokensBacked, Inside, consuming
  <2>2. ASSUME NEW t \in (consuming + 1)..(consumedTick + Capacity)
        PROVE  SlotIndex(t) # SlotIndex(consuming) /\ SlotIndex(t) \in Slots
    BY <1>2, <2>1, <2>2, SlotsApart, SlotIsSlot DEF consuming
  <2>3. SlotIndex(consuming + Capacity) = SlotIndex(consuming)
        /\ SlotIndex(consuming) \in Slots
    BY <2>1, SlotReused, SlotIsSlot
  <2>4. actionTick <= consumedTick + Capacity
    BY <1>1, <1>2 DEF TicksOrdered
  <2>5. \A t \in (consuming + 1)..publishedTick : requestTicks'[SlotIndex(t)] = t
    BY <1>1, <1>2, <1>6, <2>1 DEF RetireAction, Headers, consuming
  <2>6. \A t \in (consuming + 1)..actionTick : responseTicks'[SlotIndex(t)] = t
    BY <1>1, <1>2, <1>6, <2>1, <2>2, <2>4 DEF RetireAction, Headers, consuming
  <2>7. ASSUME NEW t \in (actionTick + 1)..(consuming + Capacity)
        PROVE  responseTicks'[SlotIndex(t)] = None
    <3>1. CASE t = consuming + Capacity
      BY <1>2, <1>6, <2>3, <3>1 DEF RetireAction
    <3>2. CASE t # consuming + Capacity
      <4>1. /\ t \in (consuming + 1)..(consumedTick + Capacity)
            /\ t \in (actionTick + 1)..(consumedTick + Capacity)
        BY <1>2, <2>1, <2>7, <3>2 DEF consuming
      <4>2. QED
        BY <1>1, <1>2, <1>6, <2>2, <4>1 DEF RetireAction, Headers
    <3>3. QED
      BY <3>1, <3>2
  <2>8. publishedTick' = publishedTick /\ actionTick' = actionTick /\ consumedTick' = consuming
    BY <1>6 DEF RetireAction, learnerTicks
  <2>9. QED
    BY <2>5, <2>6, <2>7, <2>8 DEF Headers
<1>7. CASE PublishResponse
  <2>1. /\ answering = actionTick + 1 /\ answering \in Nat /\ answering > consumedTick
        /\ answering <= consumedTick + Capacity
    BY <1>1, <1>2, <1>7 DEF PublishResponse, CountInv, AnswersInTurn, TicksOrdered, answering
  <2>2. ASSUME NEW t \in (consumedTick + 1)..actionTick
        PROVE  SlotIndex(t) # SlotIndex(answering) /\ SlotIndex(t) \in Slots
    BY <1>2, <2>1, <2>2, SlotsApart, SlotIsSlot
  <2>3. ASSUME NEW t \in (answering + 1)..(consumedTick + Capacity)
        PROVE  SlotIndex(t) # SlotIndex(answering) /\ SlotIndex(t) \in Slots
    BY <1>2, <2>1, <2>3, SlotsApart, SlotIsSlot
  <2>4. SlotIndex(answering) \in Slots
    BY <2>1, SlotIsSlot
  <2>5. \A t \in (consumedTick + 1)..answering : responseTicks'[SlotIndex(t)] = t
    BY <1>1, <1>2, <1>7, <2>1, <2>2, <2>4 DEF PublishResponse, Headers
  <2>6. \A t \in (answering + 1)..(consumedTick + Capacity) : responseTicks'[SlotIndex(t)] = None
    BY <1>1, <1>2, <1>7, <2>1, <2>3 DEF PublishResponse, Headers
  <2>7. /\ publishedTick' = publishedTick /\ actionTick' = answering
        /\ consumedTick' = consumedTick /\ requestTicks' = requestTicks
    BY <1>7 DEF PublishResponse, collectorTicks
  <2>8. QED
    BY <1>1, <2>5, <2>6, <2>7 DEF Headers
<1>8. CASE AcquireFreeSlot \/ SignalObservation
  BY <1>3, <1>8 DEF AcquireFreeSlot, SignalObservation, collectorTicks, learnerTicks, headers
<1>9. CASE AcquireAction \/ ConsumeAction \/ ReleaseSlot
  BY <1>3, <1>9 DEF AcquireAction, ConsumeAction, ReleaseSlot, collectorTicks, learnerTicks, headers
<1>10. CASE AcquireObservation \/ CopyObservation \/ PublishAction \/ SignalAction
  BY <1>3, <1>10
  DEF AcquireObservation, CopyObservation, PublishAction, SignalAction, collectorTicks, learnerTicks,
      headers
<1>11. CASE CollectorDevice \/ LearnerDevice \/ Finished \/ UNCHANGED vars
  BY <1>3, <1>11 DEF CollectorDevice, LearnerDevice, Finished, vars, host, collectorTicks,
    learnerTicks, headers
<1>12. QED
  BY <1>4, <1>5, <1>6, <1>7, <1>8, <1>9, <1>10, <1>11 DEF Next, Publish, Consume, Learner

LEMMA IInvInvariant == Spec => []IInv
<1>1. IInv /\ [Next]_vars => IInv'
  BY CountStep, HeaderStep DEF IInv, CountInv
<1>2. QED
  BY InitInv, <1>1, PTL DEF Spec
-----------------------------------------------------------------------------
\* consumed <= answered <= observed <= published, and never more than the capacity apart,
\* at any moment of either process's step.
THEOREM CountersOrdered == Spec => []TicksOrdered
<1>1. IInv => TicksOrdered
  BY Order DEF IInv
<1>2. QED
  BY IInvInvariant, <1>1, PTL

\* No tick or header check of the ring fires, for any capacity: the tokens a process holds
\* imply that the header it looks at is the one it expects.
THEOREM ChecksNeverFire == Spec => []NeverRaises
<1>1. IInv => NeverRaises
  BY DEF IInv
<1>2. QED
  BY IInvInvariant, <1>1, PTL

\* The counters and headers have their types, and no semaphore exceeds the capacity.
THEOREM TypeCorrect == Spec => []TypeOK
<1>1. IInv => TypeOK
  <2>1. SUFFICES ASSUME IInv PROVE TypeOK
    OBVIOUS
  <2>2. CountInv /\ TicksOrdered
    BY <2>1, Order DEF IInv, CountInv
  <2>3. QED
    BY <2>2, RingAssumption
    DEF CountInv, CounterTypes, SlotsConserved, TokensBacked, TicksOrdered, TypeOK, Ticks, Inside, None,
        AnswersInTurn
<1>2. QED
  BY IInvInvariant, <1>1, PTL
-----------------------------------------------------------------------------
(***************************************************************************)
(* The device.  Each stream holds the operations its host enqueued and the *)
(* device has not executed.  The learner's alternate, so the number it has *)
(* executed tells which they are; the collector's do not, and a tick's     *)
(* operation is executed when it was enqueued and is no longer queued.     *)
(***************************************************************************)
Operations == [op : {"observe", "clone", "copy", "act"}, tick : Nat,
               event : Events \cup {"none"}, waitFor : Events \cup {"none"}, after : Int]

\* The operations enqueued so far of each kind are those of the ticks below these.
NObserve == publishedTick + 1 + Inside(cpc, {"header"})
NClone == consumedTick + 1 + Inside(cpc, {"retire"})
NCopy == observationTick + 1
NAct == actionTick + 1 + Inside(lpc, {"answer"})

Queued(op, t) ==
  \E i \in 1..Len(collectorStream) : collectorStream[i].op = op /\ collectorStream[i].tick = t
ObserveDone(t) == t \in 0..(NObserve - 1) /\ ~Queued("observe", t)
CloneDone(t) == t \in 0..(NClone - 1) /\ ~Queued("clone", t)
\* Operations the learner's stream has executed; copy and act of tick t are its 2t'th and next.
Done == NCopy + NAct - Len(learnerStream)
ActDone(t) == 2 * t + 1 < Done

IsObserve(o, n) ==
  o.op = "observe" /\ o.event = "observation" /\ o.waitFor = "none" /\ o.tick \in 0..(n - 1)
IsClone(o, n) ==
  /\ o.op = "clone" /\ o.event = "done" /\ o.tick \in 0..(n - 1)
  /\ o.waitFor = "action" /\ o.after = o.tick
IsCopy(o, d) ==
  /\ o.op = "copy" /\ o.event = "none" /\ 2 * o.tick = d
  /\ o.waitFor = "observation" /\ o.after = o.tick
\* an action overwrites its slot behind the clone of the action before it there
IsAct(o, d) ==
  /\ o.op = "act" /\ o.event = "action" /\ 2 * o.tick + 1 = d
  /\ o.tick < Capacity \/ (o.waitFor = "done" /\ o.after = o.tick - Capacity)

DeviceTypes ==
  /\ collectorStream \in Seq(Operations) /\ learnerStream \in Seq(Operations)
  /\ recorded \in [Events -> [Slots -> Ticks]] /\ fired \in [Events -> [Slots -> Ticks]]
  /\ observations \in [Slots -> Ticks] /\ actions \in [Slots -> Ticks] /\ scratch \in Ticks

CollectorOrder ==
  \A i, j \in 1..Len(collectorStream) : i < j =>
    /\ collectorStream[i].op = collectorStream[j].op =>
         collectorStream[i].tick < collectorStream[j].tick
    /\ collectorStream[i].op = "observe" /\ collectorStream[j].op = "clone" =>
         collectorStream[i].tick < collectorStream[j].tick + Capacity
CollectorQueue ==
  /\ \A i \in 1..Len(collectorStream) :
       IsObserve(collectorStream[i], NObserve) \/ IsClone(collectorStream[i], NClone)
  /\ CollectorOrder
LearnerQueue ==
  \A i \in 1..Len(learnerStream) :
    IsCopy(learnerStream[i], Done + i - 1) \/ IsAct(learnerStream[i], Done + i - 1)

\* The latest record of a slot's event is that of the last tick enqueued there.
LatestRecords ==
  /\ \A t \in 0..(NObserve - 1) :
       t >= NObserve - Capacity => recorded["observation"][SlotIndex(t)] = t
  /\ \A t \in 0..(NAct - 1) : t >= NAct - Capacity => recorded["action"][SlotIndex(t)] = t
  /\ \A t \in 0..(NClone - 1) :
       t >= NClone - Capacity =>
         recorded["done"][SlotIndex(t)] = t /\ doneTicks[SlotIndex(t)] = t

\* An event that has fired says which operations are executed.
FiredObserve ==
  \A s \in Slots : fired["observation"][s] # None =>
    SlotIndex(fired["observation"][s]) = s /\ ObserveDone(fired["observation"][s])
FiredAct ==
  \A s \in Slots : fired["action"][s] # None =>
    SlotIndex(fired["action"][s]) = s /\ ActDone(fired["action"][s])
FiredClone ==
  \A s \in Slots : fired["done"][s] # None => \A t \in 0..fired["done"][s] : CloneDone(t)

\* What the waits achieve: an answer is cloned when it is there, and a slot is rewritten
\* when its last answer has been cloned.
ExecutionOrder ==
  /\ \A t \in Nat : CloneDone(t) => ActDone(t)
  /\ \A u \in Nat : ObserveDone(u) => \A t \in 0..(u - Capacity) : CloneDone(t)
  /\ \A u \in Nat : ActDone(u) => \A t \in 0..(u - Capacity) : CloneDone(t)

Contents ==
  /\ observations = fired["observation"] /\ actions = fired["action"]
  /\ Done = 2 * scratch + 1 \/ Done = 2 * scratch + 2

DeviceInv ==
  /\ DeviceTypes /\ CollectorQueue /\ LearnerQueue /\ LatestRecords
  /\ FiredObserve /\ FiredAct /\ FiredClone /\ ExecutionOrder /\ Contents
  /\ ActionAnswersObservation
-----------------------------------------------------------------------------
LEMMA Appended ==
  ASSUME NEW S, NEW s \in Seq(S), NEW x \in S
  PROVE  /\ Append(s, x) \in Seq(S) /\ Len(Append(s, x)) = Len(s) + 1
         /\ \A i \in 1..Len(s) : Append(s, x)[i] = s[i]
         /\ Append(s, x)[Len(s) + 1] = x
OBVIOUS

LEMMA Popped ==
  ASSUME NEW S, NEW s \in Seq(S), s # <<>>
  PROVE  /\ Head(s) = s[1] /\ Len(s) \in Nat /\ Len(s) >= 1 /\ s[1] \in S
         /\ Tail(s) \in Seq(S) /\ Len(Tail(s)) = Len(s) - 1
         /\ \A i \in 1..(Len(s) - 1) : Tail(s)[i] = s[i + 1]
OBVIOUS

\* Different ticks of one slot are at least a ring apart.
LEMMA SameSlot ==
  ASSUME NEW t \in Nat, NEW u \in Nat, SlotIndex(t) = SlotIndex(u), t < u
  PROVE  u >= t + Capacity
BY SlotsApart, RingAssumption

\* How far the enqueued operations of the four kinds are apart.
LEMMA Enqueued ==
  ASSUME IInv
  PROVE  /\ NObserve \in Nat /\ NClone \in Nat /\ NCopy \in Nat /\ NAct \in Nat
         /\ NObserve <= consumedTick + 1 + Capacity /\ consumedTick + 1 <= NClone
         /\ NClone <= NAct /\ NAct <= NCopy /\ NCopy <= NObserve
         /\ cpc = "write" => NObserve = publishing /\ publishing <= consumedTick + Capacity
         /\ cpc = "consume" => NClone = consuming /\ consuming < NAct
         /\ lpc = "copy" => NCopy = observing /\ observing < NObserve /\ NAct = observing
         /\ lpc = "respond" => NAct = answering /\ NCopy = answering + 1
BY Order, RingAssumption
DEF IInv, CounterTypes, SlotsConserved, TokensBacked, AnswersInTurn, TicksOrdered, Inside, None,
    NObserve, NClone, NCopy, NAct, publishing, consuming, observing, answering

LEMMA DeviceInit == Init => DeviceInv
<1> SUFFICES ASSUME Init PROVE DeviceInv
  OBVIOUS
<1> USE DEF None
<1>1. /\ collectorStream = <<>> /\ learnerStream = <<>>
      /\ recorded = [e \in Events |-> [s \in Slots |-> None]]
      /\ fired = [e \in Events |-> [s \in Slots |-> None]]
      /\ observations = [s \in Slots |-> None] /\ actions = [s \in Slots |-> None]
      /\ scratch = None /\ returned.of = returned.tick
  BY DEF Init
<1>2. NObserve = 0 /\ NClone = 0 /\ NCopy = 0 /\ NAct = 0
  BY DEF Init, NObserve, NClone, NCopy, NAct, Inside
<1>3. Len(collectorStream) = 0 /\ Len(learnerStream) = 0 /\ Done = 0
  <2>1. Len(collectorStream) = 0 /\ Len(learnerStream) = 0
    BY <1>1
  <2> QED
    BY <1>2, <2>1 DEF Done
<1>4. DeviceTypes
  BY <1>1 DEF DeviceTypes, Ticks
<1>5. CollectorQueue /\ LearnerQueue
  BY <1>3 DEF CollectorQueue, CollectorOrder, LearnerQueue
<1>6. LatestRecords
  BY <1>2 DEF LatestRecords
<1>7. FiredObserve /\ FiredAct /\ FiredClone
  BY <1>1 DEF FiredObserve, FiredAct, FiredClone, Events
<1>8. ExecutionOrder
  BY <1>2, <1>3 DEF ExecutionOrder, CloneDone, ObserveDone, ActDone
<1>9. Contents
  BY <1>1, <1>3 DEF Contents, Events
<1> QED
  BY <1>1, <1>4, <1>5, <1>6, <1>7, <1>8, <1>9 DEF DeviceInv, ActionAnswersObservation

\* The steps that enqueue nothing and execute nothing.
QuietStep ==
  /\ UNCHANGED <<collectorStream, learnerStream, recorded, doneTicks, fired, observations,
                 actions, scratch, returned>>
  /\ NObserve' = NObserve /\ NClone' = NClone /\ NCopy' = NCopy /\ NAct' = NAct

LEMMA DeviceSteps ==
  ASSUME IInv, [Next]_vars
  PROVE  \/ WriteObservation \/ ConsumeAction \/ CopyObservation \/ PublishAction
         \/ CollectorDevice \/ LearnerDevice \/ QuietStep
<1>0. CounterTypes
  BY DEF IInv
<1> USE <1>0 DEF CounterTypes, QuietStep, NObserve, NClone, NCopy, NAct, Inside, storage, headers,
        semaphores, collectorTicks, learnerTicks
<1>1. CASE AcquireFreeSlot \/ PublishObservation \/ SignalObservation
  BY <1>1 DEF AcquireFreeSlot, PublishObservation, SignalObservation, publishing
<1>2. CASE AcquireAction \/ RetireAction \/ ReleaseSlot
  BY <1>2 DEF AcquireAction, RetireAction, ReleaseSlot, consuming
<1>3. CASE AcquireObservation \/ PublishResponse \/ SignalAction
  <2>1. CASE PublishResponse
    <3>1. actionTick = observationTick - 1
      BY <2>1 DEF PublishResponse, IInv, AnswersInTurn
    <3> QED
      BY <2>1, <3>1 DEF PublishResponse, answering
  <2> QED
    BY <1>3, <2>1 DEF AcquireObservation, SignalAction
<1>4. CASE Finished \/ UNCHANGED vars
  BY <1>4 DEF Finished, vars
<1> QED
  BY <1>1, <1>2, <1>3, <1>4 DEF Next, Publish, Consume, Learner

LEMMA DeviceQuiet == ASSUME DeviceInv, QuietStep PROVE DeviceInv'
<1>1. Done' = Done
  BY DEF QuietStep, Done
<1>2. \A t : /\ ObserveDone(t)' = ObserveDone(t) /\ CloneDone(t)' = CloneDone(t)
             /\ ActDone(t)' = ActDone(t)
  BY <1>1 DEF QuietStep, ObserveDone, CloneDone, ActDone, Queued
<1>3. DeviceTypes' /\ CollectorQueue' /\ LearnerQueue'
  BY <1>1 DEF DeviceInv, QuietStep, DeviceTypes, CollectorQueue, CollectorOrder, LearnerQueue
<1>4. LatestRecords' /\ Contents' /\ ActionAnswersObservation'
  BY <1>1 DEF DeviceInv, QuietStep, LatestRecords, Contents, ActionAnswersObservation
<1>5. FiredObserve' /\ FiredAct' /\ FiredClone' /\ ExecutionOrder'
  BY <1>2 DEF DeviceInv, QuietStep, FiredObserve, FiredAct, FiredClone, ExecutionOrder
<1> QED
  BY <1>3, <1>4, <1>5 DEF DeviceInv
-----------------------------------------------------------------------------
\* The collector's stream with one operation more: what is executed stays what it was.
LEMMA CollectorEnqueues ==
  ASSUME DeviceInv, NEW o \in Operations, collectorStream' = Append(collectorStream, o),
         NObserve \in Nat, NClone \in Nat,
         UNCHANGED <<learnerStream, fired, observations, actions, scratch, returned>>,
         NCopy' = NCopy, NAct' = NAct,
         \/ /\ NObserve' = NObserve + 1 /\ NClone' = NClone
            /\ o.op = "observe" /\ o.event = "observation" /\ o.waitFor = "none"
            /\ o.tick = NObserve
         \/ /\ NObserve' = NObserve /\ NClone' = NClone + 1
            /\ o.op = "clone" /\ o.event = "done" /\ o.waitFor = "action" /\ o.tick = NClone
            /\ o.after = o.tick /\ NObserve <= NClone + Capacity
  PROVE  /\ collectorStream' \in Seq(Operations)
         /\ CollectorQueue' /\ LearnerQueue' /\ Contents' /\ ActionAnswersObservation'
         /\ FiredObserve' /\ FiredAct' /\ FiredClone' /\ ExecutionOrder'
<1>1. collectorStream \in Seq(Operations) /\ CollectorQueue
  BY DEF DeviceInv, DeviceTypes
<1> DEFINE n == Len(collectorStream)
<1>2. /\ collectorStream' \in Seq(Operations) /\ Len(collectorStream') = n + 1 /\ n \in Nat
      /\ \A i \in 1..n : collectorStream'[i] = collectorStream[i]
      /\ collectorStream'[n + 1] = o
  BY <1>1, Appended
<1>3. \A i \in 1..Len(collectorStream') : i \in 1..n \/ i = n + 1
  BY <1>2
<1>4. Done' = Done
  BY DEF Done
<1>5. \A op, t : Queued(op, t)' <=> Queued(op, t) \/ (op = o.op /\ t = o.tick)
  <2> TAKE op, t
  <2>1. ASSUME Queued(op, t)' PROVE Queued(op, t) \/ (op = o.op /\ t = o.tick)
    BY <1>2, <1>3, <2>1 DEF Queued
  <2>2. ASSUME Queued(op, t) PROVE Queued(op, t)'
    <3>1. PICK i \in 1..n : collectorStream[i].op = op /\ collectorStream[i].tick = t
      BY <2>2 DEF Queued
    <3>2. i \in 1..(n + 1) /\ collectorStream'[i] = collectorStream[i]
      BY <1>2
    <3> QED
      BY <1>2, <3>1, <3>2 DEF Queued
  <2>3. ASSUME op = o.op, t = o.tick PROVE Queued(op, t)'
    <3>1. n + 1 \in 1..(n + 1)
      BY <1>2
    <3> QED
      BY <1>2, <2>3, <3>1 DEF Queued
  <2> QED
    BY <2>1, <2>2, <2>3
<1>6. \A t : ObserveDone(t)' <=> ObserveDone(t)
  BY <1>5 DEF ObserveDone
<1>7. \A t : CloneDone(t)' <=> CloneDone(t)
  BY <1>5 DEF CloneDone
<1>8. \A t : ActDone(t)' <=> ActDone(t)
  BY <1>4 DEF ActDone
<1>9. CollectorQueue'
  <2>1. ASSUME NEW i \in 1..Len(collectorStream')
        PROVE  \/ IsObserve(collectorStream'[i], NObserve')
               \/ IsClone(collectorStream'[i], NClone')
    <3>1. CASE i \in 1..n
      BY <1>1, <1>2, <3>1 DEF CollectorQueue, IsObserve, IsClone
    <3>2. CASE i = n + 1
      BY <1>2, <3>2 DEF IsObserve, IsClone
    <3> QED
      BY <1>3, <3>1, <3>2
  <2>2. ASSUME NEW i \in 1..n
        PROVE  /\ collectorStream[i].op = o.op => collectorStream[i].tick < o.tick
               /\ collectorStream[i].op = "observe" /\ o.op = "clone" =>
                    collectorStream[i].tick < o.tick + Capacity
    BY <1>1, RingAssumption, SMTT(30) DEF CollectorQueue, IsObserve, IsClone
  <2>3. CollectorOrder'
    <3> SUFFICES ASSUME NEW i \in 1..Len(collectorStream'), NEW j \in 1..Len(collectorStream'),
                        i < j
                 PROVE  /\ collectorStream'[i].op = collectorStream'[j].op =>
                             collectorStream'[i].tick < collectorStream'[j].tick
                        /\ collectorStream'[i].op = "observe" /\ collectorStream'[j].op = "clone"
                             => collectorStream'[i].tick < collectorStream'[j].tick + Capacity
      BY DEF CollectorOrder
    <3>1. i \in 1..n
      BY <1>2
    <3>2. CASE j \in 1..n
      BY <1>1, <1>2, <3>1, <3>2 DEF CollectorQueue, CollectorOrder
    <3>3. CASE j = n + 1
      BY <1>2, <2>2, <3>1, <3>3
    <3> QED
      BY <1>3, <3>2, <3>3
  <2> QED
    BY <2>1, <2>3 DEF CollectorQueue
<1>10. LearnerQueue' /\ Contents' /\ ActionAnswersObservation'
  BY <1>4 DEF DeviceInv, LearnerQueue, Contents, ActionAnswersObservation
<1>11. FiredObserve' /\ FiredAct' /\ FiredClone' /\ ExecutionOrder'
  BY <1>6, <1>7, <1>8 DEF DeviceInv, FiredObserve, FiredAct, FiredClone, ExecutionOrder
<1> QED
  BY <1>2, <1>9, <1>10, <1>11

\* A record of a tick in its slot keeps those of the other recent ticks.
LEMMA Recorded ==
  ASSUME DeviceTypes, NEW event \in Events, NEW t \in Nat,
         recorded' = [recorded EXCEPT ![event][SlotIndex(t)] = t]
  PROVE  /\ recorded' \in [Events -> [Slots -> Ticks]]
         /\ recorded'[event][SlotIndex(t)] = t
         /\ \A s : s # SlotIndex(t) => recorded'[event][s] = recorded[event][s]
         /\ \A e \in Events : e # event => recorded'[e] = recorded[e]
BY SlotIsSlot DEF DeviceTypes, Ticks

LEMMA DeviceWrite == ASSUME IInv, DeviceInv, WriteObservation PROVE DeviceInv'
<1> DEFINE o == Operation("observe", publishing, "observation", "none", None)
<1>1. /\ collectorStream' = Append(collectorStream, o) /\ cpc = "write" /\ cpc' = "header"
      /\ recorded' = [recorded EXCEPT !["observation"][SlotIndex(publishing)] = publishing]
      /\ UNCHANGED <<doneTicks, learnerStream, fired, observations, actions, scratch, returned,
                     publishedTick, consumedTick, observationTick, actionTick, lpc>>
  BY DEF WriteObservation, Record, collectorTicks, learnerTicks, storage
<1>2. NObserve \in Nat /\ NClone \in Nat /\ NAct \in Nat /\ publishing = NObserve
  BY <1>1, Enqueued
<1>3. NObserve' = NObserve + 1 /\ NClone' = NClone /\ NCopy' = NCopy /\ NAct' = NAct
  BY <1>1, <1>2 DEF NObserve, NClone, NCopy, NAct, Inside, IInv, CounterTypes
<1>4. /\ o \in Operations /\ o.op = "observe" /\ o.event = "observation" /\ o.waitFor = "none"
      /\ o.tick = NObserve
  BY <1>2 DEF Operation, Operations, Events, None
<1> HIDE DEF o
<1>5. /\ recorded' \in [Events -> [Slots -> Ticks]]
      /\ recorded'["observation"][SlotIndex(NObserve)] = NObserve
      /\ \A s : s # SlotIndex(NObserve) => recorded'["observation"][s] = recorded["observation"][s]
      /\ recorded'["action"] = recorded["action"] /\ recorded'["done"] = recorded["done"]
  BY <1>1, <1>2, Recorded DEF DeviceInv, Events
<1>6. LatestRecords'
  <2>1. ASSUME NEW t \in 0..(NObserve' - 1), t >= NObserve' - Capacity
        PROVE  recorded'["observation"][SlotIndex(t)] = t
    <3>1. CASE t = NObserve
      BY <1>5, <3>1
    <3>2. CASE t # NObserve
      <4>1. t \in 0..(NObserve - 1) /\ t >= NObserve - Capacity
        BY <1>2, <1>3, <2>1, <3>2, RingAssumption
      <4>2. SlotIndex(t) # SlotIndex(NObserve)
        BY <1>2, <1>3, <2>1, <4>1, SlotsApart, RingAssumption
      <4> QED
        BY <1>5, <4>1, <4>2 DEF DeviceInv, LatestRecords
    <3> QED
      BY <3>1, <3>2
  <2> QED
    BY <1>1, <1>3, <1>5, <2>1 DEF DeviceInv, LatestRecords
<1>7. /\ collectorStream' \in Seq(Operations)
      /\ CollectorQueue' /\ LearnerQueue' /\ Contents' /\ ActionAnswersObservation'
      /\ FiredObserve' /\ FiredAct' /\ FiredClone' /\ ExecutionOrder'
  BY <1>1, <1>2, <1>3, <1>4, CollectorEnqueues
<1>8. DeviceTypes'
  BY <1>1, <1>5, <1>7 DEF DeviceInv, DeviceTypes
<1> QED
  BY <1>6, <1>7, <1>8 DEF DeviceInv

LEMMA DeviceConsume == ASSUME IInv, DeviceInv, ConsumeAction PROVE DeviceInv'
<1> DEFINE o == Operation("clone", consuming, "done", "action", Latest("action", consuming))
<1>1. /\ collectorStream' = Append(collectorStream, o) /\ cpc = "consume" /\ cpc' = "retire"
      /\ recorded' = [recorded EXCEPT !["done"][SlotIndex(consuming)] = consuming]
      /\ doneTicks' = [doneTicks EXCEPT ![SlotIndex(consuming)] = consuming]
      /\ UNCHANGED <<learnerStream, fired, observations, actions, scratch, returned,
                     publishedTick, consumedTick, observationTick, actionTick, lpc>>
  BY ChecksPass DEF ConsumeAction, Record, collectorTicks, learnerTicks, storage
<1>2. /\ NObserve \in Nat /\ NClone \in Nat /\ NAct \in Nat /\ consuming = NClone
      /\ NClone < NAct /\ NAct <= NClone + Capacity /\ NObserve <= NClone + Capacity
  <2>1. consumedTick \in Int /\ Capacity \in Nat /\ consuming = consumedTick + 1
    BY RingAssumption DEF IInv, CounterTypes, consuming
  <2>2. /\ NObserve \in Nat /\ NClone \in Nat /\ NAct \in Nat
        /\ NObserve <= consumedTick + 1 + Capacity /\ NAct <= NObserve
        /\ NClone = consuming /\ consuming < NAct
    BY <1>1, Enqueued
  <2> QED
    BY <2>1, <2>2
<1>3. NObserve' = NObserve /\ NClone' = NClone + 1 /\ NCopy' = NCopy /\ NAct' = NAct
  BY <1>1, <1>2 DEF NObserve, NClone, NCopy, NAct, Inside, IInv, CounterTypes
<1>4. /\ o \in Operations /\ o.op = "clone" /\ o.event = "done" /\ o.waitFor = "action"
      /\ o.tick = NClone /\ o.after = o.tick
  <2>1. Latest("action", consuming) = NClone
    BY <1>2, RingAssumption DEF DeviceInv, LatestRecords, Latest
  <2> QED
    BY <1>2, <2>1 DEF Operation, Operations, Events
<1> HIDE DEF o
<1>5. /\ recorded' \in [Events -> [Slots -> Ticks]]
      /\ recorded'["done"][SlotIndex(NClone)] = NClone
      /\ \A s : s # SlotIndex(NClone) => recorded'["done"][s] = recorded["done"][s]
      /\ recorded'["action"] = recorded["action"]
      /\ recorded'["observation"] = recorded["observation"]
  BY <1>1, <1>2, Recorded DEF DeviceInv, Events
<1>6. /\ doneTicks'[SlotIndex(NClone)] = NClone
      /\ \A s : s # SlotIndex(NClone) => doneTicks'[s] = doneTicks[s]
  BY <1>1, <1>2, SlotIsSlot DEF IInv, CounterTypes
<1>7. LatestRecords'
  <2>1. ASSUME NEW t \in 0..(NClone' - 1), t >= NClone' - Capacity
        PROVE  recorded'["done"][SlotIndex(t)] = t /\ doneTicks'[SlotIndex(t)] = t
    <3>1. CASE t = NClone
      BY <1>5, <1>6, <3>1
    <3>2. CASE t # NClone
      <4>1. t \in 0..(NClone - 1) /\ t >= NClone - Capacity
        BY <1>2, <1>3, <2>1, <3>2, RingAssumption
      <4>2. SlotIndex(t) # SlotIndex(NClone)
        BY <1>2, <1>3, <2>1, <4>1, SlotsApart, RingAssumption
      <4> QED
        BY <1>5, <1>6, <4>1, <4>2 DEF DeviceInv, LatestRecords
    <3> QED
      BY <3>1, <3>2
  <2> QED
    BY <1>1, <1>3, <1>5, <2>1 DEF DeviceInv, LatestRecords
<1>8. /\ collectorStream' \in Seq(Operations)
      /\ CollectorQueue' /\ LearnerQueue' /\ Contents' /\ ActionAnswersObservation'
      /\ FiredObserve' /\ FiredAct' /\ FiredClone' /\ ExecutionOrder'
  BY <1>1, <1>2, <1>3, <1>4, CollectorEnqueues
<1>9. DeviceTypes'
  BY <1>1, <1>5, <1>8 DEF DeviceInv, DeviceTypes
<1> QED
  BY <1>7, <1>8, <1>9 DEF DeviceInv
-----------------------------------------------------------------------------
\* The learner's stream with its next operation.
LEMMA SameDone ==
  ASSUME NCopy \in Nat, NAct \in Nat, NCopy' \in Nat, NAct' \in Nat,
         NCopy' + NAct' = NCopy + NAct + 1,
         Len(learnerStream) \in Nat, Len(learnerStream') = Len(learnerStream) + 1
  PROVE  /\ Done' = Done /\ Done \in Int
         /\ NCopy + NAct = Done + (Len(learnerStream) + 1) - 1
<1>1. PICK c \in Nat, a \in Nat, m \in Nat : c = NCopy /\ a = NAct /\ m = Len(learnerStream)
  OBVIOUS
<1>2. PICK c1 \in Nat, a1 \in Nat : c1 = NCopy' /\ a1 = NAct'
  OBVIOUS
<1>3. Done = c + a - m
  BY <1>1 DEF Done
<1>4. Done' = c1 + a1 - (m + 1)
  BY <1>1, <1>2 DEF Done
<1>5. c1 + a1 = c + a + 1
  BY <1>1, <1>2
<1>6. c1 + a1 - (m + 1) = c + a - m
  BY <1>5
<1> QED
  BY <1>1, <1>3, <1>4, <1>6

LEMMA LearnerEnqueues ==
  ASSUME DeviceInv, NEW o \in Operations, learnerStream' = Append(learnerStream, o),
         NCopy \in Nat, NAct \in Nat,
         UNCHANGED <<collectorStream, fired, observations, actions, scratch, returned>>,
         NObserve' = NObserve, NClone' = NClone, NCopy' \in Nat, NAct' \in Nat,
         NCopy' + NAct' = NCopy + NAct + 1,
         IsCopy(o, NCopy + NAct) \/ IsAct(o, NCopy + NAct)
  PROVE  /\ learnerStream' \in Seq(Operations)
         /\ CollectorQueue' /\ LearnerQueue' /\ Contents' /\ ActionAnswersObservation'
         /\ FiredObserve' /\ FiredAct' /\ FiredClone' /\ ExecutionOrder'
<1> DEFINE n == Len(learnerStream)
<1>1. /\ learnerStream' \in Seq(Operations) /\ Len(learnerStream') = n + 1 /\ n \in Nat
      /\ \A i \in 1..n : learnerStream'[i] = learnerStream[i]
      /\ learnerStream'[n + 1] = o
  BY Appended DEF DeviceInv, DeviceTypes
<1>2. Done' = Done /\ Done \in Int /\ NCopy + NAct = Done + (n + 1) - 1
  BY <1>1, SameDone
<1>3. \A t : /\ ObserveDone(t)' <=> ObserveDone(t)
             /\ CloneDone(t)' <=> CloneDone(t)
             /\ ActDone(t)' <=> ActDone(t)
  BY <1>2 DEF ObserveDone, CloneDone, ActDone, Queued
<1>4. LearnerQueue'
  <2> SUFFICES ASSUME NEW i \in 1..Len(learnerStream')
               PROVE  \/ IsCopy(learnerStream'[i], Done + i - 1)
                      \/ IsAct(learnerStream'[i], Done + i - 1)
    BY <1>2 DEF LearnerQueue, IsCopy, IsAct
  <2>1. CASE i \in 1..n
    BY <1>1, <2>1 DEF DeviceInv, LearnerQueue
  <2>2. CASE i = n + 1
    BY <1>1, <1>2, <2>2
  <2> QED
    BY <1>1, <2>1, <2>2
<1>5. CollectorQueue' /\ Contents' /\ ActionAnswersObservation'
  BY <1>2 DEF DeviceInv, CollectorQueue, CollectorOrder, Contents, ActionAnswersObservation
<1>6. FiredObserve' /\ FiredAct' /\ FiredClone' /\ ExecutionOrder'
  BY <1>3 DEF DeviceInv, FiredObserve, FiredAct, FiredClone, ExecutionOrder
<1> QED
  BY <1>1, <1>4, <1>5, <1>6

LEMMA DeviceCopy == ASSUME IInv, DeviceInv, CopyObservation PROVE DeviceInv'
<1> DEFINE o == Operation("copy", observing, "none", "observation",
                          Latest("observation", observing))
<1>1. /\ learnerStream' = Append(learnerStream, o) /\ lpc = "copy" /\ lpc' = "respond"
      /\ observationTick' = observing
      /\ UNCHANGED <<doneTicks, recorded, collectorStream, fired, observations, actions, scratch,
                     returned, publishedTick, consumedTick, actionTick, cpc>>
  BY ChecksPass DEF CopyObservation, collectorTicks, headers, storage
<1>2. /\ NObserve \in Nat /\ NClone \in Nat /\ NCopy \in Nat /\ NAct \in Nat
      /\ NCopy = observing /\ NAct = observing /\ observing < NObserve
      /\ NObserve <= observing + Capacity
  <2>1. consumedTick + 1 <= observing
    BY <1>1, Enqueued DEF IInv, CounterTypes
  <2> QED
    BY <1>1, <2>1, Enqueued, RingAssumption DEF IInv, CounterTypes
<1>3. NObserve' = NObserve /\ NClone' = NClone /\ NCopy' = NCopy + 1 /\ NAct' = NAct
  BY <1>1, <1>2 DEF NObserve, NClone, NCopy, NAct, Inside, IInv, CounterTypes, observing
<1>4. o \in Operations /\ IsCopy(o, NCopy + NAct)
  <2>1. Latest("observation", observing) = observing
    BY <1>2, RingAssumption DEF DeviceInv, LatestRecords, Latest
  <2> QED
    BY <1>2, <2>1 DEF Operation, Operations, Events, IsCopy
<1> HIDE DEF o
<1>5. /\ learnerStream' \in Seq(Operations)
      /\ CollectorQueue' /\ LearnerQueue' /\ Contents' /\ ActionAnswersObservation'
      /\ FiredObserve' /\ FiredAct' /\ FiredClone' /\ ExecutionOrder'
  BY <1>1, <1>2, <1>3, <1>4, LearnerEnqueues
<1>6. DeviceTypes' /\ LatestRecords'
  BY <1>1, <1>3, <1>5 DEF DeviceInv, DeviceTypes, LatestRecords
<1> QED
  BY <1>5, <1>6 DEF DeviceInv

LEMMA DeviceAct == ASSUME IInv, DeviceInv, PublishAction PROVE DeviceInv'
<1> DEFINE o == IF doneTicks[SlotIndex(answering)] = None
                THEN Operation("act", answering, "action", "none", None)
                ELSE Operation("act", answering, "action", "done", Latest("done", answering))
<1>1. /\ learnerStream' = Append(learnerStream, o) /\ lpc = "respond" /\ lpc' = "answer"
      /\ recorded' = [recorded EXCEPT !["action"][SlotIndex(answering)] = answering]
      /\ UNCHANGED <<doneTicks, collectorStream, fired, observations, actions, scratch,
                     returned, publishedTick, consumedTick, actionTick, observationTick, cpc>>
  BY ChecksPass DEF PublishAction, Record, collectorTicks, learnerTicks, headers, storage
<1>2. /\ NObserve \in Nat /\ NClone \in Nat /\ NCopy \in Nat /\ NAct \in Nat
      /\ NAct = answering /\ NCopy = answering + 1
      /\ NClone <= answering /\ answering < NClone + Capacity
  <2>1. consumedTick \in Int /\ Capacity \in Nat
    BY RingAssumption DEF IInv, CounterTypes
  <2>2. /\ NObserve \in Nat /\ NClone \in Nat /\ NCopy \in Nat /\ NAct \in Nat
        /\ NAct = answering /\ NCopy = answering + 1
        /\ NObserve <= consumedTick + 1 + Capacity /\ consumedTick + 1 <= NClone
        /\ NClone <= NAct /\ NCopy <= NObserve
    BY <1>1, Enqueued
  <2> QED
    BY <2>1, <2>2
<1>3. NObserve' = NObserve /\ NClone' = NClone /\ NCopy' = NCopy /\ NAct' = NAct + 1
  BY <1>1, <1>2, SMTT(30) DEF NObserve, NClone, NCopy, NAct, Inside, IInv, CounterTypes
<1>4. answering < Capacity \/ (/\ doneTicks[SlotIndex(answering)] # None
                               /\ Latest("done", answering) = answering - Capacity)
  <2> SUFFICES ASSUME answering >= Capacity
               PROVE  /\ doneTicks[SlotIndex(answering)] # None
                      /\ Latest("done", answering) = answering - Capacity
    BY <1>2, RingAssumption
  <2> DEFINE t == answering - Capacity
  <2>1. t \in 0..(NClone - 1) /\ t >= NClone - Capacity /\ t \in Nat
    BY <1>2, RingAssumption
  <2>2. SlotIndex(t) = SlotIndex(answering)
    <3>1. t + Capacity = answering
      BY <1>2, RingAssumption
    <3> HIDE DEF t
    <3> QED
      BY <2>1, <3>1, SlotReused
  <2>3. recorded["done"][SlotIndex(t)] = t /\ doneTicks[SlotIndex(t)] = t
    BY <2>1 DEF DeviceInv, LatestRecords
  <2> QED
    BY <2>1, <2>2, <2>3 DEF Latest, None
<1>5. o \in Operations /\ IsAct(o, NCopy + NAct)
  <2>1. Latest("done", answering) \in Int /\ answering \in Nat
    BY <1>2, SlotIsSlot DEF DeviceInv, DeviceTypes, Latest, Events, Ticks, None
  <2> QED
    BY <1>2, <1>4, <2>1 DEF Operation, Operations, Events, IsAct, None
<1> HIDE DEF o
<1>6. /\ recorded' \in [Events -> [Slots -> Ticks]]
      /\ recorded'["action"][SlotIndex(NAct)] = NAct
      /\ \A s : s # SlotIndex(NAct) => recorded'["action"][s] = recorded["action"][s]
      /\ recorded'["done"] = recorded["done"]
      /\ recorded'["observation"] = recorded["observation"]
  BY <1>1, <1>2, Recorded DEF DeviceInv, Events
<1>7. LatestRecords'
  <2>1. ASSUME NEW t \in 0..(NAct' - 1), t >= NAct' - Capacity
        PROVE  recorded'["action"][SlotIndex(t)] = t
    <3>1. CASE t = NAct
      BY <1>6, <3>1
    <3>2. CASE t # NAct
      <4>1. t \in 0..(NAct - 1) /\ t >= NAct - Capacity
        BY <1>2, <1>3, <2>1, <3>2, RingAssumption
      <4>2. SlotIndex(t) # SlotIndex(NAct)
        BY <1>2, <1>3, <2>1, <4>1, SlotsApart, RingAssumption
      <4> QED
        BY <1>6, <4>1, <4>2 DEF DeviceInv, LatestRecords
    <3> QED
      BY <3>1, <3>2
  <2> QED
    BY <1>1, <1>3, <1>6, <2>1 DEF DeviceInv, LatestRecords
<1>8. /\ learnerStream' \in Seq(Operations)
      /\ CollectorQueue' /\ LearnerQueue' /\ Contents' /\ ActionAnswersObservation'
      /\ FiredObserve' /\ FiredAct' /\ FiredClone' /\ ExecutionOrder'
  BY <1>1, <1>2, <1>3, <1>5, LearnerEnqueues, SMTT(30)
<1>9. DeviceTypes'
  BY <1>1, <1>6, <1>8 DEF DeviceInv, DeviceTypes
<1> QED
  BY <1>7, <1>8, <1>9 DEF DeviceInv
-----------------------------------------------------------------------------
\* What the waits of the three waiting operations mean when they start.
LEMMA CopyReady ==
  ASSUME DeviceInv, NEW t \in Nat, Done = 2 * t, fired["observation"][SlotIndex(t)] >= t
  PROVE  fired["observation"][SlotIndex(t)] = t
<1> DEFINE v == fired["observation"][SlotIndex(t)]
<1>1. SlotIndex(t) \in Slots /\ v \in Ticks
  BY SlotIsSlot DEF DeviceInv, DeviceTypes, Events
<1>2. v \in Nat /\ v # None
  BY <1>1 DEF Ticks, None
<1>3. SlotIndex(v) = SlotIndex(t) /\ ObserveDone(v)
  BY <1>1, <1>2 DEF DeviceInv, FiredObserve
<1> HIDE DEF v
<1>4. ~(t < v)
  <2> SUFFICES ASSUME t < v PROVE FALSE
    OBVIOUS
  <2>1. v >= t + Capacity
    BY <1>2, <1>3, SameSlot
  <2>2. t \in 0..(v - Capacity)
    BY <1>2, <2>1, RingAssumption
  <2>3. CloneDone(t)
    BY <1>2, <1>3, <2>2 DEF DeviceInv, ExecutionOrder
  <2>4. ActDone(t)
    BY <2>3 DEF DeviceInv, ExecutionOrder
  <2> QED
    BY <2>4 DEF ActDone
<1> QED
  BY <1>2, <1>4 DEF v

LEMMA CloneReady ==
  ASSUME DeviceInv, Done \in Int, NEW t \in Nat, Queued("clone", t),
         fired["action"][SlotIndex(t)] >= t
  PROVE  fired["action"][SlotIndex(t)] = t /\ ActDone(t)
<1> DEFINE v == fired["action"][SlotIndex(t)]
<1>1. SlotIndex(t) \in Slots /\ v \in Ticks
  BY SlotIsSlot DEF DeviceInv, DeviceTypes, Events
<1>2. v \in Nat /\ v # None
  BY <1>1 DEF Ticks, None
<1>3. SlotIndex(v) = SlotIndex(t) /\ ActDone(v)
  BY <1>1, <1>2 DEF DeviceInv, FiredAct
<1> HIDE DEF v
<1>4. ~(t < v)
  <2> SUFFICES ASSUME t < v PROVE FALSE
    OBVIOUS
  <2>1. v >= t + Capacity
    BY <1>2, <1>3, SameSlot
  <2>2. t \in 0..(v - Capacity)
    BY <1>2, <2>1, RingAssumption
  <2>3. CloneDone(t)
    BY <1>2, <1>3, <2>2 DEF DeviceInv, ExecutionOrder
  <2> QED
    BY <2>3 DEF CloneDone
<1> QED
  BY <1>2, <1>3, <1>4 DEF v

LEMMA ActReady ==
  ASSUME DeviceInv, NEW t \in Nat, t >= Capacity,
         fired["done"][SlotIndex(t)] >= t - Capacity
  PROVE  \A k \in 0..(t - Capacity) : CloneDone(k)
<1> DEFINE v == fired["done"][SlotIndex(t)]
<1>1. SlotIndex(t) \in Slots /\ v \in Ticks
  BY SlotIsSlot DEF DeviceInv, DeviceTypes, Events
<1>2. v \in Nat /\ v # None /\ \A k \in 0..(t - Capacity) : k \in 0..v
  BY <1>1, RingAssumption DEF Ticks, None
<1> QED
  BY <1>1, <1>2 DEF DeviceInv, FiredClone

\* The collector's stream executes its first operation.
LEMMA DeviceCollector == ASSUME IInv, DeviceInv, CollectorDevice PROVE DeviceInv'
<1> DEFINE n == Len(collectorStream)
           h == collectorStream[1]
           slot == SlotIndex(h.tick)
<1>1. /\ collectorStream \in Seq(Operations) /\ collectorStream # <<>>
      /\ learnerStream \in Seq(Operations)
      /\ recorded \in [Events -> [Slots -> Ticks]] /\ fired \in [Events -> [Slots -> Ticks]]
      /\ observations \in [Slots -> Ticks] /\ actions \in [Slots -> Ticks] /\ scratch \in Ticks
  BY DEF DeviceInv, DeviceTypes, CollectorDevice
<1>2. /\ Head(collectorStream) = h /\ n \in Nat /\ n >= 1 /\ h \in Operations
      /\ Tail(collectorStream) \in Seq(Operations) /\ Len(Tail(collectorStream)) = n - 1
      /\ \A i \in 1..(n - 1) : Tail(collectorStream)[i] = collectorStream[i + 1]
  BY <1>1, Popped
<1>3. /\ collectorStream' = Tail(collectorStream) /\ Ready(h) /\ Execute(h)
      /\ UNCHANGED <<learnerStream, recorded, doneTicks, publishedTick, consumedTick,
                     observationTick, actionTick, cpc, lpc>>
  BY <1>2 DEF CollectorDevice, host, collectorTicks, learnerTicks, headers
<1>4. /\ NObserve \in Nat /\ NClone \in Nat /\ NCopy \in Nat /\ NAct \in Nat
      /\ NObserve' = NObserve /\ NClone' = NClone /\ NCopy' = NCopy /\ NAct' = NAct
      /\ NObserve - Capacity <= NClone
  BY <1>3, Enqueued, RingAssumption
  DEF NObserve, NClone, NCopy, NAct, IInv, CounterTypes
<1>5. Done' = Done /\ Done \in Int
  BY <1>1, <1>3, <1>4 DEF Done
<1>6. (IsObserve(h, NObserve) \/ IsClone(h, NClone)) /\ h.tick \in Nat /\ slot \in Slots
  <2>1. IsObserve(h, NObserve) \/ IsClone(h, NClone)
    BY <1>2 DEF DeviceInv, CollectorQueue
  <2>2. h.tick \in Nat
    BY <1>2 DEF Operations
  <2> QED
    BY <2>1, <2>2, SlotIsSlot
<1>7. \A i \in 2..n :
        /\ h.op = collectorStream[i].op => h.tick < collectorStream[i].tick
        /\ h.op = "observe" /\ collectorStream[i].op = "clone" =>
             h.tick < collectorStream[i].tick + Capacity
  BY <1>2 DEF DeviceInv, CollectorQueue, CollectorOrder
<1>8. ASSUME NEW i \in 2..n PROVE collectorStream[i].tick \in Nat
  <2>1. collectorStream[i] \in Operations
    BY <1>1, <1>2
  <2> QED
    BY <2>1 DEF Operations
<1>9. \A op, t : Queued(op, t)' <=> Queued(op, t) /\ ~(op = h.op /\ t = h.tick)
  <2> TAKE op, t
  <2>1. ASSUME Queued(op, t)' PROVE Queued(op, t) /\ ~(op = h.op /\ t = h.tick)
    <3>1. PICK i \in 1..(n - 1) :
            collectorStream'[i].op = op /\ collectorStream'[i].tick = t
      BY <1>2, <1>3, <2>1 DEF Queued
    <3>2. collectorStream[i + 1].op = op /\ collectorStream[i + 1].tick = t /\ i + 1 \in 2..n
      BY <1>2, <1>3, <3>1
    <3>3. Queued(op, t)
      BY <1>2, <3>2 DEF Queued
    <3> QED
      BY <1>6, <1>7, <1>8, <3>2, <3>3
  <2>2. ASSUME Queued(op, t), ~(op = h.op /\ t = h.tick) PROVE Queued(op, t)'
    <3>1. PICK i \in 1..n : collectorStream[i].op = op /\ collectorStream[i].tick = t
      BY <2>2 DEF Queued
    <3>2. i # 1
      BY <2>2, <3>1
    <3>3. i - 1 \in 1..(n - 1) /\ (i - 1) + 1 = i
      BY <1>2, <3>1, <3>2
    <3>4. collectorStream'[i - 1] = collectorStream[i]
      BY <1>2, <1>3, <3>3
    <3> QED
      BY <1>2, <1>3, <3>1, <3>3, <3>4 DEF Queued
  <2> QED
    BY <2>1, <2>2
<1>10. \A t : ActDone(t)' <=> ActDone(t)
  BY <1>5 DEF ActDone
<1>11. CollectorQueue'
  <2>1. \A i \in 1..(n - 1) : i + 1 \in 1..n /\ collectorStream'[i] = collectorStream[i + 1]
    BY <1>2, <1>3
  <2>2. Len(collectorStream') = n - 1
    BY <1>2, <1>3
  <2>3. \A i \in 1..Len(collectorStream') :
          \/ IsObserve(collectorStream'[i], NObserve')
          \/ IsClone(collectorStream'[i], NClone')
    BY <1>4, <2>1, <2>2 DEF DeviceInv, CollectorQueue
  <2>4. CollectorOrder'
    <3> SUFFICES ASSUME NEW i \in 1..(n - 1), NEW j \in 1..(n - 1), i < j
                 PROVE  /\ collectorStream'[i].op = collectorStream'[j].op =>
                             collectorStream'[i].tick < collectorStream'[j].tick
                        /\ collectorStream'[i].op = "observe" /\ collectorStream'[j].op = "clone"
                             => collectorStream'[i].tick < collectorStream'[j].tick + Capacity
      BY <2>2 DEF CollectorOrder
    <3>1. i + 1 < j + 1 /\ i + 1 \in 1..n /\ j + 1 \in 1..n
      BY <2>1
    <3> QED
      BY <2>1, <3>1 DEF DeviceInv, CollectorQueue, CollectorOrder
  <2> QED
    BY <2>3, <2>4 DEF CollectorQueue, IsObserve, IsClone
<1>12. LearnerQueue' /\ LatestRecords'
  BY <1>3, <1>4, <1>5 DEF DeviceInv, LearnerQueue, LatestRecords
<1>13. CASE h.op = "observe"
  <2>0. h.event = "observation" /\ h.tick \in 0..(NObserve - 1)
    BY <1>6, <1>13 DEF IsObserve, IsClone
  <2>1. /\ observations' = [observations EXCEPT ![slot] = h.tick]
        /\ fired' = [fired EXCEPT !["observation"][slot] = h.tick]
        /\ UNCHANGED <<actions, scratch, returned>> /\ h.tick < NObserve
    <3>1. h.tick < NObserve
      BY <1>4, <2>0
    <3> HIDE DEF h
    <3> QED
      BY <1>3, <1>13, <2>0, <3>1 DEF Execute
  <2>2. /\ fired' \in [Events -> [Slots -> Ticks]] /\ observations' \in [Slots -> Ticks]
        /\ fired'["observation"] = [fired["observation"] EXCEPT ![slot] = h.tick]
        /\ fired'["action"] = fired["action"] /\ fired'["done"] = fired["done"]
    BY <1>1, <1>6, <2>1 DEF Events, Ticks
  <2>3. \A t : CloneDone(t)' <=> CloneDone(t)
    BY <1>4, <1>9, <1>13 DEF CloneDone
  <2>4. \A t : ObserveDone(t)' <=> ObserveDone(t) \/ t = h.tick
    BY <1>4, <1>6, <1>9, <1>13, <2>1 DEF ObserveDone
  <2>5. \A t \in 0..(h.tick - Capacity) : CloneDone(t)
    <3> SUFFICES ASSUME NEW t \in 0..(h.tick - Capacity), Queued("clone", t) PROVE FALSE
      BY <1>4, <1>6, <2>1, RingAssumption DEF CloneDone
    <3>1. PICK i \in 1..n : collectorStream[i].op = "clone" /\ collectorStream[i].tick = t
      BY DEF Queued
    <3>2. i \in 2..n
      BY <1>2, <1>13, <3>1
    <3> QED
      BY <1>6, <1>7, <1>13, <3>1, <3>2, RingAssumption
  <2>6. DeviceTypes'
    BY <1>1, <1>2, <1>3, <2>1, <2>2 DEF DeviceTypes
  <2>7. ExecutionOrder'
    BY <1>10, <2>3, <2>4, <2>5 DEF DeviceInv, ExecutionOrder
  <2>8. FiredObserve'
    <3>1. ASSUME NEW s \in Slots, NEW v, v = fired'["observation"][s], v # None
          PROVE  SlotIndex(v) = s /\ ObserveDone(v)'
      <4>1. CASE s = slot
        <5>1. v = h.tick
          BY <1>1, <1>6, <2>2, <3>1, <4>1 DEF Events
        <5> QED
          BY <2>4, <4>1, <5>1
      <4>2. CASE s # slot
        <5>1. v = fired["observation"][s]
          BY <1>1, <2>2, <3>1, <4>2 DEF Events
        <5>2. SlotIndex(v) = s /\ ObserveDone(v)
          BY <3>1, <5>1 DEF DeviceInv, FiredObserve
        <5> QED
          BY <2>4, <5>2
      <4> QED
        BY <4>1, <4>2
    <3> QED
      BY <3>1 DEF FiredObserve, ObserveDone, Queued
  <2>9. FiredAct' /\ FiredClone'
    BY <1>10, <2>2, <2>3 DEF DeviceInv, FiredAct, FiredClone
  <2>10. Contents' /\ ActionAnswersObservation'
    BY <1>5, <2>1, <2>2 DEF DeviceInv, Contents, ActionAnswersObservation
  <2> QED
    BY <1>11, <1>12, <2>6, <2>7, <2>8, <2>9, <2>10 DEF DeviceInv
<1>14. CASE h.op = "clone"
  <2>0. /\ h.event = "done" /\ h.waitFor = "action" /\ h.after = h.tick
        /\ h.tick \in 0..(NClone - 1)
    BY <1>6, <1>14 DEF IsObserve, IsClone
  <2>1. /\ returned' = [tick |-> h.tick, of |-> actions[slot]]
        /\ fired' = [fired EXCEPT !["done"][slot] = h.tick]
        /\ UNCHANGED <<observations, actions, scratch>> /\ h.tick < NClone
        /\ fired["action"][slot] >= h.tick
    <3>1. h.tick < NClone
      BY <1>4, <2>0
    <3> HIDE DEF h
    <3> QED
      BY <1>3, <1>14, <2>0, <3>1 DEF Execute, Ready
  <2>2. /\ fired' \in [Events -> [Slots -> Ticks]]
        /\ fired'["done"] = [fired["done"] EXCEPT ![slot] = h.tick]
        /\ fired'["action"] = fired["action"] /\ fired'["observation"] = fired["observation"]
    BY <1>1, <1>6, <2>1 DEF Events, Ticks
  <2>3. \A t : ObserveDone(t)' <=> ObserveDone(t)
    BY <1>4, <1>9, <1>14 DEF ObserveDone
  <2>4. \A t : CloneDone(t)' <=> CloneDone(t) \/ t = h.tick
    BY <1>4, <1>6, <1>9, <1>14, <2>1 DEF CloneDone
  <2>5. Queued("clone", h.tick)
    <3>1. 1 \in 1..n
      BY <1>2
    <3> QED
      BY <1>14, <3>1 DEF Queued
  <2>6. fired["action"][slot] = h.tick /\ ActDone(h.tick)
    BY <1>5, <1>6, <2>1, <2>5, CloneReady
  <2>7. \A t \in 0..h.tick : CloneDone(t)'
    <3> SUFFICES ASSUME NEW t \in 0..h.tick, t # h.tick, Queued("clone", t) PROVE FALSE
      BY <1>4, <1>6, <2>1, <2>4 DEF CloneDone
    <3>1. PICK i \in 1..n : collectorStream[i].op = "clone" /\ collectorStream[i].tick = t
      BY DEF Queued
    <3>2. i \in 2..n
      BY <1>2, <3>1
    <3> QED
      BY <1>6, <1>7, <1>14, <3>1, <3>2
  <2>8. DeviceTypes'
    BY <1>1, <1>2, <1>3, <2>1, <2>2 DEF DeviceTypes
  <2>9. ExecutionOrder'
    BY <1>10, <2>3, <2>4, <2>6 DEF DeviceInv, ExecutionOrder
  <2>10. FiredClone'
    <3> SUFFICES ASSUME NEW s \in Slots, fired'["done"][s] # None,
                        NEW t \in 0..fired'["done"][s]
                 PROVE  CloneDone(t)'
      BY DEF FiredClone
    <3>1. CASE s = slot
      BY <1>1, <1>6, <2>2, <2>7, <3>1 DEF Events
    <3>2. CASE s # slot
      <4>1. fired'["done"][s] = fired["done"][s]
        BY <1>1, <2>2, <3>2 DEF Events
      <4> QED
        BY <2>4, <4>1 DEF DeviceInv, FiredClone
    <3> QED
      BY <3>1, <3>2
  <2>11. FiredAct' /\ FiredObserve'
    BY <1>10, <2>2, <2>3 DEF DeviceInv, FiredAct, FiredObserve
  <2>12. Contents' /\ ActionAnswersObservation'
    BY <1>5, <2>1, <2>2, <2>6 DEF DeviceInv, Contents, ActionAnswersObservation
  <2> QED
    BY <1>11, <1>12, <2>8, <2>9, <2>10, <2>11, <2>12 DEF DeviceInv
<1> QED
  BY <1>6, <1>13, <1>14 DEF IsObserve, IsClone

\* The learner's stream executes its first operation.
LEMMA DeviceLearner == ASSUME IInv, DeviceInv, LearnerDevice PROVE DeviceInv'
<1> DEFINE n == Len(learnerStream)
           h == learnerStream[1]
           slot == SlotIndex(h.tick)
<1>1. /\ learnerStream \in Seq(Operations) /\ learnerStream # <<>>
      /\ collectorStream \in Seq(Operations)
      /\ recorded \in [Events -> [Slots -> Ticks]] /\ fired \in [Events -> [Slots -> Ticks]]
      /\ observations \in [Slots -> Ticks] /\ actions \in [Slots -> Ticks] /\ scratch \in Ticks
  <2>1. learnerStream # <<>>
    BY DEF LearnerDevice
  <2> QED
    BY <2>1 DEF DeviceInv, DeviceTypes
<1>2. /\ Head(learnerStream) = h /\ n \in Nat /\ n >= 1 /\ h \in Operations
      /\ Tail(learnerStream) \in Seq(Operations) /\ Len(Tail(learnerStream)) = n - 1
      /\ \A i \in 1..(n - 1) : Tail(learnerStream)[i] = learnerStream[i + 1]
  BY <1>1, Popped
<1>3. /\ learnerStream' = Tail(learnerStream) /\ Ready(h) /\ Execute(h)
      /\ UNCHANGED <<collectorStream, recorded, doneTicks, publishedTick, consumedTick,
                     observationTick, actionTick, cpc, lpc>>
  BY <1>2 DEF LearnerDevice, host, collectorTicks, learnerTicks, headers
<1>4. /\ NObserve \in Nat /\ NClone \in Nat /\ NCopy \in Nat /\ NAct \in Nat
      /\ NObserve' = NObserve /\ NClone' = NClone /\ NCopy' = NCopy /\ NAct' = NAct
  BY <1>3, Enqueued, SMTT(30) DEF NObserve, NClone, NCopy, NAct
<1>5. Done' = Done + 1 /\ Done \in Int
  <2>1. PICK c \in Nat, a \in Nat, m \in Nat : c = NCopy /\ a = NAct /\ m = n
    BY <1>2, <1>4
  <2>2. Done = c + a - m /\ Done' = c + a - (m - 1)
    BY <1>2, <1>3, <1>4, <2>1 DEF Done
  <2> QED
    BY <2>1, <2>2, SMTT(30)
<1>6. (IsCopy(h, Done) \/ IsAct(h, Done)) /\ h.tick \in Nat /\ slot \in Slots
  <2>1. IsCopy(h, Done + 1 - 1) \/ IsAct(h, Done + 1 - 1)
    BY <1>2 DEF DeviceInv, LearnerQueue
  <2>2. h.tick \in Nat
    BY <1>2 DEF Operations
  <2> QED
    BY <1>5, <2>1, <2>2, SlotIsSlot DEF IsCopy, IsAct
<1>7. \A t : /\ ObserveDone(t)' <=> ObserveDone(t)
             /\ CloneDone(t)' <=> CloneDone(t)
  BY <1>3, <1>4 DEF ObserveDone, CloneDone, Queued
<1>8. LearnerQueue'
  <2>1. Len(learnerStream') = n - 1
    BY <1>2, <1>3
  <2>2. ASSUME NEW i \in 1..(n - 1)
        PROVE  \/ IsCopy(learnerStream'[i], Done' + i - 1)
               \/ IsAct(learnerStream'[i], Done' + i - 1)
    <3>1. i + 1 \in 1..n /\ learnerStream'[i] = learnerStream[i + 1]
      BY <1>2, <1>3
    <3>2. Done' + i - 1 = Done + (i + 1) - 1
      BY <1>5
    <3>3. \/ IsCopy(learnerStream[i + 1], Done + (i + 1) - 1)
          \/ IsAct(learnerStream[i + 1], Done + (i + 1) - 1)
      BY <3>1 DEF DeviceInv, LearnerQueue
    <3> QED
      BY <3>1, <3>2, <3>3
  <2> QED
    BY <2>1, <2>2 DEF LearnerQueue, IsCopy, IsAct
<1>9. CollectorQueue' /\ LatestRecords'
  BY <1>3, <1>4 DEF DeviceInv, CollectorQueue, CollectorOrder, LatestRecords
<1>10. CASE h.op = "copy"
  <2>1. /\ h.event = "none" /\ 2 * h.tick = Done
        /\ h.waitFor = "observation" /\ h.after = h.tick
    BY <1>6, <1>10 DEF IsCopy, IsAct
  <2>2. /\ UNCHANGED <<fired, observations, actions, returned>>
        /\ scratch' = observations[slot] /\ fired["observation"][slot] >= h.tick
    <3> HIDE DEF h
    <3> QED
      BY <1>3, <1>10, <2>1 DEF Execute, Ready
  <2>3. fired["observation"][slot] = h.tick
    BY <1>6, <2>1, <2>2, CopyReady
  <2>4. scratch' = h.tick
    BY <2>2, <2>3 DEF DeviceInv, Contents
  <2>5. \A k \in Nat : ActDone(k)' <=> ActDone(k)
    <3> HIDE DEF h
    <3> QED
      BY <1>5, <1>6, <2>1 DEF ActDone
  <2>6. DeviceTypes'
    BY <1>1, <1>2, <1>3, <1>6, <2>2, <2>4 DEF DeviceTypes, Ticks
  <2>7. ExecutionOrder'
    BY <1>7, <2>5 DEF DeviceInv, ExecutionOrder
  <2>8. FiredObserve' /\ FiredClone'
    BY <1>7, <2>2 DEF DeviceInv, FiredObserve, FiredClone
  <2>9. FiredAct'
    <3>1. ASSUME NEW s \in Slots, NEW v, v = fired'["action"][s], v # None
          PROVE  SlotIndex(v) = s /\ ActDone(v)'
      <4>1. v \in Nat /\ v = fired["action"][s]
        BY <1>1, <2>2, <3>1 DEF Events, Ticks, None
      <4>2. SlotIndex(v) = s /\ ActDone(v)
        BY <3>1, <4>1 DEF DeviceInv, FiredAct
      <4> QED
        BY <2>5, <4>1, <4>2
    <3> QED
      BY <3>1 DEF FiredAct, ActDone
  <2>10. Contents' /\ ActionAnswersObservation'
    <3>1. Done' = 2 * scratch' + 1
      BY <1>5, <2>1, <2>4
    <3> QED
      BY <2>2, <3>1 DEF DeviceInv, Contents, ActionAnswersObservation
  <2> QED
    BY <1>8, <1>9, <2>6, <2>7, <2>8, <2>9, <2>10 DEF DeviceInv
<1>11. CASE h.op = "act"
  <2>1. /\ h.event = "action" /\ 2 * h.tick + 1 = Done
        /\ h.tick < Capacity \/ (h.waitFor = "done" /\ h.after = h.tick - Capacity)
    BY <1>6, <1>11 DEF IsCopy, IsAct
  <2>2. /\ UNCHANGED <<observations, scratch, returned>>
        /\ actions' = [actions EXCEPT ![slot] = scratch]
        /\ fired' = [fired EXCEPT !["action"][slot] = h.tick]
        /\ h.tick < Capacity \/ fired["done"][slot] >= h.tick - Capacity
    <3> HIDE DEF h
    <3> QED
      BY <1>3, <1>11, <2>1 DEF Execute, Ready
  <2>3. scratch = h.tick /\ Done' = 2 * h.tick + 2
    <3>1. Done = 2 * scratch + 1 \/ Done = 2 * scratch + 2
      BY DEF DeviceInv, Contents
    <3>2. scratch \in Int
      BY <1>1 DEF Ticks, None
    <3>3. \A d, s, t \in Int :
            2 * t + 1 = d /\ (d = 2 * s + 1 \/ d = 2 * s + 2) => s = t /\ d + 1 = 2 * t + 2
      OBVIOUS
    <3>4. h.tick \in Int
      BY <1>6
    <3> HIDE DEF h
    <3> QED
      BY <1>5, <2>1, <3>1, <3>2, <3>3, <3>4
  <2>4. /\ fired' \in [Events -> [Slots -> Ticks]] /\ actions' \in [Slots -> Ticks]
        /\ fired'["action"] = [fired["action"] EXCEPT ![slot] = h.tick]
        /\ fired'["observation"] = fired["observation"] /\ fired'["done"] = fired["done"]
    BY <1>1, <1>6, <2>2 DEF Events, Ticks
  <2>5. \A k \in Nat : ActDone(k)' <=> ActDone(k) \/ k = h.tick
    <3> HIDE DEF h
    <3> QED
      BY <1>6, <2>1, <2>3 DEF ActDone
  <2>6. \A k \in 0..(h.tick - Capacity) : CloneDone(k)
    <3>1. CASE h.tick < Capacity
      BY <1>6, <3>1, RingAssumption
    <3>2. CASE h.tick >= Capacity
      <4>1. fired["done"][slot] >= h.tick - Capacity
        BY <1>6, <2>2, <3>2, RingAssumption
      <4> QED
        BY <1>6, <3>2, <4>1, ActReady
    <3> QED
      BY <1>6, <3>1, <3>2, RingAssumption
  <2>7. DeviceTypes'
    BY <1>1, <1>2, <1>3, <2>2, <2>4 DEF DeviceTypes
  <2>8. ExecutionOrder'
    BY <1>7, <2>5, <2>6 DEF DeviceInv, ExecutionOrder
  <2>9. FiredObserve' /\ FiredClone'
    BY <1>7, <2>4 DEF DeviceInv, FiredObserve, FiredClone
  <2>10. FiredAct'
    <3>1. ASSUME NEW s \in Slots, NEW v, v = fired'["action"][s], v # None
          PROVE  SlotIndex(v) = s /\ ActDone(v)'
      <4>1. CASE s = slot
        <5>1. v = h.tick
          BY <1>1, <1>6, <2>4, <3>1, <4>1 DEF Events
        <5> QED
          BY <1>6, <2>5, <4>1, <5>1
      <4>2. CASE s # slot
        <5>1. v \in Nat /\ v = fired["action"][s]
          BY <1>1, <2>4, <3>1, <4>2 DEF Events, Ticks, None
        <5>2. SlotIndex(v) = s /\ ActDone(v)
          BY <3>1, <5>1 DEF DeviceInv, FiredAct
        <5> QED
          BY <2>5, <5>1, <5>2
      <4> QED
        BY <4>1, <4>2
    <3> QED
      BY <3>1 DEF FiredAct, ActDone
  <2>11. Contents' /\ ActionAnswersObservation'
    BY <2>2, <2>3, <2>4 DEF DeviceInv, Contents, ActionAnswersObservation
  <2> QED
    BY <1>8, <1>9, <2>7, <2>8, <2>9, <2>10, <2>11 DEF DeviceInv
<1> QED
  BY <1>6, <1>10, <1>11 DEF IsCopy, IsAct
-----------------------------------------------------------------------------
LEMMA DeviceNext == IInv /\ DeviceInv /\ [Next]_vars => DeviceInv'
BY DeviceSteps, DeviceWrite, DeviceConsume, DeviceCopy, DeviceAct, DeviceCollector,
   DeviceLearner, DeviceQuiet

LEMMA DeviceInvariant == Spec => []DeviceInv
<1>1. Spec => []IInv
  BY IInvInvariant
<1> QED
  BY <1>1, DeviceInit, DeviceNext, PTL DEF Spec

\* The action consume_action returns for a tick was computed from the observation of that
\* tick, for every number of slots and of ticks, and however far the hosts run ahead of
\* the device.
THEOREM AnswersItsObservation == Spec => []ActionAnswersObservation
<1>1. DeviceInv => ActionAnswersObservation
  BY DEF DeviceInv
<1> QED
  BY <1>1, DeviceInvariant, PTL
=============================================================================
