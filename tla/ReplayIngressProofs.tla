------------------------- MODULE ReplayIngressProofs -------------------------
(***************************************************************************)
(* Theorems about ReplayIngress for every value of its constants: types,   *)
(* the bound on the ingress occupancy, the exclusion of writer and         *)
(* consumers from each other's slots, the order checks that never fire,    *)
(* the refinement of ReplayLog, the content of the device ring, and a      *)
(* close that leaves nothing behind.                                       *)
(***************************************************************************)
EXTENDS ReplayIngress, TLAPS

\* Two sequence numbers less than Depth apart use different slots.
LEMMA SlotsDiffer ==
  ASSUME NEW d \in Nat \ {0}, NEW a \in Nat, NEW b \in Nat, a < b, b - a < d
  PROVE  a % d # b % d
<1> DEFINE qa == a \div d
           qb == b \div d
<1>1. /\ qa \in Int /\ a = d * qa + (a % d) /\ a % d \in 0..(d - 1)
      /\ qb \in Int /\ b = d * qb + (b % d) /\ b % d \in 0..(d - 1)
  OBVIOUS
<1>2. SUFFICES ASSUME a % d = b % d PROVE FALSE
  OBVIOUS
<1>3. b - a = d * (qb - qa)
  BY <1>1, <1>2
<1>4. qb - qa >= 1
  <2>1. SUFFICES ASSUME qb - qa <= 0 PROVE FALSE
    BY <1>1
  <2>2. d * (qb - qa) <= 0
    BY <2>1, <1>1
  <2>3. QED
    BY <2>2, <1>3
<1>5. d * (qb - qa) >= d
  BY <1>4, <1>1
<1>6. QED
  BY <1>3, <1>5
-----------------------------------------------------------------------------
LockedSteps == {"submit", "copy", "sync", "drain", "release"}

\* A thread is inside a locked section exactly when it holds the lock, and only the
\* holder, between taking a token and recording its copy, has a taken slot.
LockInv == \A t \in Threads : tpc[t] \in LockedSteps <=> lock = t
TakenInv == \A t \in Threads : tpc[t] = "copy" => taken # NoSpan
TypeInv == TypeOK /\ LockInv /\ TakenInv

LEMMA RemainderIsSlot == \A n \in Nat : n % Depth \in Slots
  BY IngressAssumption DEF IngressAssumption, Slots

LEMMA ChunkFits ==
  TypeOK => Chunk \in 0..SlotRows /\ Chunk <= left /\ Produced \in Int
  BY IngressAssumption DEF IngressAssumption, TypeOK, Chunk, Least, Produced

LEMMA SpanFields ==
  \A span \in Span : /\ span.seq \in Nat /\ span.slot \in Slots
                      /\ span.start \in Nat /\ span.count \in Nat /\ span.count <= SlotRows
<1> TAKE span \in Span
<1>1. span.seq \in Nat /\ span.slot \in Slots /\ span.start \in Nat
  BY DEF Span
<1>2. span.count \in 0..SlotRows
  BY DEF Span
<1>3. span.count \in Nat /\ span.count <= SlotRows
  BY <1>2, IngressAssumption DEF IngressAssumption
<1>4. QED
  BY <1>1, <1>3

\* An updated function keeps its type.
LEMMA Updated ==
  ASSUME NEW D, NEW R, NEW f \in [D -> R], NEW x \in D, NEW y \in R
  PROVE  [f EXCEPT ![x] = y] \in [D -> R]
  OBVIOUS

\* What a slot holds.
Content == [first : Int, rows : 0..SlotRows, patched : BOOLEAN]

LEMMA TypeInit == Init => TypeInv
<1> SUFFICES ASSUME Init PROVE TypeInv
  OBVIOUS
<1> USE IngressAssumption DEF IngressAssumption, Init
<1>1. /\ slots \in [Slots -> [first : Int, rows : 0..SlotRows, patched : BOOLEAN]]
      /\ starts \in [Slots -> Nat] /\ counts \in [Slots -> 0..SlotRows]
  OBVIOUS
<1>2. storage \in [0..(Capacity - 1) -> Int]
  OBVIOUS
<1>3. spans \in Seq(Span) /\ copied \in 0..Len(spans)
  OBVIOUS
<1>4. /\ DOMAIN tpc = Threads
      /\ tpc["daemon"] = "top" /\ tpc["learner"] = "idle"
  BY DEF Threads
<1>5. LockInv /\ TakenInv
  BY <1>4 DEF LockInv, TakenInv, LockedSteps, Threads
<1>6. /\ closed \in BOOLEAN /\ stop \in BOOLEAN
      /\ pipelineClosed \in BOOLEAN /\ quiesced \in BOOLEAN
  OBVIOUS
<1>7. /\ taken \in Span \cup {NoSpan} /\ lock \in Threads \cup {"none"}
      /\ op = "none" /\ cpc = "idle" /\ fault = "none"
  OBVIOUS
<1>8. free \in Nat /\ left \in 0..NumEnvs /\ size \in 0..Capacity /\ vectors \in 0..MaxVectors
  OBVIOUS
<1>9. /\ ready \in Nat /\ publishedPtr \in Nat /\ publishSeq \in Nat /\ releaseSeq \in Nat
      /\ highWater \in Nat /\ consumeSeq \in Nat
      /\ submittedPtr \in Nat /\ visiblePtr \in Nat /\ ptr \in Nat /\ snapshot \in Nat
      /\ wakeups \in Nat
  BY SMTT(30)
<1>10. TypeOK
  <2> HIDE DEF Init
  <2> QED
    BY <1>1, <1>2, <1>3, <1>4, <1>6, <1>7, <1>8, <1>9, SMTT(30) DEF TypeOK
<1>11. QED
  BY <1>5, <1>10 DEF TypeInv

LEMMA TypeNext == TypeInv /\ [Next]_vars => TypeInv'
<1> SUFFICES ASSUME TypeInv, [Next]_vars PROVE TypeInv'
  OBVIOUS
<1> USE IngressAssumption DEF IngressAssumption, TypeInv, TypeOK, LockInv, TakenInv,
        LockedSteps, Threads,
        vars, collectorVars, publication, threadVars, pipeline, committed, lifecycle,
        learnerSide, collectorSide, otherThanThreads, NoSpan
<1>1. CASE AddBatch
  BY <1>1 DEF AddBatch
<1>2. CASE AcquireFree
  BY <1>2 DEF AcquireFree
<1>3. CASE AcquireTimesOut
  BY <1>3 DEF AcquireTimesOut
<1>4. CASE PollAgain
  BY <1>4 DEF PollAgain
<1>5. CASE RecheckClosed
  BY <1>5 DEF RecheckClosed
<1>6. CASE WriteFails
  BY <1>6 DEF WriteFails
<1>7. CASE WriteTransitionRows
  <2> DEFINE content == [first |-> Produced, rows |-> Chunk, patched |-> FALSE]
  <2>1. content \in Content
    BY ChunkFits DEF Content
  <2>2. slots' \in [Slots -> Content]
    <3>1. /\ slots \in [Slots -> Content] /\ WriteSlot \in Slots
          /\ slots' = [slots EXCEPT ![WriteSlot] = content]
      BY <1>7, RemainderIsSlot DEF WriteTransitionRows, WriteSlot, Content
    <3> HIDE DEF TypeInv, TypeOK, LockInv, TakenInv, content
    <3>2. QED
      BY <3>1, <2>1, Updated
  <2>3. /\ cpc' = "patch"
        /\ UNCHANGED <<free, ready, closed, stop, vectors, left, starts, counts,
                       publishedPtr, publishSeq, highWater, learnerSide>>
    BY <1>7 DEF WriteTransitionRows
  <2>4. QED
    BY <2>2, <2>3, SMTT(30) DEF Content
<1>8. CASE PatchTerminalNextObservations
  <2>1. slots' \in [Slots -> Content]
    <3>1. /\ slots \in [Slots -> Content] /\ WriteSlot \in Slots
          /\ slots' = [slots EXCEPT ![WriteSlot].patched = TRUE]
      BY <1>8, RemainderIsSlot DEF PatchTerminalNextObservations, WriteSlot, Content
    <3> HIDE DEF TypeInv, TypeOK, LockInv, TakenInv
    <3>2. [slots[WriteSlot] EXCEPT !.patched = TRUE] \in Content
      BY <3>1 DEF Content
    <3>3. QED
      BY <3>1, <3>2, Updated
  <2>2. /\ cpc' = "publish"
        /\ UNCHANGED <<free, ready, closed, stop, vectors, left, starts, counts,
                       publishedPtr, publishSeq, highWater, learnerSide>>
    BY <1>8 DEF PatchTerminalNextObservations
  <2>3. QED
    BY <2>1, <2>2, SMTT(30) DEF Content
<1>9. CASE PublishSpan
  <2>1. starts' \in [Slots -> Nat] /\ counts' \in [Slots -> 0..SlotRows]
    BY <1>9, RemainderIsSlot, ChunkFits DEF PublishSpan, WriteSlot
  <2>2. publishedPtr' \in Nat
    BY <1>9, ChunkFits, SMTT(30) DEF PublishSpan
  <2>3. QED
    BY <1>9, <2>1, <2>2, SMTT(30) DEF PublishSpan
<1>10. CASE PublishSequence
  BY <1>10 DEF PublishSequence
<1>11. CASE SignalReady
  BY <1>11 DEF SignalReady, Chunk, Least
<1>12. CASE CollectorExits
  BY <1>12 DEF CollectorExits
<1>13. CASE CollectorKilled
  BY <1>13 DEF CollectorKilled
<1>14. CASE DaemonFails
  BY <1>14 DEF DaemonFails, Raise, Unlock, AfterRaise
<1>15. CASE DeviceCopy
  <2> DEFINE span == spans[copied + 1]
             source == slots[span.slot]
  <2>1. /\ storage' = [i \in DOMAIN storage |->
                        IF RowAt(span, i) >= span.count THEN storage[i]
                        ELSE IF source.patched /\ RowAt(span, i) < source.rows
                             THEN source.first + RowAt(span, i) ELSE -1]
        /\ copied' = copied + 1 /\ copied < Len(spans)
        /\ UNCHANGED <<free, ready, collectorSide, threadVars, pipeline, committed,
                       snapshot, lifecycle>>
    BY <1>15 DEF DeviceCopy
  <2>2. copied' \in 0..Len(spans')
    BY <2>1
  <2>3. storage' \in [0..(Capacity - 1) -> Int]
    <3>1. /\ span \in Span
          /\ slots \in [Slots -> Content]
          /\ storage \in [0..(Capacity - 1) -> Int]
      BY <2>1 DEF Content
    <3> HIDE DEF TypeInv, TypeOK, LockInv, TakenInv, span
    <3>2. span.slot \in Slots /\ span.start \in Nat
      BY <3>1, SpanFields
    <3>3. source.first \in Int
      BY <3>1, <3>2 DEF Content
    <3>4. \A i \in 0..(Capacity - 1) : RowAt(span, i) \in Int
      BY <3>2 DEF RowAt
    <3> HIDE DEF source
    <3>5. QED
      BY <2>1, <3>1, <3>3, <3>4
  <2>4. QED
    <3> HIDE DEF span, source
    <3>1. QED
      BY <2>1, <2>2, <2>3, SMTT(30)
<1>16. CASE DaemonDrains
  BY <1>16 DEF DaemonDrains, Lock
<1>17. CASE DaemonSubmits
  BY <1>17 DEF DaemonSubmits, Lock
<1>18. CASE DaemonExits
  BY <1>18 DEF DaemonExits
<1>19. CASE ReadCommittedFields
  BY <1>19 DEF ReadCommittedFields
<1>20. CASE ReaderSubmits
  BY <1>20 DEF ReaderSubmits, Lock
<1>21. CASE ReaderLocks
  BY <1>21 DEF ReaderLocks, Lock
<1>22. CASE Synchronize
  BY <1>22 DEF Synchronize
<1>23. CASE ClosePipeline
  BY <1>23 DEF ClosePipeline
<1>24. CASE SetStop
  BY <1>24 DEF SetStop
<1>25. CASE JoinReturns
  BY <1>25 DEF JoinReturns, Lock
<1>26. CASE CloserLocks
  BY <1>26 DEF CloserLocks, Lock
<1>27. CASE CloseBuffer
  BY <1>27 DEF CloseBuffer
<1>28. CASE WakeProducer
  BY <1>28 DEF WakeProducer
<1>29. ASSUME NEW t \in Threads, TakePublishedIngress(t) PROVE TypeInv'
  <2>1. taken' \in Span
    BY <1>29, RemainderIsSlot DEF TakePublishedIngress, Span
  <2>2. taken' # NoSpan
    BY <2>1 DEF Span
  <2>3. QED
    BY <1>29, <2>1, <2>2, SMTT(30) DEF TakePublishedIngress
<1>30. ASSUME NEW t \in Threads, SubmitSpanCopy(t) PROVE TypeInv'
  <2>1. taken \in Span
    BY <1>30 DEF SubmitSpanCopy
  <2>2. spans' \in Seq(Span) /\ Len(spans') = Len(spans) + 1
    BY <1>30, <2>1 DEF SubmitSpanCopy
  <2>3. taken.start + taken.count \in Nat
    BY <2>1, SpanFields
  <2>4. submittedPtr' \in Nat
    BY <1>30, <2>3 DEF SubmitSpanCopy
  <2>5. LockInv' /\ TakenInv'
    BY <1>30 DEF SubmitSpanCopy
  <2>6. QED
    BY <1>30, <2>2, <2>4, <2>5 DEF SubmitSpanCopy
<1>31. ASSUME NEW t \in Threads, RejectGap(t) PROVE TypeInv'
  BY <1>31 DEF RejectGap, Raise, Unlock, AfterRaise
<1>32. ASSUME NEW t \in Threads, NothingPublished(t) PROVE TypeInv'
  BY <1>32 DEF NothingPublished, Unlock
<1>33. ASSUME NEW t \in Threads, CommitIngress(t) PROVE TypeInv'
  <2>1. /\ spans # <<>> /\ Head(spans) \in Span
        /\ spans' \in Seq(Span) /\ copied' \in 0..Len(spans')
    BY <1>33 DEF CommitIngress
  <2>2. Head(spans).start \in Nat /\ Head(spans).count \in Nat
    BY <2>1, SpanFields
  <2> DEFINE ordered == Head(spans).slot = releaseSeq % Depth /\ Head(spans).start = ptr
  <2>3. CASE ordered
    <3>1. /\ ptr' = Head(spans).start + Head(spans).count
          /\ size' = CommittedSize(Head(spans).start + Head(spans).count)
          /\ releaseSeq' = releaseSeq + 1
          /\ tpc' = [tpc EXCEPT ![t] = "release"]
          /\ tpc[t] = "drain"
          /\ UNCHANGED <<lock, fault>>
      BY <1>33, <2>3 DEF CommitIngress
    <3>2. ptr' \in Nat /\ size' \in 0..Capacity
      BY <3>1, <2>2, SMTT(30) DEF CommittedSize, Least
    <3>3. LockInv' /\ TakenInv'
      BY <1>33, <3>1 DEF CommitIngress
    <3>4. /\ DOMAIN tpc' = Threads
          /\ tpc'["daemon"] \in {"top", "drain", "release", "between", "submit", "copy", "exit"}
          /\ tpc'["learner"] \in {"idle", "read", "submit", "copy", "sync", "drain", "release",
                                "raised", "join", "closeSync", "closeBuffer", "wake"}
      BY <3>1
    <3>5. UNCHANGED <<free, ready, collectorSide, op, consumeSeq, taken, submittedPtr,
                      visiblePtr, storage, snapshot, pipelineClosed, wakeups, quiesced>>
      BY <1>33 DEF CommitIngress
    <3>6. QED
      BY <2>1, <3>1, <3>2, <3>3, <3>4, <3>5, SMTT(30)
  <2>4. CASE ~ordered
    <3>1. /\ Unlock(t, "drain", AfterRaise(t)) /\ fault' = "order"
          /\ UNCHANGED <<ptr, size, releaseSeq>>
      BY <1>33, <2>4 DEF CommitIngress
    <3>2. LockInv' /\ TakenInv'
      BY <1>33, <3>1 DEF CommitIngress, Unlock, AfterRaise
    <3>3. QED
      BY <1>33, <2>1, <3>1, <3>2 DEF CommitIngress, Unlock, AfterRaise
  <2>5. QED
    BY <2>3, <2>4
<1>34. ASSUME NEW t \in Threads, ReleaseSlot(t) PROVE TypeInv'
  BY <1>34 DEF ReleaseSlot
<1>35. ASSUME NEW t \in Threads, Drained(t) PROVE TypeInv'
  BY <1>35 DEF Drained, Unlock
<1>36. CASE UNCHANGED vars
  BY <1>36
<1>37. QED
  BY <1>1, <1>2, <1>3, <1>4, <1>5, <1>6, <1>7, <1>8, <1>9, <1>10, <1>11, <1>12, <1>13,
     <1>14, <1>15, <1>16, <1>17, <1>18, <1>19, <1>20, <1>21, <1>22, <1>23, <1>24, <1>25,
     <1>26, <1>27, <1>28, <1>29, <1>30, <1>31, <1>32, <1>33, <1>34, <1>35, <1>36
  DEF Next, Collector, Daemon, Learner, SubmitOrDrain,
     Terminated

\* Every variable keeps its type in every reachable state (TypeOK of ReplayIngress).
THEOREM TypeCorrect == Spec => []TypeOK
<1>1. TypeInv => TypeOK
  BY DEF TypeInv
<1>2. QED
  BY TypeInit, TypeNext, <1>1, PTL DEF Spec
-----------------------------------------------------------------------------
(***************************************************************************)
(* Tokens and sequence numbers.  The invariant relates the semaphores to   *)
(* the sequences both sides keep for themselves: the collector holds a     *)
(* token while it writes, a slot being released is no longer counted by    *)
(* releaseSeq and not yet by free, and before the buffer is closed free    *)
(* tokens, held tokens and outstanding chunks never exceed Depth.  A       *)
(* killed collector or a failed daemon loses tokens, it never adds one.    *)
(* close() adds tokens that belong to no slot: that a writer still has a   *)
(* slot of its own rests on its second look at the closed flag.            *)
(***************************************************************************)
Bit(b) == IF b THEN 1 ELSE 0
Writing == cpc \in {"write", "patch", "publish", "sequence"}
Holding == Writing \/ cpc = "recheck"
Releasing == tpc["daemon"] = "release" \/ tpc["learner"] = "release"
Outstanding == publishSeq - releaseSeq + Bit(Releasing)

Tokens == ~closed => free + Bit(Holding) + Outstanding <= Depth
WriterHasSlot == Writing => Outstanding < Depth
WakeAfterClose == tpc["learner"] = "wake" => closed
Consumed ==
  /\ consumeSeq + ready + Bit(cpc = "signal") <= publishSeq
  /\ releaseSeq + Len(spans) + Bit(taken # NoSpan) <= consumeSeq
TakenSlot == taken # NoSpan => taken.seq = consumeSeq - 1 /\ taken.slot = taken.seq % Depth
SpanSlots ==
  \A i \in 1..Len(spans) :
    /\ releaseSeq + i - 1 <= spans[i].seq /\ spans[i].seq < consumeSeq
    /\ spans[i].slot = spans[i].seq % Depth

TokenInv == Tokens /\ WriterHasSlot /\ WakeAfterClose /\ HighWaterBounded
SeqInv == Consumed /\ TakenSlot /\ SpanSlots

LEMMA TokenInit == Init => TokenInv
<1> SUFFICES ASSUME Init PROVE TokenInv
  OBVIOUS
<1>1. tpc["daemon"] = "top" /\ tpc["learner"] = "idle"
  BY DEF Init, Threads
<1>2. free = Depth /\ publishSeq = 0 /\ releaseSeq = 0 /\ highWater = 0 /\ cpc = "idle"
  BY DEF Init
<1>3. QED
  BY <1>1, <1>2, IngressAssumption DEF IngressAssumption, TokenInv, Tokens, WriterHasSlot,
     WakeAfterClose, HighWaterBounded, Bit, Holding, Writing, Releasing, Outstanding

LEMMA TokenNext == TypeInv /\ TokenInv /\ [Next]_vars => TokenInv'
<1> SUFFICES ASSUME TypeInv, TokenInv, [Next]_vars PROVE TokenInv'
  OBVIOUS
<1> USE IngressAssumption DEF IngressAssumption, TypeInv, TypeOK, LockInv, LockedSteps,
        Threads, vars, collectorVars, publication, threadVars, pipeline, committed,
        lifecycle, learnerSide, collectorSide, otherThanThreads
<1> USE DEF TokenInv, Tokens, WriterHasSlot, WakeAfterClose, HighWaterBounded, Bit, Holding,
        Writing, Releasing, Outstanding
<1>1. CASE AddBatch
  BY <1>1 DEF AddBatch
<1>2. CASE AcquireFree
  BY <1>2 DEF AcquireFree
<1>3. CASE AcquireTimesOut
  BY <1>3 DEF AcquireTimesOut
<1>4. CASE PollAgain
  BY <1>4 DEF PollAgain
<1>5. CASE RecheckClosed
  BY <1>5 DEF RecheckClosed
<1>6. CASE WriteFails
  BY <1>6 DEF WriteFails
<1>7. CASE WriteTransitionRows
  BY <1>7 DEF WriteTransitionRows
<1>8. CASE PatchTerminalNextObservations
  BY <1>8 DEF PatchTerminalNextObservations
<1>9. CASE PublishSpan
  BY <1>9 DEF PublishSpan
<1>10. CASE PublishSequence
  BY <1>10 DEF PublishSequence
<1>11. CASE SignalReady
  BY <1>11 DEF SignalReady
<1>12. CASE CollectorExits
  BY <1>12 DEF CollectorExits
<1>13. CASE CollectorKilled
  BY <1>13 DEF CollectorKilled
<1>14. CASE DeviceCopy
  BY <1>14 DEF DeviceCopy
<1>15. CASE DaemonDrains
  BY <1>15 DEF DaemonDrains, Lock
<1>16. CASE DaemonSubmits
  BY <1>16 DEF DaemonSubmits, Lock
<1>17. CASE DaemonExits
  BY <1>17 DEF DaemonExits
<1>18. CASE ReadCommittedFields
  BY <1>18 DEF ReadCommittedFields
<1>19. CASE ReaderSubmits
  BY <1>19 DEF ReaderSubmits, Lock
<1>20. CASE ReaderLocks
  BY <1>20 DEF ReaderLocks, Lock
<1>21. CASE Synchronize
  BY <1>21 DEF Synchronize
<1>22. CASE ClosePipeline
  BY <1>22 DEF ClosePipeline
<1>23. CASE SetStop
  BY <1>23 DEF SetStop
<1>24. CASE JoinReturns
  BY <1>24 DEF JoinReturns, Lock
<1>25. CASE CloserLocks
  BY <1>25 DEF CloserLocks, Lock
<1>26. CASE CloseBuffer
  BY <1>26 DEF CloseBuffer
<1>27. CASE WakeProducer
  BY <1>27 DEF WakeProducer
<1>28. ASSUME NEW t \in Threads, TakePublishedIngress(t) PROVE TokenInv'
  BY <1>28 DEF TakePublishedIngress
<1>29. ASSUME NEW t \in Threads, SubmitSpanCopy(t) PROVE TokenInv'
  BY <1>29 DEF SubmitSpanCopy
<1>30. ASSUME NEW t \in Threads, NEW error, Raise(t, error) PROVE TokenInv'
  BY <1>30 DEF Raise, Unlock, AfterRaise
<1>31. ASSUME NEW t \in Threads, NothingPublished(t) PROVE TokenInv'
  BY <1>31 DEF NothingPublished, Unlock, AfterRaise
<1>32. ASSUME NEW t \in Threads, CommitIngress(t) PROVE TokenInv'
  <2>1. UNCHANGED <<free, closed, cpc, publishSeq, highWater>> /\ tpc[t] = "drain"
    BY <1>32 DEF CommitIngress
  <2>2. CASE releaseSeq' = releaseSeq + 1 /\ tpc' = [tpc EXCEPT ![t] = "release"]
    BY <2>1, <2>2
  <2>3. CASE releaseSeq' = releaseSeq /\ tpc' = [tpc EXCEPT ![t] = AfterRaise(t)]
    BY <2>1, <2>3 DEF AfterRaise
  <2>4. QED
    BY <1>32, <2>2, <2>3 DEF CommitIngress, Unlock
<1>33. ASSUME NEW t \in Threads, ReleaseSlot(t) PROVE TokenInv'
  BY <1>33 DEF ReleaseSlot
<1>34. ASSUME NEW t \in Threads, Drained(t) PROVE TokenInv'
  BY <1>34 DEF Drained, Unlock, AfterRaise
<1>35. CASE UNCHANGED vars
  BY <1>35
<1>36. QED
  BY <1>1, <1>2, <1>3, <1>4, <1>5, <1>6, <1>7, <1>8, <1>9, <1>10, <1>11, <1>12, <1>13,
     <1>14, <1>15, <1>16, <1>17, <1>18, <1>19, <1>20, <1>21, <1>22, <1>23, <1>24, <1>25,
     <1>26, <1>27, <1>28, <1>29, <1>30, <1>31, <1>32, <1>33, <1>34, <1>35
  DEF Next, Collector, Daemon, Learner, SubmitOrDrain, RejectGap, DaemonFails, Terminated,
      Threads

LEMMA StepOfAtMostOne ==
  \A m \in Nat : \A n : (n = m \/ n = m + 1) => n \in Nat /\ n <= m + 1
  BY SMTT(30)

LEMMA SeqInit == Init => SeqInv
  BY SMTT(30) DEF Init, SeqInv, Consumed, TakenSlot, SpanSlots, Bit

LEMMA SeqNext == TypeInv /\ SeqInv /\ [Next]_vars => SeqInv'
<1> SUFFICES ASSUME TypeInv, SeqInv, [Next]_vars PROVE SeqInv'
  OBVIOUS
<1> USE IngressAssumption DEF IngressAssumption, TypeInv, TypeOK, Threads,
        vars, collectorVars, publication, threadVars, pipeline, committed,
        lifecycle, learnerSide, collectorSide, otherThanThreads
<1> USE DEF SeqInv, Consumed, TakenSlot, SpanSlots, Bit
<1>1. CASE AddBatch
  BY <1>1 DEF AddBatch
<1>2. CASE AcquireFree
  BY <1>2 DEF AcquireFree
<1>3. CASE AcquireTimesOut
  BY <1>3 DEF AcquireTimesOut
<1>4. CASE PollAgain
  BY <1>4 DEF PollAgain
<1>5. CASE RecheckClosed
  BY <1>5 DEF RecheckClosed
<1>6. CASE WriteFails
  BY <1>6 DEF WriteFails
<1>7. CASE WriteTransitionRows
  BY <1>7 DEF WriteTransitionRows
<1>8. CASE PatchTerminalNextObservations
  BY <1>8 DEF PatchTerminalNextObservations
<1>9. CASE PublishSpan
  BY <1>9 DEF PublishSpan
<1>10. CASE PublishSequence
  BY <1>10 DEF PublishSequence
<1>11. CASE SignalReady
  BY <1>11, SMTT(30) DEF SignalReady
<1>12. CASE CollectorExits
  BY <1>12 DEF CollectorExits
<1>13. CASE CollectorKilled
  BY <1>13 DEF CollectorKilled
<1>14. CASE DeviceCopy
  BY <1>14 DEF DeviceCopy
<1>15. CASE DaemonDrains
  BY <1>15 DEF DaemonDrains, Lock
<1>16. CASE DaemonSubmits
  BY <1>16 DEF DaemonSubmits, Lock
<1>17. CASE DaemonExits
  BY <1>17 DEF DaemonExits
<1>18. CASE ReadCommittedFields
  BY <1>18 DEF ReadCommittedFields
<1>19. CASE ReaderSubmits
  BY <1>19 DEF ReaderSubmits, Lock
<1>20. CASE ReaderLocks
  BY <1>20 DEF ReaderLocks, Lock
<1>21. CASE Synchronize
  BY <1>21 DEF Synchronize
<1>22. CASE ClosePipeline
  BY <1>22 DEF ClosePipeline
<1>23. CASE SetStop
  BY <1>23 DEF SetStop
<1>24. CASE JoinReturns
  BY <1>24 DEF JoinReturns, Lock
<1>25. CASE CloserLocks
  BY <1>25 DEF CloserLocks, Lock
<1>26. CASE CloseBuffer
  BY <1>26 DEF CloseBuffer
<1>27. CASE WakeProducer
  BY <1>27 DEF WakeProducer
<1>28. ASSUME NEW t \in Threads, TakePublishedIngress(t) PROVE SeqInv'
  <2>1. /\ consumeSeq' = consumeSeq + 1 /\ ready' = ready - 1
        /\ taken'.seq = consumeSeq /\ taken'.slot = consumeSeq % Depth
        /\ UNCHANGED <<cpc, publishSeq, releaseSeq, spans>>
    BY <1>28 DEF TakePublishedIngress
  <2>2. Consumed'
    BY <2>1
  <2>3. TakenSlot'
    <3>1. consumeSeq' - 1 = consumeSeq
      BY <2>1
    <3>2. QED
      BY <2>1, <3>1
  <2>4. SpanSlots'
    <3>1. \A i \in 1..Len(spans) : spans[i].seq \in Nat
      BY SpanFields
    <3>2. QED
      BY <2>1, <3>1
  <2>5. QED
    BY <2>2, <2>3, <2>4
<1>29. ASSUME NEW t \in Threads, SubmitSpanCopy(t) PROVE SeqInv'
  <2>1. /\ spans' = Append(spans, taken) /\ taken' = NoSpan /\ taken # NoSpan
        /\ UNCHANGED <<ready, cpc, publishSeq, releaseSeq, consumeSeq>>
    BY <1>29 DEF SubmitSpanCopy, TakenInv
  <2>2. /\ Len(spans') = Len(spans) + 1
        /\ \A i \in 1..Len(spans) : spans'[i] = spans[i]
        /\ spans'[Len(spans) + 1] = taken
    BY <2>1
  <2>3. Consumed' /\ TakenSlot'
    BY <2>1, <2>2
  <2>4. SpanSlots'
    <3>1. SUFFICES ASSUME NEW i \in 1..Len(spans')
                   PROVE  /\ releaseSeq + i - 1 <= spans'[i].seq /\ spans'[i].seq < consumeSeq
                          /\ spans'[i].slot = spans'[i].seq % Depth
      BY <2>1
    <3>2. CASE i \in 1..Len(spans)
      BY <2>2, <3>2
    <3>3. CASE i = Len(spans) + 1
      <4>1. releaseSeq + Len(spans) + 1 <= consumeSeq
        BY <2>1
      <4>2. taken.seq = consumeSeq - 1 /\ taken.slot = taken.seq % Depth
        BY <2>1
      <4>3. spans'[i] = taken
        BY <2>2, <3>3
      <4>4. Len(spans) \in Nat
        OBVIOUS
      <4>5. releaseSeq + i - 1 <= taken.seq /\ taken.seq < consumeSeq
        BY <3>3, <4>1, <4>2, <4>4
      <4>6. QED
        BY <4>2, <4>3, <4>5
    <3>4. i \in 1..Len(spans) \/ i = Len(spans) + 1
      BY <2>2
    <3>5. QED
      BY <3>2, <3>3, <3>4
  <2>5. QED
    BY <2>3, <2>4
<1>30. ASSUME NEW t \in Threads, NEW error, Raise(t, error) PROVE SeqInv'
  BY <1>30, SMTT(30) DEF Raise, Unlock
<1>31. ASSUME NEW t \in Threads, NothingPublished(t) PROVE SeqInv'
  BY <1>31 DEF NothingPublished, Unlock
<1>32. ASSUME NEW t \in Threads, CommitIngress(t) PROVE SeqInv'
  <2>1. /\ spans # <<>> /\ spans' = Tail(spans)
        /\ UNCHANGED <<ready, cpc, publishSeq, consumeSeq, taken>>
    BY <1>32 DEF CommitIngress
  <2>2. releaseSeq' = releaseSeq \/ releaseSeq' = releaseSeq + 1
    BY <1>32 DEF CommitIngress
  <2>3. releaseSeq \in Nat /\ releaseSeq' \in Nat /\ releaseSeq' <= releaseSeq + 1
    BY <2>2, StepOfAtMostOne
  <2>4. /\ Len(spans') = Len(spans) - 1
        /\ \A i \in 1..Len(spans') : spans'[i] = spans[i + 1] /\ i + 1 \in 1..Len(spans)
    BY <2>1
  <2>5. Consumed' /\ TakenSlot'
    <3>1. Len(spans) \in Nat
      OBVIOUS
    <3>2. releaseSeq' + Len(spans') <= releaseSeq + Len(spans)
      BY <2>3, <2>4, <3>1
    <3>3. Consumed'
      <4>1. consumeSeq + ready + Bit(cpc = "signal") <= publishSeq
        OBVIOUS
      <4>2. releaseSeq' + Len(spans') + Bit(taken # NoSpan) <= consumeSeq
        <5>1. releaseSeq + Len(spans) + Bit(taken # NoSpan) <= consumeSeq
          OBVIOUS
        <5>2. Bit(taken # NoSpan) \in Nat
          OBVIOUS
        <5> HIDE DEF Bit
        <5>3. Len(spans') \in Int
          BY <2>4, <3>1
        <5>4. QED
          BY <2>3, <3>1, <3>2, <5>1, <5>2, <5>3, SMTT(30)
      <4>3. QED
        BY <2>1, <4>1, <4>2
    <3>4. QED
      BY <2>1, <3>3
  <2>6. SpanSlots'
    <3>1. SUFFICES ASSUME NEW i \in 1..Len(spans')
                   PROVE  /\ releaseSeq' + i - 1 <= spans'[i].seq /\ spans'[i].seq < consumeSeq
                          /\ spans'[i].slot = spans'[i].seq % Depth
      BY <2>1
    <3>2. /\ releaseSeq + (i + 1) - 1 <= spans[i + 1].seq /\ spans[i + 1].seq < consumeSeq
          /\ spans[i + 1].slot = spans[i + 1].seq % Depth
      BY <2>4
    <3>3. spans[i + 1].seq \in Nat
      BY <2>4, SpanFields, SMTT(30)
    <3>4. releaseSeq' + i - 1 <= spans[i + 1].seq
      BY <2>3, <3>2, <3>3, SMTT(30)
    <3>5. spans'[i] = spans[i + 1]
      BY <2>4
    <3>6. QED
      BY <3>2, <3>4, <3>5
  <2>7. QED
    BY <2>5, <2>6
<1>33. ASSUME NEW t \in Threads, ReleaseSlot(t) PROVE SeqInv'
  BY <1>33 DEF ReleaseSlot
<1>34. ASSUME NEW t \in Threads, Drained(t) PROVE SeqInv'
  BY <1>34 DEF Drained, Unlock
<1>35. CASE UNCHANGED vars
  BY <1>35
<1>36. QED
  BY <1>1, <1>2, <1>3, <1>4, <1>5, <1>6, <1>7, <1>8, <1>9, <1>10, <1>11, <1>12, <1>13,
     <1>14, <1>15, <1>16, <1>17, <1>18, <1>19, <1>20, <1>21, <1>22, <1>23, <1>24, <1>25,
     <1>26, <1>27, <1>28, <1>29, <1>30, <1>31, <1>32, <1>33, <1>34, <1>35
  DEF Next, Collector, Daemon, Learner, SubmitOrDrain, RejectGap, DaemonFails, Terminated,
      Threads

\* The three invariants hold together.
IInv == TypeInv /\ TokenInv /\ SeqInv

LEMMA IInvInvariant == Spec => []IInv
<1>1. Init => IInv
  BY TypeInit, TokenInit, SeqInit DEF IInv
<1>2. IInv /\ [Next]_vars => IInv'
  BY TypeNext, TokenNext, SeqNext DEF IInv
<1>3. QED
  BY <1>1, <1>2, PTL DEF Spec

\* The diagnostics never report more than Depth outstanding chunks, although the
\* collector reads the released sequence after it has advanced its own (HighWaterBounded).
THEOREM HighWaterNeverExceedsDepth == Spec => []HighWaterBounded
<1>1. IInv => HighWaterBounded
  BY DEF IInv, TokenInv
<1>2. QED
  BY IInvInvariant, <1>1, PTL

\* The collector never writes a slot that a consumer holds or that a copy still reads,
\* with a closed buffer's spare tokens, a killed collector and a failed daemon included.
THEOREM WriterAndConsumersExclude == Spec => []SlotExclusion
<1>1. ASSUME IInv PROVE SlotExclusion
  <2>1. SUFFICES ASSUME cpc \in {"write", "patch", "publish", "sequence"}
                 PROVE  /\ taken # NoSpan => taken.slot # WriteSlot
                        /\ \A i \in 1..Len(spans) : spans[i].slot # WriteSlot
    BY DEF SlotExclusion
  <2>2. /\ Depth \in Nat \ {0} /\ publishSeq \in Nat /\ releaseSeq \in Nat
        /\ consumeSeq \in Nat /\ ready \in Nat /\ spans \in Seq(Span)
        /\ taken \in Span \cup {NoSpan}
    BY <1>1, IngressAssumption DEF IngressAssumption, IInv, TypeInv, TypeOK
  <2>3. publishSeq - releaseSeq < Depth
    BY <1>1, <2>1, <2>2 DEF IInv, TokenInv, WriterHasSlot, Writing, Outstanding, Bit
  <2>4. consumeSeq <= publishSeq
    BY <1>1, <2>2 DEF IInv, SeqInv, Consumed, Bit
  <2>5. ASSUME NEW n \in Nat, releaseSeq <= n, n < consumeSeq PROVE n % Depth # WriteSlot
    <3>1. n < publishSeq /\ publishSeq - n < Depth
      BY <2>2, <2>3, <2>4, <2>5
    <3>2. n % Depth # publishSeq % Depth
      BY <2>2, <3>1, SlotsDiffer
    <3>3. QED
      BY <3>2 DEF WriteSlot
  <2>6. ASSUME taken # NoSpan PROVE taken.slot # WriteSlot
    <3>1. taken.seq \in Nat
      BY <2>2, <2>6, SpanFields
    <3>2. releaseSeq + Len(spans) + 1 <= consumeSeq
      BY <1>1, <2>6 DEF IInv, SeqInv, Consumed, Bit
    <3>3. taken.seq = consumeSeq - 1 /\ taken.slot = taken.seq % Depth
      BY <1>1, <2>6 DEF IInv, SeqInv, TakenSlot
    <3>4. QED
      BY <2>2, <2>5, <3>1, <3>2, <3>3
  <2>7. ASSUME NEW i \in 1..Len(spans) PROVE spans[i].slot # WriteSlot
    <3>1. spans[i].seq \in Nat
      BY <2>2, SpanFields
    <3>2. /\ releaseSeq + i - 1 <= spans[i].seq /\ spans[i].seq < consumeSeq
          /\ spans[i].slot = spans[i].seq % Depth
      BY <1>1 DEF IInv, SeqInv, SpanSlots
    <3>3. QED
      BY <2>2, <2>5, <3>1, <3>2
  <2>8. QED
    BY <2>6, <2>7
<1>2. QED
  BY IInvInvariant, <1>1, PTL
-----------------------------------------------------------------------------
(***************************************************************************)
(* The log.  Between the release and the publish sequence the slots hold a *)
(* chain of chunks, each starting where the one before it ends; the spans  *)
(* are its first chunks, whatever a failed daemon has lost behind them.    *)
(***************************************************************************)
StartOf(n) == starts[n % Depth]
CountOf(n) == counts[n % Depth]
Chain == {n \in Nat : releaseSeq <= n /\ n < publishSeq}

\* Where chunk n of the log begins: behind the one before it, or behind the last committed.
Position(n) == IF n = releaseSeq THEN ptr ELSE StartOf(n - 1) + CountOf(n - 1)

InBatch == cpc \in {"acquire", "polled", "recheck", "write", "patch", "publish", "sequence",
                    "signal"}
RowsLeft == InBatch => left > 0
Chained ==
  \A n \in Chain :
    /\ StartOf(n) = Position(n) /\ CountOf(n) > 0
    /\ \A m \in Chain : n < m => StartOf(n) + CountOf(n) <= StartOf(m)
Ends ==
  /\ releaseSeq <= publishSeq
  /\ cpc \notin {"sequence", "killed"} => publishedPtr = Position(publishSeq)
  /\ cpc = "sequence" =>
       /\ StartOf(publishSeq) = Position(publishSeq) /\ CountOf(publishSeq) = Chunk
       /\ publishedPtr = StartOf(publishSeq) + CountOf(publishSeq)
LogInv == RowsLeft /\ Chained /\ Ends

LEMMA ChunkTypes ==
  ASSUME TypeOK, NEW n \in Nat
  PROVE  StartOf(n) \in Nat /\ CountOf(n) \in Nat /\ CountOf(n) <= SlotRows
<1>1. n % Depth \in Slots
  BY RemainderIsSlot
<1>2. starts[n % Depth] \in Nat /\ counts[n % Depth] \in 0..SlotRows
  BY <1>1 DEF TypeOK
<1>3. QED
  BY <1>2, IngressAssumption DEF IngressAssumption, StartOf, CountOf

\* Writing the current slot leaves the chain alone.
LEMMA ChainKept ==
  ASSUME TypeOK, Writing, WriterHasSlot, NEW n \in Chain
  PROVE  n % Depth # WriteSlot
<1>1. n \in Nat /\ publishSeq \in Nat /\ n < publishSeq /\ publishSeq - n < Depth
  BY IngressAssumption DEF IngressAssumption, TypeOK, Chain, WriterHasSlot, Outstanding, Bit
<1>2. QED
  BY <1>1, IngressAssumption, SlotsDiffer DEF IngressAssumption, WriteSlot

\* The steps that do not touch the log.
QuietStep ==
  /\ UNCHANGED <<starts, counts, publishedPtr, publishSeq, releaseSeq, ptr>>
  /\ cpc' = "sequence" => cpc = "sequence" /\ left' = left
  /\ cpc' \notin {"sequence", "killed"} => cpc \notin {"sequence", "killed"}
  /\ RowsLeft => RowsLeft'

LEMMA LogSteps ==
  ASSUME TypeInv, [Next]_vars
  PROVE  \/ PublishSpan \/ PublishSequence \/ QuietStep
         \/ \E t \in Threads : CommitIngress(t)
<1> USE DEF collectorVars, publication, threadVars, pipeline, committed,
        lifecycle, learnerSide, collectorSide, otherThanThreads
<1>1. CASE AddBatch
  BY <1>1, IngressAssumption DEF AddBatch, QuietStep, RowsLeft, InBatch, IngressAssumption
<1>2. CASE SignalReady
  BY <1>2, ChunkFits DEF SignalReady, QuietStep, RowsLeft, InBatch, TypeInv, TypeOK
<1>3. CASE \/ AcquireFree \/ AcquireTimesOut \/ PollAgain \/ RecheckClosed \/ WriteFails
           \/ WriteTransitionRows \/ PatchTerminalNextObservations
           \/ CollectorExits \/ CollectorKilled
  BY <1>3 DEF AcquireFree, AcquireTimesOut, PollAgain, RecheckClosed, WriteFails,
     WriteTransitionRows, PatchTerminalNextObservations, CollectorExits, CollectorKilled,
     QuietStep, RowsLeft, InBatch
<1>4. CASE \/ DaemonDrains \/ DaemonSubmits \/ DaemonExits \/ ReadCommittedFields \/ SetStop
           \/ ReaderSubmits \/ ReaderLocks \/ Synchronize \/ ClosePipeline
           \/ JoinReturns \/ CloserLocks \/ CloseBuffer \/ WakeProducer \/ DeviceCopy
  BY <1>4 DEF DaemonDrains, DaemonSubmits, DaemonExits, ReadCommittedFields, SetStop,
     ReaderSubmits, ReaderLocks, Synchronize, ClosePipeline, JoinReturns, CloserLocks,
     CloseBuffer, WakeProducer, DeviceCopy, QuietStep, RowsLeft, InBatch
<1>5. ASSUME NEW t \in Threads,
             \/ TakePublishedIngress(t) \/ SubmitSpanCopy(t) \/ RejectGap(t)
             \/ NothingPublished(t) \/ ReleaseSlot(t) \/ Drained(t)
      PROVE  QuietStep
  BY <1>5 DEF TakePublishedIngress, SubmitSpanCopy, RejectGap, Raise, NothingPublished,
     ReleaseSlot, Drained, QuietStep, RowsLeft, InBatch
<1>6. CASE DaemonFails
  BY <1>6 DEF DaemonFails, Raise, QuietStep, RowsLeft, InBatch
<1>7. CASE UNCHANGED vars
  BY <1>7 DEF vars, QuietStep, RowsLeft, InBatch
<1> QED
  BY <1>1, <1>2, <1>3, <1>4, <1>5, <1>6, <1>7
  DEF Next, Collector, Daemon, Learner, SubmitOrDrain, Terminated, Threads

LEMMA LogInit == Init => LogInv
BY DEF Init, LogInv, RowsLeft, InBatch, Chained, Chain, Ends, Position

\* The chain, and the end of it, from one state to the next.
LEMMA LogQuiet == ASSUME TypeOK, LogInv, QuietStep PROVE LogInv'
BY DEF TypeOK, LogInv, QuietStep, Chained, Ends, Chain, Position, StartOf, CountOf, Chunk, Least

LEMMA LogPublishSpan ==
  ASSUME TypeOK, TokenInv, LogInv, PublishSpan PROVE LogInv'
<1>1. /\ UNCHANGED <<publishSeq, releaseSeq, ptr, left>> /\ cpc' = "sequence" /\ cpc = "publish"
      /\ starts' = [starts EXCEPT ![WriteSlot] = publishedPtr]
      /\ counts' = [counts EXCEPT ![WriteSlot] = Chunk]
      /\ publishedPtr' = publishedPtr + Chunk
  BY DEF PublishSpan, learnerSide, committed
<1>2. /\ publishSeq \in Nat /\ releaseSeq \in Nat /\ publishSeq % Depth \in Slots
      /\ DOMAIN starts = Slots /\ DOMAIN counts = Slots
  BY RemainderIsSlot DEF TypeOK
<1>3. StartOf(publishSeq)' = publishedPtr /\ CountOf(publishSeq)' = Chunk
  BY <1>1, <1>2 DEF StartOf, CountOf, WriteSlot
<1>4. Chain' = Chain
  BY <1>1 DEF Chain
<1>5. \A n \in Chain : StartOf(n)' = StartOf(n) /\ CountOf(n)' = CountOf(n)
  BY <1>1, ChainKept DEF TokenInv, Writing, StartOf, CountOf
<1>6. \A n \in Nat : releaseSeq <= n /\ n <= publishSeq => Position(n)' = Position(n)
  BY <1>1, <1>2, <1>5 DEF Position, Chain
<1>7. Chained'
  BY <1>2, <1>4, <1>5, <1>6 DEF LogInv, Chained, Chain
<1>8. Ends'
  BY <1>1, <1>2, <1>3, <1>6 DEF LogInv, Ends, Chunk
<1>9. RowsLeft'
  BY <1>1 DEF LogInv, RowsLeft, InBatch
<1> QED
  BY <1>7, <1>8, <1>9 DEF LogInv

LEMMA LogPublishSequence ==
  ASSUME TypeOK, LogInv, PublishSequence PROVE LogInv'
<1>1. /\ UNCHANGED <<starts, counts, publishedPtr, releaseSeq, ptr, left>>
      /\ cpc = "sequence" /\ cpc' = "signal" /\ publishSeq' = publishSeq + 1
  BY DEF PublishSequence, learnerSide, committed
<1>2. publishSeq \in Nat /\ releaseSeq \in Nat
  BY DEF TypeOK
<1>3. \A n : StartOf(n)' = StartOf(n) /\ CountOf(n)' = CountOf(n) /\ Position(n)' = Position(n)
  BY <1>1 DEF StartOf, CountOf, Position
<1>4. \A n \in Nat : n \in Chain' <=> n \in Chain \/ n = publishSeq
  BY <1>1, <1>2 DEF Chain, LogInv, Ends
<1>5. CountOf(publishSeq) > 0
  <2>1. CountOf(publishSeq) = Chunk
    BY <1>1 DEF LogInv, Ends
  <2>2. left \in Nat /\ left > 0
    BY <1>1, IngressAssumption DEF IngressAssumption, TypeOK, LogInv, RowsLeft, InBatch
  <2> QED
    BY <2>1, <2>2, IngressAssumption DEF IngressAssumption, Chunk, Least
<1>6. \A n \in Chain : StartOf(n) + CountOf(n) <= StartOf(publishSeq)
  <2> SUFFICES ASSUME NEW n \in Chain PROVE StartOf(n) + CountOf(n) <= StartOf(publishSeq)
    OBVIOUS
  <2>1. publishSeq - 1 \in Chain /\ publishSeq # releaseSeq
    BY <1>2 DEF Chain
  <2>2. StartOf(publishSeq) = StartOf(publishSeq - 1) + CountOf(publishSeq - 1)
    BY <1>1, <2>1 DEF LogInv, Ends, Position
  <2>3. /\ StartOf(n) \in Nat /\ CountOf(n) \in Nat
        /\ StartOf(publishSeq - 1) \in Nat /\ CountOf(publishSeq - 1) \in Nat
    BY <2>1, ChunkTypes DEF Chain
  <2>4. n = publishSeq - 1 \/ n < publishSeq - 1
    BY <1>2 DEF Chain
  <2> QED
    BY <2>1, <2>2, <2>3, <2>4 DEF LogInv, Chained
<1>7. Chained'
  <2> SUFFICES ASSUME NEW n \in Chain'
               PROVE  /\ StartOf(n) = Position(n) /\ CountOf(n) > 0
                      /\ \A m \in Chain' : n < m => StartOf(n) + CountOf(n) <= StartOf(m)
    BY <1>3 DEF Chained
  <2>1. n \in Nat /\ (n \in Chain \/ n = publishSeq)
    BY <1>4 DEF Chain
  <2>2. StartOf(n) = Position(n) /\ CountOf(n) > 0
    BY <1>1, <1>5, <2>1 DEF LogInv, Chained, Ends
  <2>3. ASSUME NEW m \in Chain', n < m PROVE StartOf(n) + CountOf(n) <= StartOf(m)
    <3>1. m \in Nat /\ (m \in Chain \/ m = publishSeq)
      BY <1>4 DEF Chain
    <3>2. n \in Chain
      BY <1>2, <2>1, <2>3, <3>1 DEF Chain
    <3> QED
      BY <1>6, <2>3, <3>1, <3>2 DEF LogInv, Chained
  <2> QED
    BY <2>2, <2>3
<1>8. Ends'
  <2>1. Position(publishSeq + 1) = StartOf(publishSeq) + CountOf(publishSeq)
    BY <1>1, <1>2 DEF Position, LogInv, Ends
  <2> QED
    BY <1>1, <1>2, <1>3, <2>1 DEF LogInv, Ends
<1>9. RowsLeft'
  BY <1>1 DEF LogInv, RowsLeft, InBatch
<1> QED
  BY <1>7, <1>8, <1>9 DEF LogInv

\* The oldest chunk leaves the chain.
LEMMA LogCommit ==
  ASSUME TypeOK, LogInv, releaseSeq \in Chain,
         releaseSeq' = releaseSeq + 1, ptr' = StartOf(releaseSeq) + CountOf(releaseSeq),
         UNCHANGED <<starts, counts, publishedPtr, publishSeq, cpc, left>>
  PROVE  LogInv' /\ \A n \in Nat : n > releaseSeq => Position(n)' = Position(n)
<1>1. publishSeq \in Nat /\ releaseSeq \in Nat /\ releaseSeq < publishSeq
  BY DEF TypeOK, Chain
<1>2. \A n : StartOf(n)' = StartOf(n) /\ CountOf(n)' = CountOf(n)
  BY DEF StartOf, CountOf
<1>3. \A n \in Nat : n > releaseSeq => Position(n)' = Position(n)
  BY <1>1, <1>2 DEF Position
<1>4. \A n \in Nat : n \in Chain' => n \in Chain /\ n > releaseSeq
  BY <1>1 DEF Chain
<1>5. Chained'
  <2> SUFFICES ASSUME NEW n \in Chain'
               PROVE  /\ StartOf(n)' = Position(n)' /\ CountOf(n)' > 0
                      /\ \A m \in Chain' : n < m => StartOf(n)' + CountOf(n)' <= StartOf(m)'
    BY DEF Chained
  <2>1. n \in Nat /\ n \in Chain /\ n > releaseSeq
    BY <1>4 DEF Chain
  <2>2. \A m \in Chain' : m \in Chain
    BY <1>4 DEF Chain
  <2> QED
    BY <1>2, <1>3, <2>1, <2>2 DEF LogInv, Chained
<1>6. Ends' /\ RowsLeft'
  BY <1>1, <1>2, <1>3 DEF LogInv, Ends, RowsLeft, InBatch, Chunk, Least
<1> QED
  BY <1>3, <1>5, <1>6 DEF LogInv
-----------------------------------------------------------------------------
(***************************************************************************)
(* The pipeline.  The spans are the first chunks of the chain, in order,   *)
(* and the next to submit begins where the submitted rows end.  A failed   *)
(* thread loses the chunk it had taken: every later one then begins too    *)
(* far on and is refused.                                                  *)
(***************************************************************************)
NextSubmit == releaseSeq + Len(spans)
SpansInOrder ==
  \A i \in 1..Len(spans) :
    /\ spans[i].seq = releaseSeq + i - 1
    /\ spans[i].start = starts[spans[i].slot] /\ spans[i].count = counts[spans[i].slot]
TakenAsPublished ==
  taken # NoSpan => taken.start = starts[taken.slot] /\ taken.count = counts[taken.slot]
TakenByCopier == taken # NoSpan => \E t \in Threads : tpc[t] = "copy"
SubmittedEnds == submittedPtr = Position(NextSubmit)
NoneLost == fault = "none" => consumeSeq = NextSubmit + Bit(taken # NoSpan)
PipelineInv ==
  /\ SpansInOrder /\ TakenAsPublished /\ TakenByCopier /\ SubmittedEnds /\ NoneLost
  /\ fault # "order"

\* The steps that do not touch the pipeline.
QuietPipe ==
  /\ UNCHANGED <<starts, counts, releaseSeq, ptr, consumeSeq, taken, spans, submittedPtr, fault>>
  /\ \A t \in Threads : tpc[t] = "copy" => tpc'[t] = "copy"

LEMMA PipelineSteps ==
  ASSUME TypeInv, [Next]_vars
  PROVE  \/ PublishSpan \/ QuietPipe \/ DaemonFails
         \/ \E t \in Threads : \/ TakePublishedIngress(t) \/ SubmitSpanCopy(t)
                                \/ RejectGap(t) \/ CommitIngress(t)
<1> USE DEF collectorVars, publication, threadVars, pipeline, committed,
        lifecycle, learnerSide, collectorSide, otherThanThreads
<1>1. CASE \/ AddBatch \/ AcquireFree \/ AcquireTimesOut \/ PollAgain \/ RecheckClosed
           \/ WriteFails \/ WriteTransitionRows \/ PatchTerminalNextObservations
           \/ PublishSequence \/ SignalReady \/ CollectorExits \/ CollectorKilled
           \/ SetStop \/ WakeProducer \/ DeviceCopy
  BY <1>1 DEF AddBatch, AcquireFree, AcquireTimesOut, PollAgain, RecheckClosed, WriteFails,
     WriteTransitionRows, PatchTerminalNextObservations, PublishSequence, SignalReady,
     CollectorExits, CollectorKilled, SetStop, WakeProducer, DeviceCopy, QuietPipe
<1>2. CASE \/ DaemonDrains \/ DaemonSubmits \/ DaemonExits \/ ReadCommittedFields
           \/ ReaderSubmits \/ ReaderLocks \/ Synchronize \/ ClosePipeline
           \/ JoinReturns \/ CloserLocks \/ CloseBuffer
  BY <1>2, ZenonT(30) DEF DaemonDrains, DaemonSubmits, DaemonExits, ReadCommittedFields, Lock,
     ReaderSubmits, ReaderLocks, Synchronize, ClosePipeline, JoinReturns, CloserLocks,
     CloseBuffer, QuietPipe, TypeInv, TypeOK
<1>3. ASSUME NEW t \in Threads, NothingPublished(t) \/ ReleaseSlot(t) \/ Drained(t)
      PROVE  QuietPipe
  BY <1>3 DEF NothingPublished, ReleaseSlot, Drained, Unlock, QuietPipe, TypeInv, TypeOK
<1>4. CASE UNCHANGED vars
  BY <1>4 DEF vars, QuietPipe
<1> QED
  BY <1>1, <1>2, <1>3, <1>4
  DEF Next, Collector, Daemon, Learner, SubmitOrDrain, Terminated, Threads

LEMMA PipelineInit == Init => PipelineInv
BY DEF Init, PipelineInv, SpansInOrder, TakenAsPublished, TakenByCopier, SubmittedEnds,
   NoneLost, NextSubmit, Position, Bit

LEMMA PipelineQuiet == ASSUME PipelineInv, QuietPipe PROVE PipelineInv'
BY DEF QuietPipe, PipelineInv, SpansInOrder, TakenAsPublished, TakenByCopier, SubmittedEnds,
   NoneLost, NextSubmit, Position, StartOf, CountOf, Bit

\* The chunk before the next to submit is in the chain.
LEMMA SubmittedInChain ==
  ASSUME TypeInv, SeqInv
  PROVE  /\ NextSubmit \in Nat /\ releaseSeq <= NextSubmit /\ NextSubmit <= publishSeq
         /\ NextSubmit # releaseSeq => NextSubmit - 1 \in Chain
<1>1. /\ publishSeq \in Nat /\ releaseSeq \in Nat /\ consumeSeq \in Nat /\ ready \in Nat
      /\ Len(spans) \in Nat
  BY DEF TypeInv, TypeOK
<1>2. Bit(taken # NoSpan) \in Nat /\ Bit(cpc = "signal") \in Nat
  BY DEF Bit
<1> QED
  BY <1>1, <1>2 DEF SeqInv, Consumed, NextSubmit, Chain

LEMMA PipelinePublishSpan ==
  ASSUME TypeInv, TokenInv, SeqInv, SlotExclusion, PipelineInv, PublishSpan
  PROVE  PipelineInv'
<1>1. /\ UNCHANGED <<publishSeq, releaseSeq, ptr, consumeSeq, taken, spans, submittedPtr,
                     fault, tpc>>
      /\ starts' = [starts EXCEPT ![WriteSlot] = publishedPtr]
      /\ counts' = [counts EXCEPT ![WriteSlot] = Chunk]
      /\ cpc = "publish"
  BY DEF PublishSpan, learnerSide, committed, threadVars, pipeline, lifecycle
<1>2. \A s : s # WriteSlot => starts'[s] = starts[s] /\ counts'[s] = counts[s]
  BY <1>1
<1>3. /\ taken # NoSpan => taken.slot # WriteSlot
      /\ \A i \in 1..Len(spans) : spans[i].slot # WriteSlot
  BY <1>1 DEF SlotExclusion
<1>4. SpansInOrder' /\ TakenAsPublished' /\ TakenByCopier'
  BY <1>1, <1>2, <1>3 DEF PipelineInv, SpansInOrder, TakenAsPublished, TakenByCopier
<1>5. Position(NextSubmit)' = Position(NextSubmit)
  <2>1. NextSubmit' = NextSubmit
    BY <1>1 DEF NextSubmit
  <2>2. CASE NextSubmit = releaseSeq
    BY <1>1, <2>1, <2>2 DEF Position
  <2>3. CASE NextSubmit # releaseSeq
    <3>1. (NextSubmit - 1) % Depth # WriteSlot
      BY <1>1, <2>3, SubmittedInChain, ChainKept DEF TokenInv, TypeInv, Writing
    <3> QED
      BY <1>1, <1>2, <2>1, <2>3, <3>1 DEF Position, StartOf, CountOf
  <2> QED
    BY <2>2, <2>3
<1> QED
  BY <1>1, <1>4, <1>5 DEF PipelineInv, SubmittedEnds, NoneLost, NextSubmit

LEMMA PipelineTake ==
  ASSUME TypeInv, SeqInv, PipelineInv, NEW t \in Threads, TakePublishedIngress(t)
  PROVE  PipelineInv'
<1>1. /\ UNCHANGED <<starts, counts, releaseSeq, ptr, spans, submittedPtr, fault>>
      /\ tpc[t] = "submit" /\ tpc' = [tpc EXCEPT ![t] = "copy"]
      /\ consumeSeq' = consumeSeq + 1
      /\ taken' = [seq |-> consumeSeq, slot |-> consumeSeq % Depth,
                   start |-> starts[consumeSeq % Depth], count |-> counts[consumeSeq % Depth]]
  BY DEF TakePublishedIngress, publication, committed, lifecycle, collectorSide
<1>2. taken = NoSpan
  BY <1>1 DEF PipelineInv, TakenByCopier, TypeInv, LockInv, LockedSteps
<1>3. consumeSeq \in Nat /\ taken' # NoSpan
  BY <1>1 DEF TypeInv, TypeOK, NoSpan
<1>4. SpansInOrder' /\ TakenAsPublished'
  BY <1>1 DEF PipelineInv, SpansInOrder, TakenAsPublished
<1>5. TakenByCopier'
  BY <1>1 DEF TakenByCopier, TypeInv, TypeOK
<1>6. SubmittedEnds' /\ NextSubmit' = NextSubmit
  BY <1>1 DEF PipelineInv, SubmittedEnds, NextSubmit, Position, StartOf, CountOf
<1>7. NoneLost'
  <2>1. NextSubmit \in Nat
    BY SubmittedInChain
  <2> QED
    BY <1>1, <1>2, <1>3, <1>6, <2>1 DEF PipelineInv, NoneLost, Bit
<1> QED
  BY <1>1, <1>4, <1>5, <1>6, <1>7 DEF PipelineInv

\* A chunk that begins where the submitted rows end is the next one.
LEMMA TakenIsNext ==
  ASSUME TypeInv, SeqInv, LogInv, PipelineInv, taken # NoSpan
  PROVE  /\ taken.seq \in Chain /\ taken.slot = taken.seq % Depth
         /\ taken.start = StartOf(taken.seq) /\ taken.count = CountOf(taken.seq)
         /\ taken.start = submittedPtr => taken.seq = NextSubmit
         /\ taken.seq = NextSubmit => taken.start = submittedPtr
<1>1. /\ publishSeq \in Nat /\ consumeSeq \in Nat /\ ready \in Nat /\ releaseSeq \in Nat
      /\ Len(spans) \in Nat /\ taken.seq \in Nat
  BY SpanFields DEF TypeInv, TypeOK
<1>2. taken.seq = consumeSeq - 1 /\ taken.slot = taken.seq % Depth
  BY DEF SeqInv, TakenSlot
<1>3. NextSubmit <= taken.seq /\ taken.seq < publishSeq
  BY <1>1, <1>2 DEF SeqInv, Consumed, NextSubmit, Bit
<1>4. NextSubmit \in Nat /\ releaseSeq <= NextSubmit
  BY SubmittedInChain
<1>5. taken.seq \in Chain /\ NextSubmit \in Chain
  BY <1>1, <1>3, <1>4 DEF Chain
<1>6. taken.start = StartOf(taken.seq) /\ taken.count = CountOf(taken.seq)
  BY <1>2 DEF PipelineInv, TakenAsPublished, StartOf, CountOf
<1>7. submittedPtr = StartOf(NextSubmit) /\ CountOf(NextSubmit) > 0
  BY <1>5 DEF PipelineInv, SubmittedEnds, LogInv, Chained
<1>8. StartOf(NextSubmit) \in Nat /\ CountOf(NextSubmit) \in Nat /\ StartOf(taken.seq) \in Nat
  BY <1>1, <1>4, ChunkTypes DEF TypeInv
<1>9. NextSubmit < taken.seq => StartOf(NextSubmit) + CountOf(NextSubmit) <= StartOf(taken.seq)
  BY <1>5 DEF LogInv, Chained
<1> QED
  BY <1>1, <1>2, <1>3, <1>4, <1>5, <1>6, <1>7, <1>8, <1>9

LEMMA PipelineSubmit ==
  ASSUME TypeInv, SeqInv, LogInv, PipelineInv, NEW t \in Threads, SubmitSpanCopy(t)
  PROVE  PipelineInv'
<1>1. /\ UNCHANGED <<starts, counts, releaseSeq, ptr, consumeSeq, fault>>
      /\ spans' = Append(spans, taken) /\ taken' = NoSpan
      /\ submittedPtr' = taken.start + taken.count
      /\ taken.start = submittedPtr /\ taken # NoSpan
  BY DEF SubmitSpanCopy, publication, committed, lifecycle, collectorSide, TypeInv, TakenInv
<1>2. /\ releaseSeq \in Nat /\ spans \in Seq(Span) /\ taken \in Span /\ Len(spans) \in Nat
  BY <1>1 DEF TypeInv, TypeOK
<1>3. /\ Len(spans') = Len(spans) + 1 /\ spans'[Len(spans) + 1] = taken
      /\ \A i \in 1..Len(spans) : spans'[i] = spans[i]
  BY <1>1, <1>2
<1>4. /\ taken.seq = NextSubmit /\ taken.start = StartOf(NextSubmit)
      /\ taken.count = CountOf(NextSubmit)
  BY <1>1, TakenIsNext
<1>5. NextSubmit \in Nat /\ NextSubmit' = NextSubmit + 1 /\ releaseSeq <= NextSubmit
  BY <1>1, <1>2, <1>3, SubmittedInChain DEF NextSubmit
<1>6. SpansInOrder'
  <2> SUFFICES ASSUME NEW i \in 1..Len(spans')
               PROVE  /\ spans'[i].seq = releaseSeq + i - 1
                      /\ spans'[i].start = starts[spans'[i].slot]
                      /\ spans'[i].count = counts[spans'[i].slot]
    BY <1>1 DEF SpansInOrder
  <2>1. CASE i \in 1..Len(spans)
    BY <1>3, <2>1 DEF PipelineInv, SpansInOrder
  <2>2. CASE i = Len(spans) + 1
    <3>1. spans'[i] = taken
      BY <1>3, <2>2
    <3>2. taken.seq = releaseSeq + i - 1
      BY <1>2, <1>4, <2>2 DEF NextSubmit
    <3> QED
      BY <1>1, <3>1, <3>2 DEF PipelineInv, TakenAsPublished
  <2> QED
    BY <1>2, <1>3, <2>1, <2>2
<1>7. SubmittedEnds'
  <2>1. NextSubmit' # releaseSeq' /\ NextSubmit' - 1 = NextSubmit
    BY <1>1, <1>2, <1>5
  <2>2. Position(NextSubmit)' = starts[NextSubmit % Depth] + counts[NextSubmit % Depth]
    BY <1>1, <2>1 DEF Position, StartOf, CountOf
  <2> QED
    BY <1>1, <1>4, <2>2 DEF SubmittedEnds, StartOf, CountOf
<1>8. TakenAsPublished' /\ TakenByCopier'
  BY <1>1 DEF TakenAsPublished, TakenByCopier
<1>9. NoneLost'
  BY <1>1, <1>5 DEF PipelineInv, NoneLost, Bit
<1> QED
  BY <1>1, <1>6, <1>7, <1>8, <1>9 DEF PipelineInv

\* The oldest span is the chunk to release next, so the checks of commit_ingress pass.
LEMMA CommitsInOrder ==
  ASSUME TypeInv, SeqInv, LogInv, PipelineInv, NEW t \in Threads, CommitIngress(t)
  PROVE  /\ spans # <<>> /\ releaseSeq \in Chain
         /\ releaseSeq' = releaseSeq + 1 /\ ptr' = StartOf(releaseSeq) + CountOf(releaseSeq)
         /\ size' = CommittedSize(ptr') /\ fault' = fault
         /\ tpc[t] = "drain" /\ tpc' = [tpc EXCEPT ![t] = "release"]
<1>1. copied > 0 /\ copied <= Len(spans) /\ spans \in Seq(Span) /\ Len(spans) \in Nat
  BY DEF CommitIngress, TypeInv, TypeOK
<1>2. spans # <<>> /\ Head(spans) = spans[1] /\ 1 \in 1..Len(spans)
  BY <1>1 DEF TypeInv, TypeOK
<1>3. releaseSeq \in Nat /\ publishSeq \in Nat /\ consumeSeq \in Nat /\ ready \in Nat
  BY DEF TypeInv, TypeOK
<1>4. /\ spans[1].seq = releaseSeq /\ spans[1].slot = releaseSeq % Depth
      /\ spans[1].start = StartOf(releaseSeq) /\ spans[1].count = CountOf(releaseSeq)
  <2>1. spans[1].seq = releaseSeq
    BY <1>2, <1>3 DEF PipelineInv, SpansInOrder
  <2>2. spans[1].slot = releaseSeq % Depth
    BY <1>2, <2>1 DEF SeqInv, SpanSlots
  <2> QED
    BY <1>2, <2>1, <2>2 DEF PipelineInv, SpansInOrder, StartOf, CountOf
<1>5. releaseSeq \in Chain
  <2>1. Len(spans) > 0
    BY <1>1 DEF TypeInv, TypeOK
  <2> QED
    BY <1>1, <1>3, <2>1 DEF SeqInv, Consumed, Bit, Chain
<1>6. StartOf(releaseSeq) = ptr
  BY <1>5 DEF LogInv, Chained, Position
<1> QED
  BY <1>2, <1>4, <1>5, <1>6 DEF CommitIngress

LEMMA PipelineCommit ==
  ASSUME TypeInv, SeqInv, LogInv, PipelineInv, NEW t \in Threads, CommitIngress(t)
  PROVE  LogInv' /\ PipelineInv'
<1>1. /\ UNCHANGED <<starts, counts, publishedPtr, publishSeq, cpc, left, consumeSeq, taken,
                     submittedPtr>>
      /\ spans' = Tail(spans)
  BY DEF CommitIngress, publication, collectorSide, collectorVars
<1>2. /\ spans # <<>> /\ releaseSeq \in Chain
      /\ releaseSeq' = releaseSeq + 1 /\ ptr' = StartOf(releaseSeq) + CountOf(releaseSeq)
      /\ fault' = fault /\ tpc[t] = "drain" /\ tpc' = [tpc EXCEPT ![t] = "release"]
  BY CommitsInOrder
<1>3. LogInv' /\ \A n \in Nat : n > releaseSeq => Position(n)' = Position(n)
  BY <1>1, <1>2, LogCommit DEF TypeInv
<1>4. releaseSeq \in Nat /\ spans \in Seq(Span) /\ Len(spans) \in Nat /\ Len(spans) > 0
  BY <1>2 DEF TypeInv, TypeOK
<1>5. /\ Len(spans') = Len(spans) - 1
      /\ \A i \in 1..Len(spans') : spans'[i] = spans[i + 1] /\ i + 1 \in 1..Len(spans)
  BY <1>1, <1>2, <1>4
<1>6. NextSubmit' = NextSubmit /\ NextSubmit \in Nat /\ NextSubmit > releaseSeq
  BY <1>2, <1>4, <1>5 DEF NextSubmit
<1>7. SpansInOrder'
  <2> SUFFICES ASSUME NEW i \in 1..Len(spans')
               PROVE  /\ spans'[i].seq = releaseSeq' + i - 1
                      /\ spans'[i].start = starts[spans'[i].slot]
                      /\ spans'[i].count = counts[spans'[i].slot]
    BY <1>1 DEF SpansInOrder
  <2>1. spans'[i] = spans[i + 1] /\ i + 1 \in 1..Len(spans) /\ i \in Nat
    BY <1>5
  <2>2. spans[i + 1].seq = releaseSeq + (i + 1) - 1
    BY <2>1 DEF PipelineInv, SpansInOrder
  <2>3. spans[i + 1].seq = releaseSeq' + i - 1
    BY <1>2, <1>4, <2>1, <2>2
  <2> QED
    BY <2>1, <2>3 DEF PipelineInv, SpansInOrder
<1>8. SubmittedEnds' /\ NoneLost'
  BY <1>1, <1>2, <1>3, <1>6 DEF PipelineInv, SubmittedEnds, NoneLost
<1>9. TakenAsPublished' /\ TakenByCopier'
  BY <1>1, <1>2 DEF PipelineInv, TakenAsPublished, TakenByCopier, TypeInv, TypeOK
<1> QED
  BY <1>2, <1>3, <1>7, <1>8, <1>9 DEF PipelineInv

LEMMA PipelineRaise ==
  ASSUME TypeInv, PipelineInv, NEW t \in Threads, NEW error \in {"gap", "daemon"},
         Raise(t, error)
  PROVE  PipelineInv'
<1>1. /\ UNCHANGED <<starts, counts, releaseSeq, ptr, consumeSeq, spans, submittedPtr>>
      /\ taken' = NoSpan /\ fault' = error
  BY DEF Raise, publication, collectorSide, committed
<1> QED
  BY <1>1 DEF PipelineInv, SpansInOrder, TakenAsPublished, TakenByCopier, SubmittedEnds,
     NoneLost, NextSubmit, Position, StartOf, CountOf
-----------------------------------------------------------------------------
\* The log and the pipeline are right together.
OrderInv == IInv /\ SlotExclusion /\ LogInv /\ PipelineInv

LEMMA OrderNext ==
  ASSUME OrderInv, IInv', SlotExclusion', [Next]_vars PROVE OrderInv'
<1>1. TypeInv /\ TypeOK /\ TokenInv /\ SeqInv /\ SlotExclusion /\ LogInv /\ PipelineInv
  BY DEF OrderInv, IInv, TypeInv
<1>2. LogInv'
  BY <1>1, LogSteps, LogQuiet, LogPublishSpan, LogPublishSequence, PipelineCommit
<1>3. PipelineInv'
  BY <1>1, PipelineSteps, PipelineQuiet, PipelinePublishSpan, PipelineTake, PipelineSubmit,
     PipelineCommit, PipelineRaise DEF RejectGap, DaemonFails, Threads
<1> QED
  BY <1>2, <1>3 DEF OrderInv

LEMMA OrderInvariant == Spec => []OrderInv
<1>1. Init => LogInv /\ PipelineInv
  BY LogInit, PipelineInit
<1>2. IInv /\ SlotExclusion /\ LogInv /\ PipelineInv <=> OrderInv
  BY DEF OrderInv
<1> QED
  BY <1>1, <1>2, OrderNext, IInvInvariant, WriterAndConsumersExclude, PTL DEF Spec

\* The contiguity and order checks never fire by themselves: a gap is only ever seen
\* behind a failed daemon, and no commit is out of order (OrderChecksNeverFire).
THEOREM ChecksNeverFire == Spec => OrderChecksNeverFire
<1>1. ASSUME OrderInv, [Next]_vars, fault' # fault
      PROVE  fault' = "daemon" \/ (fault' = "gap" /\ fault = "daemon")
  <2>1. TypeInv /\ SeqInv /\ LogInv /\ PipelineInv
    BY <1>1 DEF OrderInv, IInv
  <2>2. CASE \E t \in Threads : CommitIngress(t)
    BY <1>1, <2>1, <2>2, CommitsInOrder
  <2>3. CASE DaemonFails
    BY <2>3 DEF DaemonFails, Raise
  <2>4. ASSUME NEW t \in Threads, RejectGap(t) PROVE fault' = "gap" /\ fault = "daemon"
    <3>1. fault' = "gap" /\ taken.start # submittedPtr /\ taken # NoSpan
      BY <2>1, <2>4 DEF RejectGap, Raise, Unlock, TypeInv, TakenInv
    <3>2. fault \in {"none", "gap", "order", "daemon"} /\ fault # "order"
      BY <2>1 DEF TypeInv, TypeOK, PipelineInv
    <3>3. fault # "none"
      <4> SUFFICES ASSUME fault = "none" PROVE FALSE
        OBVIOUS
      <4>1. consumeSeq = NextSubmit + 1 /\ taken.seq = consumeSeq - 1
        BY <2>1, <3>1 DEF PipelineInv, NoneLost, Bit, SeqInv, TakenSlot
      <4>2. NextSubmit \in Nat
        BY <2>1, SubmittedInChain
      <4>3. taken.seq = NextSubmit
        BY <4>1, <4>2
      <4> QED
        BY <2>1, <3>1, <4>3, TakenIsNext
    <3> QED
      BY <1>1, <3>1, <3>2, <3>3
  <2>5. CASE QuietPipe \/ PublishSpan \/ (\E t \in Threads : TakePublishedIngress(t) \/ SubmitSpanCopy(t))
    BY <1>1, <2>5 DEF QuietPipe, PublishSpan, TakePublishedIngress, SubmitSpanCopy,
       learnerSide, lifecycle
  <2> QED
    BY <1>1, <2>1, <2>2, <2>3, <2>4, <2>5, PipelineSteps
<1> QED
  BY <1>1, OrderInvariant, PTL DEF Spec, OrderChecksNeverFire
-----------------------------------------------------------------------------
(***************************************************************************)
(* The refinement of ReplayLog: publishing the sequence publishes a chunk, *)
(* committing commits the oldest, and no other step is seen.               *)
(***************************************************************************)
Pending == [i \in 1..(publishSeq - releaseSeq) |-> counts[(releaseSeq + i - 1) % Depth]]

LEMMA SequencesEqual ==
  ASSUME NEW S, NEW s \in Seq(S), NEW t \in Seq(S), Len(s) = Len(t),
         \A i \in 1..Len(s) : s[i] = t[i]
  PROVE  s = t
OBVIOUS

LEMMA Appended ==
  ASSUME NEW S, NEW s \in Seq(S), NEW x \in S
  PROVE  /\ Append(s, x) \in Seq(S) /\ Len(Append(s, x)) = Len(s) + 1
         /\ \A i \in 1..Len(s) : Append(s, x)[i] = s[i]
         /\ Append(s, x)[Len(s) + 1] = x
OBVIOUS

LEMMA SequenceOf ==
  ASSUME NEW S, NEW n \in Nat, NEW s \in [1..n -> S] PROVE s \in Seq(S) /\ Len(s) = n
BY SMT DEF Len, Seq

LEMMA PendingType ==
  ASSUME NEW c \in [Slots -> 0..SlotRows], NEW first \in Nat, NEW end \in Nat, first <= end
  PROVE  /\ end - first \in Nat
         /\ \A i \in 1..(end - first) : c[(first + i - 1) % Depth] \in Nat
<1>1. ASSUME NEW i \in 1..(end - first) PROVE c[(first + i - 1) % Depth] \in Nat
  <2>1. first + i - 1 \in Nat
    OBVIOUS
  <2>2. c[(first + i - 1) % Depth] \in 0..SlotRows
    BY <2>1, RemainderIsSlot
  <2> QED
    BY <2>2, IngressAssumption DEF IngressAssumption
<1> QED
  BY <1>1

LEMMA PendingNow ==
  ASSUME TypeOK, releaseSeq <= publishSeq
  PROVE  /\ Pending \in Seq(Nat) /\ Len(Pending) = publishSeq - releaseSeq
         /\ \A i \in 1..Len(Pending) : Pending[i] = CountOf(releaseSeq + i - 1)
<1> DEFINE n == publishSeq - releaseSeq
<1>1. n \in Nat /\ \A i \in 1..n : counts[(releaseSeq + i - 1) % Depth] \in Nat
  BY PendingType DEF TypeOK
<1>2. Pending = [i \in 1..n |-> counts[(releaseSeq + i - 1) % Depth]]
  BY DEF Pending
<1> HIDE DEF n, Pending
<1>3. Pending \in [1..n -> Nat]
  BY <1>1, <1>2
<1>4. Pending \in Seq(Nat) /\ Len(Pending) = n
  BY <1>1, <1>3, SequenceOf
<1> QED
  BY <1>2, <1>4 DEF n, CountOf

LEMMA PendingNext ==
  ASSUME TypeOK', releaseSeq' <= publishSeq'
  PROVE  /\ Pending' \in Seq(Nat) /\ Len(Pending') = publishSeq' - releaseSeq'
         /\ \A i \in 1..Len(Pending') : Pending'[i] = counts'[(releaseSeq' + i - 1) % Depth]
<1> DEFINE n == publishSeq' - releaseSeq'
<1>1. n \in Nat /\ \A i \in 1..n : counts'[(releaseSeq' + i - 1) % Depth] \in Nat
  BY PendingType DEF TypeOK
<1>2. Pending' = [i \in 1..n |-> counts'[(releaseSeq' + i - 1) % Depth]]
  BY DEF Pending
<1> HIDE DEF n, Pending
<1>3. Pending' \in [1..n -> Nat]
  BY <1>1, <1>2
<1>4. Pending' \in Seq(Nat) /\ Len(Pending') = n
  BY <1>1, <1>3, SequenceOf
<1> QED
  BY <1>2, <1>4 DEF n

LEMMA PublishIsPublish ==
  ASSUME OrderInv, OrderInv', PublishSequence
  PROVE  \E rows \in 1..SlotRows : Log!Publish(rows)
<1>1. /\ TypeOK /\ LogInv /\ WriterHasSlot /\ TypeOK' /\ releaseSeq' <= publishSeq'
      /\ releaseSeq <= publishSeq
  BY DEF OrderInv, IInv, TypeInv, TokenInv, LogInv, Ends
<1>2. /\ UNCHANGED <<starts, counts, releaseSeq, ptr>> /\ cpc = "sequence"
      /\ publishSeq' = publishSeq + 1
  BY DEF PublishSequence, learnerSide, committed
<1>3. publishSeq \in Nat /\ releaseSeq \in Nat
  BY <1>1 DEF TypeOK
<1>4. publishSeq \in Chain'
  BY <1>1, <1>2, <1>3 DEF Chain
<1>5. CountOf(publishSeq) > 0 /\ CountOf(publishSeq) \in Nat /\ CountOf(publishSeq) <= SlotRows
  <2>1. \A n \in Chain' : counts'[n % Depth] > 0
    BY DEF OrderInv, LogInv, Chained, CountOf
  <2>2. CountOf(publishSeq) > 0
    BY <1>2, <1>4, <2>1 DEF CountOf
  <2> QED
    BY <1>1, <1>3, <2>2, ChunkTypes
<1>6. Len(Pending) < Depth
  <2>1. Len(Pending) = publishSeq - releaseSeq
    BY <1>1, PendingNow
  <2> QED
    BY <1>1, <1>2, <1>3, <2>1, IngressAssumption
    DEF IngressAssumption, WriterHasSlot, Writing, Outstanding, Bit
<1>7. Pending' = Append(Pending, CountOf(publishSeq))
  <2>1. /\ Pending \in Seq(Nat) /\ Len(Pending) = publishSeq - releaseSeq
        /\ \A i \in 1..Len(Pending) : Pending[i] = CountOf(releaseSeq + i - 1)
    BY <1>1, PendingNow
  <2>2. /\ Pending' \in Seq(Nat) /\ Len(Pending') = publishSeq' - releaseSeq'
        /\ \A i \in 1..Len(Pending') : Pending'[i] = CountOf(releaseSeq + i - 1)
    BY <1>1, <1>2, PendingNext DEF CountOf
  <2> HIDE DEF Pending
  <2> DEFINE longer == Append(Pending, CountOf(publishSeq))
  <2>3. /\ longer \in Seq(Nat) /\ Len(longer) = Len(Pending) + 1
        /\ \A i \in 1..Len(Pending) : longer[i] = Pending[i]
        /\ longer[Len(Pending) + 1] = CountOf(publishSeq)
    BY <1>5, <2>1, Appended
  <2> HIDE DEF longer
  <2>4. ASSUME NEW i \in 1..Len(longer) PROVE longer[i] = CountOf(releaseSeq + i - 1)
    <3>1. CASE i \in 1..Len(Pending)
      BY <2>1, <2>3, <3>1
    <3>2. CASE i = Len(Pending) + 1
      <4>1. longer[i] = CountOf(publishSeq)
        BY <2>3, <3>2
      <4>2. releaseSeq + i - 1 = publishSeq
        BY <1>3, <2>1, <3>2
      <4> QED
        BY <4>1, <4>2
    <3> QED
      BY <2>1, <2>3, <3>1, <3>2
  <2>5. Len(Pending') = Len(longer)
    BY <1>2, <1>3, <2>1, <2>2, <2>3
  <2> QED
    BY <2>2, <2>3, <2>4, <2>5, SequencesEqual
<1>8. CountOf(publishSeq) \in 1..SlotRows
  BY <1>5, IngressAssumption DEF IngressAssumption
<1> QED
  BY <1>2, <1>6, <1>7, <1>8 DEF Log!Publish, Pending

LEMMA CommitIsCommit ==
  ASSUME OrderInv, OrderInv', NEW t \in Threads, CommitIngress(t) PROVE Log!Commit
<1>1. /\ TypeOK /\ TypeOK' /\ releaseSeq' <= publishSeq' /\ releaseSeq <= publishSeq
  BY DEF OrderInv, IInv, TypeInv, LogInv, Ends
<1>2. /\ UNCHANGED <<counts, publishSeq>> /\ releaseSeq \in Chain
      /\ releaseSeq' = releaseSeq + 1 /\ ptr' = StartOf(releaseSeq) + CountOf(releaseSeq)
  BY CommitsInOrder DEF CommitIngress, publication, collectorSide, OrderInv, IInv
<1>3. ptr = StartOf(releaseSeq)
  BY <1>2 DEF OrderInv, LogInv, Chained, Position
<1>4. publishSeq \in Nat /\ releaseSeq \in Nat /\ releaseSeq < publishSeq
  BY <1>1, <1>2 DEF TypeOK, Chain
<1>5. /\ Pending \in Seq(Nat) /\ Len(Pending) = publishSeq - releaseSeq
      /\ \A i \in 1..Len(Pending) : Pending[i] = CountOf(releaseSeq + i - 1)
  BY <1>1, PendingNow
<1>6. /\ Pending' \in Seq(Nat) /\ Len(Pending') = publishSeq' - releaseSeq'
      /\ \A i \in 1..Len(Pending') : Pending'[i] = CountOf(releaseSeq' + i - 1)
  BY <1>1, <1>2, PendingNext DEF CountOf
<1>7. Pending # <<>> /\ Head(Pending) = CountOf(releaseSeq) /\ Pending' = Tail(Pending)
  <2> HIDE DEF Pending
  <2>1. Pending # <<>> /\ Head(Pending) = Pending[1] /\ 1 \in 1..Len(Pending)
    BY <1>4, <1>5
  <2>2. Pending[1] = CountOf(releaseSeq + 1 - 1) /\ releaseSeq + 1 - 1 = releaseSeq
    BY <1>4, <1>5, <2>1
  <2>3. /\ Tail(Pending) \in Seq(Nat) /\ Len(Tail(Pending)) = Len(Pending) - 1
        /\ \A i \in 1..Len(Tail(Pending)) :
             Tail(Pending)[i] = Pending[i + 1] /\ i + 1 \in 1..Len(Pending)
    BY <1>5, <2>1
  <2>4. ASSUME NEW i \in 1..Len(Tail(Pending)) PROVE Pending'[i] = Tail(Pending)[i]
    <3>1. i \in 1..Len(Pending') /\ i \in Nat
      BY <1>2, <1>4, <1>5, <1>6, <2>3
    <3>2. releaseSeq' + i - 1 = releaseSeq + (i + 1) - 1
      BY <1>2, <1>4, <3>1
    <3> QED
      BY <1>5, <1>6, <2>3, <3>1, <3>2
  <2>5. Len(Pending') = Len(Tail(Pending))
    BY <1>2, <1>4, <1>5, <1>6, <2>3
  <2> QED
    BY <1>6, <2>1, <2>2, <2>3, <2>4, <2>5, SequencesEqual
<1> QED
  BY <1>2, <1>3, <1>7 DEF Log!Commit, Pending

LEMMA PendingKept ==
  ASSUME OrderInv, OrderInv', QuietStep \/ PublishSpan
  PROVE  UNCHANGED <<Pending, ptr>>
<1>1. /\ TypeOK /\ WriterHasSlot
      /\ publishSeq \in Nat /\ releaseSeq \in Nat /\ releaseSeq <= publishSeq
  BY DEF OrderInv, IInv, TypeInv, TokenInv, TypeOK, LogInv, Ends
<1>2. CASE QuietStep
  BY <1>2 DEF QuietStep, Pending
<1>3. CASE PublishSpan
  <2>1. /\ UNCHANGED <<publishSeq, releaseSeq, ptr>> /\ cpc = "publish"
        /\ counts' = [counts EXCEPT ![WriteSlot] = Chunk]
    BY <1>3 DEF PublishSpan, learnerSide, committed
  <2>2. ASSUME NEW i \in 1..(publishSeq - releaseSeq)
        PROVE  counts'[(releaseSeq + i - 1) % Depth] = counts[(releaseSeq + i - 1) % Depth]
    <3>1. releaseSeq + i - 1 \in Chain
      BY <1>1 DEF Chain
    <3>2. (releaseSeq + i - 1) % Depth # WriteSlot
      BY <1>1, <2>1, <3>1, ChainKept DEF Writing
    <3> QED
      BY <2>1, <3>2
  <2> QED
    BY <2>1, <2>2 DEF Pending
<1> QED
  BY <1>2, <1>3

\* The ingress with its slots, semaphores, threads and stream is an ordered log with at
\* most Depth chunks outstanding, committed whole, once each and in order (ImplementsLog).
THEOREM IngressImplementsLog == Spec => ImplementsLog
<1>1. Init => Log!Init
  BY DEF Init, Log!Init
<1>2. ASSUME OrderInv, OrderInv', [Next]_vars PROVE [Log!Next]_(Log!logVars)
  <2>1. TypeInv
    BY <1>2 DEF OrderInv, IInv
  <2>2. CASE PublishSequence
    BY <1>2, <2>2, PublishIsPublish DEF Log!Next
  <2>3. ASSUME NEW t \in Threads, CommitIngress(t) PROVE Log!Next
    BY <1>2, <2>3, CommitIsCommit DEF Log!Next
  <2>4. CASE QuietStep \/ PublishSpan
    BY <1>2, <2>4, PendingKept DEF Log!logVars, Pending
  <2> QED
    BY <1>2, <2>1, <2>2, <2>3, <2>4, LogSteps
<1> QED
  BY <1>1, <1>2, OrderInvariant, PTL DEF Spec, ImplementsLog, Log!Spec
-----------------------------------------------------------------------------
(***************************************************************************)
(* The rows.  What is in a slot of the chain is what the shared integers   *)
(* say of it, finished, and a row's place in the log is its place in the   *)
(* stream the collector produced.                                          *)
(***************************************************************************)
Before == {"acquire", "polled", "recheck"}
Gone == {"rejected", "exited", "raised", "killed"}

CollectorContent ==
  /\ cpc = "idle" => left = 0
  /\ cpc \in {"idle", "write", "patch", "publish"} \cup Before => Produced = publishedPtr
  /\ cpc \in {"sequence", "signal"} => Produced + Chunk = publishedPtr
  /\ cpc \in {"patch", "publish", "sequence"} =>
       slots[WriteSlot].first = Produced /\ slots[WriteSlot].rows = Chunk
  /\ cpc \in {"publish", "sequence"} => slots[WriteSlot].patched
  /\ cpc = "sequence" => starts[WriteSlot] = Produced
Finished(n) ==
  /\ slots[n % Depth].first = StartOf(n) /\ slots[n % Depth].rows = CountOf(n)
  /\ slots[n % Depth].patched
ContentInv == CollectorContent /\ \A n \in Chain : Finished(n)

\* The steps that touch neither the slots nor what the collector has produced.
QuietContent ==
  /\ UNCHANGED <<slots, starts, counts, publishedPtr, publishSeq, vectors, left>>
  /\ \/ cpc' = cpc
     \/ cpc \in Before /\ cpc' \in Before \cup {"write"}
     \/ cpc' \in Gone
  /\ releaseSeq' = releaseSeq \/ \E t \in Threads : CommitIngress(t)

LEMMA ContentSteps ==
  ASSUME TypeInv, [Next]_vars
  PROVE  \/ AddBatch \/ WriteTransitionRows \/ PatchTerminalNextObservations
         \/ PublishSpan \/ PublishSequence \/ SignalReady \/ QuietContent
<1> USE DEF collectorVars, publication, threadVars, pipeline, committed,
        lifecycle, learnerSide, collectorSide, otherThanThreads
<1>1. CASE \/ AcquireFree \/ AcquireTimesOut \/ PollAgain \/ RecheckClosed
           \/ WriteFails \/ CollectorExits \/ CollectorKilled
  BY <1>1 DEF AcquireFree, AcquireTimesOut, PollAgain, RecheckClosed, WriteFails,
     CollectorExits, CollectorKilled, QuietContent, Before, Gone
<1>2. CASE \/ DaemonDrains \/ DaemonSubmits \/ DaemonExits \/ ReadCommittedFields \/ SetStop
           \/ ReaderSubmits \/ ReaderLocks \/ Synchronize \/ ClosePipeline
           \/ JoinReturns \/ CloserLocks \/ CloseBuffer \/ WakeProducer \/ DeviceCopy
  BY <1>2 DEF DaemonDrains, DaemonSubmits, DaemonExits, ReadCommittedFields, SetStop,
     ReaderSubmits, ReaderLocks, Synchronize, ClosePipeline, JoinReturns, CloserLocks,
     CloseBuffer, WakeProducer, DeviceCopy, QuietContent
<1>3. ASSUME NEW t \in Threads,
             \/ TakePublishedIngress(t) \/ SubmitSpanCopy(t) \/ RejectGap(t)
             \/ NothingPublished(t) \/ ReleaseSlot(t) \/ Drained(t)
      PROVE  QuietContent
  BY <1>3 DEF TakePublishedIngress, SubmitSpanCopy, RejectGap, Raise, NothingPublished,
     ReleaseSlot, Drained, QuietContent
<1>4. ASSUME NEW t \in Threads, CommitIngress(t) PROVE QuietContent
  <2>1. UNCHANGED <<slots, starts, counts, publishedPtr, publishSeq, vectors, left, cpc>>
    BY <1>4 DEF CommitIngress
  <2> QED
    BY <1>4, <2>1 DEF QuietContent
<1>5. CASE DaemonFails
  BY <1>5 DEF DaemonFails, Raise, QuietContent
<1>6. CASE UNCHANGED vars
  BY <1>6 DEF vars, QuietContent
<1> QED
  BY <1>1, <1>2, <1>3, <1>4, <1>5, <1>6
  DEF Next, Collector, Daemon, Learner, SubmitOrDrain, Terminated, Threads

LEMMA ContentInit == Init => ContentInv
<1> SUFFICES ASSUME Init PROVE ContentInv
  OBVIOUS
<1>1. vectors * NumEnvs = 0 /\ left = 0 /\ publishedPtr = 0 /\ cpc = "idle"
  BY IngressAssumption DEF IngressAssumption, Init
<1>2. CollectorContent
  BY <1>1 DEF CollectorContent, Produced, Before
<1>3. Chain = {}
  BY DEF Init, Chain
<1> QED
  BY <1>2, <1>3 DEF ContentInv

LEMMA ContentQuiet ==
  ASSUME OrderInv, ContentInv, QuietContent PROVE ContentInv'
<1>1. CollectorContent'
  <2>1. /\ UNCHANGED <<slots, starts, publishedPtr, publishSeq, vectors, left>>
        /\ Produced' = Produced /\ Chunk' = Chunk /\ WriteSlot' = WriteSlot
    BY DEF QuietContent, Produced, Chunk, Least, WriteSlot
  <2> QED
    BY <2>1 DEF ContentInv, CollectorContent, QuietContent, Before, Gone
<1>2. \A n \in Chain' : n \in Chain
  <2>1. releaseSeq \in Nat /\ (releaseSeq' = releaseSeq \/ releaseSeq' = releaseSeq + 1)
    BY CommitsInOrder DEF OrderInv, IInv, TypeInv, TypeOK, QuietContent
  <2> QED
    BY <2>1 DEF QuietContent, Chain
<1>3. \A n \in Chain' : Finished(n)'
  BY <1>2 DEF ContentInv, Finished, StartOf, CountOf, QuietContent
<1> QED
  BY <1>1, <1>3 DEF ContentInv

LEMMA ContentAddBatch == ASSUME OrderInv, ContentInv, AddBatch PROVE ContentInv'
<1>1. /\ UNCHANGED <<slots, starts, counts, publishedPtr, publishSeq, releaseSeq>>
      /\ cpc = "idle" /\ cpc' = "acquire" /\ vectors' = vectors + 1 /\ left' = NumEnvs
  BY DEF AddBatch, publication, learnerSide, committed
<1>2. vectors \in Nat /\ NumEnvs \in Nat
  BY IngressAssumption DEF IngressAssumption, OrderInv, IInv, TypeInv, TypeOK
<1>3. (vectors + 1) * NumEnvs - NumEnvs = vectors * NumEnvs - 0
  BY <1>2
<1>4. Produced' = Produced
  BY <1>1, <1>3 DEF Produced, ContentInv, CollectorContent
<1>5. CollectorContent'
  BY <1>1, <1>4 DEF ContentInv, CollectorContent, Before
<1> QED
  BY <1>1, <1>5 DEF ContentInv, Finished, StartOf, CountOf, Chain

\* Writing rows into the current slot leaves the finished ones alone.
LEMMA ContentWrite ==
  ASSUME OrderInv, ContentInv, WriteTransitionRows \/ PatchTerminalNextObservations
  PROVE  ContentInv'
<1>1. /\ UNCHANGED <<starts, counts, publishedPtr, publishSeq, releaseSeq, vectors, left>>
      /\ cpc \in {"write", "patch"} /\ cpc' = IF cpc = "write" THEN "patch" ELSE "publish"
  BY DEF WriteTransitionRows, PatchTerminalNextObservations, learnerSide, committed
<1>2. TypeOK /\ WriterHasSlot /\ Writing
  BY <1>1 DEF OrderInv, IInv, TypeInv, TokenInv, Writing
<1>3. WriteSlot \in Slots /\ slots \in [Slots -> Content]
  BY <1>2, RemainderIsSlot DEF TypeOK, WriteSlot, Content
<1>4. \A s \in Slots : s # WriteSlot => slots'[s] = slots[s]
  BY <1>3 DEF WriteTransitionRows, PatchTerminalNextObservations
<1>5. \A n \in Chain' : Finished(n)'
  <2>1. Chain' = Chain
    BY <1>1 DEF Chain
  <2> QED
    BY <1>1, <1>2, <1>4, <2>1, ChainKept, RemainderIsSlot
    DEF ContentInv, Finished, StartOf, CountOf, Chain
<1>6. Produced' = Produced /\ Chunk' = Chunk /\ WriteSlot' = WriteSlot
  BY <1>1 DEF Produced, Chunk, Least, WriteSlot
<1>7. CollectorContent'
  <2>1. CASE WriteTransitionRows
    <3>1. slots'[WriteSlot] = [first |-> Produced, rows |-> Chunk, patched |-> FALSE]
      BY <1>3, <2>1 DEF WriteTransitionRows
    <3>2. cpc = "write" /\ cpc' = "patch"
      BY <2>1 DEF WriteTransitionRows
    <3> QED
      BY <1>1, <1>6, <3>1, <3>2 DEF ContentInv, CollectorContent, Before
  <2>2. CASE PatchTerminalNextObservations
    <3>1. /\ slots'[WriteSlot].patched /\ slots'[WriteSlot].first = slots[WriteSlot].first
          /\ slots'[WriteSlot].rows = slots[WriteSlot].rows
      BY <1>3, <2>2 DEF PatchTerminalNextObservations, Content
    <3>2. cpc = "patch" /\ cpc' = "publish"
      BY <2>2 DEF PatchTerminalNextObservations
    <3> QED
      BY <1>1, <1>6, <3>1, <3>2 DEF ContentInv, CollectorContent, Before
  <2> QED
    BY <2>1, <2>2
<1> QED
  BY <1>5, <1>7 DEF ContentInv

LEMMA ContentPublish ==
  ASSUME OrderInv, ContentInv, PublishSpan \/ PublishSequence PROVE ContentInv'
<1>1. TypeOK /\ WriterHasSlot /\ publishSeq \in Nat /\ releaseSeq \in Nat
  BY DEF OrderInv, IInv, TypeInv, TokenInv, TypeOK
<1>2. UNCHANGED <<slots, releaseSeq, vectors, left>> /\ Produced' = Produced /\ Chunk' = Chunk
  BY DEF PublishSpan, PublishSequence, learnerSide, committed, Produced, Chunk, Least
<1>3. WriteSlot \in Slots /\ DOMAIN starts = Slots /\ DOMAIN counts = Slots
  BY <1>1, RemainderIsSlot DEF TypeOK, WriteSlot
<1>4. CASE PublishSpan
  <2>1. /\ cpc = "publish" /\ cpc' = "sequence" /\ publishSeq' = publishSeq
        /\ starts' = [starts EXCEPT ![WriteSlot] = publishedPtr]
        /\ counts' = [counts EXCEPT ![WriteSlot] = Chunk]
        /\ publishedPtr' = publishedPtr + Chunk
    BY <1>4 DEF PublishSpan
  <2>2. Chain' = Chain /\ WriteSlot' = WriteSlot
    BY <1>2, <2>1 DEF Chain, WriteSlot
  <2>3. \A n \in Chain' : Finished(n)'
    BY <1>1, <1>2, <2>1, <2>2, ChainKept DEF Writing, ContentInv, Finished, StartOf, CountOf
  <2>4. starts'[WriteSlot] = publishedPtr
    BY <1>3, <2>1
  <2>5. CollectorContent'
    BY <1>2, <2>1, <2>2, <2>4 DEF ContentInv, CollectorContent, Before
  <2> QED
    BY <2>3, <2>5 DEF ContentInv
<1>5. CASE PublishSequence
  <2>1. /\ cpc = "sequence" /\ cpc' = "signal" /\ publishSeq' = publishSeq + 1
        /\ UNCHANGED <<starts, counts, publishedPtr>>
    BY <1>5 DEF PublishSequence
  <2>2. CollectorContent'
    BY <1>2, <2>1 DEF ContentInv, CollectorContent, Before
  <2>3. CountOf(publishSeq) = Chunk
    BY <2>1 DEF OrderInv, LogInv, Ends
  <2>4. Finished(publishSeq)
    BY <2>1, <2>3 DEF ContentInv, CollectorContent, Finished, StartOf, WriteSlot
  <2>5. \A n \in Chain' : n \in Chain \/ n = publishSeq
    BY <1>1, <1>2, <2>1 DEF Chain
  <2>6. \A n \in Chain' : Finished(n)'
    BY <1>2, <2>1, <2>4, <2>5 DEF ContentInv, Finished, StartOf, CountOf
  <2> QED
    BY <2>2, <2>6 DEF ContentInv
<1> QED
  BY <1>4, <1>5

LEMMA ContentSignal == ASSUME OrderInv, ContentInv, SignalReady PROVE ContentInv'
<1>1. /\ UNCHANGED <<slots, starts, counts, publishedPtr, publishSeq, releaseSeq, vectors>>
      /\ cpc = "signal" /\ left' = left - Chunk
      /\ cpc' = IF left = Chunk THEN "idle" ELSE "acquire"
  BY DEF SignalReady, publication, learnerSide, committed
<1>2. Chunk \in Nat /\ left \in Nat /\ vectors * NumEnvs \in Int /\ Produced \in Int
  BY ChunkFits, IngressAssumption
  DEF IngressAssumption, OrderInv, IInv, TypeInv, TypeOK, Produced
<1>3. Produced' = Produced + Chunk
  BY <1>1, <1>2 DEF Produced
<1>4. CollectorContent'
  BY <1>1, <1>2, <1>3 DEF ContentInv, CollectorContent, Before
<1> QED
  BY <1>1, <1>4 DEF ContentInv, Finished, StartOf, CountOf, Chain

LEMMA ContentInvariant == Spec => []ContentInv
<1>1. ASSUME OrderInv, ContentInv, [Next]_vars PROVE ContentInv'
  <2>1. TypeInv
    BY <1>1 DEF OrderInv, IInv
  <2> QED
    BY <1>1, <2>1, ContentSteps, ContentQuiet, ContentAddBatch, ContentWrite, ContentPublish,
       ContentSignal
<1> QED
  BY <1>1, ContentInit, OrderInvariant, PTL DEF Spec
-----------------------------------------------------------------------------
(***************************************************************************)
(* The device ring.  The copies completed end with chunk RingEnd - 1, and  *)
(* each copy replaces in the ring exactly the rows a lap older.            *)
(***************************************************************************)
LEMMA RemainderUnique ==
  ASSUME NEW c \in Nat \ {0}, NEW k \in 0..(c - 1), NEW q \in Int PROVE (c * q + k) % c = k
<1> DEFINE x == c * q + k
           p == x \div c
<1>1. x \in Int /\ c * q \in Int
  OBVIOUS
<1> HIDE DEF x
<1>2. p \in Int /\ x = c * p + (x % c) /\ x % c \in 0..(c - 1)
  BY <1>1
<1> HIDE DEF p
<1>3. c * (q - p) = (x % c) - k
  <2>1. c * (q - p) = c * q - c * p
    BY <1>2
  <2> QED
    BY <1>1, <1>2, <2>1 DEF x
<1>4. q = p
  <2>1. CASE q - p >= 1
    <3>1. c * (q - p) >= c
      BY <1>2, <2>1
    <3> QED
      BY <1>2, <1>3, <3>1
  <2>2. CASE q - p <= -1
    <3>1. c * (q - p) <= -c
      BY <1>2, <2>2
    <3> QED
      BY <1>2, <1>3, <3>1
  <2> QED
    BY <1>2, <2>1, <2>2
<1>5. x % c = k
  BY <1>2, <1>3, <1>4
<1> QED
  BY <1>5 DEF x

\* Which row of a span lands where row belongs: itself, or the one a lap later.
LEMMA RowOffset ==
  ASSUME NEW c \in Nat \ {0}, NEW row \in Nat, NEW start \in Nat
  PROVE  /\ start <= row /\ row < start + c => ((row % c) - start) % c = row - start
         /\ start - c <= row /\ row < start => ((row % c) - start) % c = row - start + c
<1> DEFINE q == row \div c
           m == c * q
           r == row % c
<1>1. q \in Int /\ row = m + r /\ r \in 0..(c - 1)
  OBVIOUS
<1> HIDE DEF q
<1>2. m \in Int /\ c * (-q) = -m /\ c * (-q - 1) = -m - c
  BY <1>1
<1> HIDE DEF m, r
<1>3. ASSUME start <= row, row < start + c PROVE (r - start) % c = row - start
  <2>1. row - start \in 0..(c - 1) /\ -q \in Int
    BY <1>1, <1>3
  <2>2. r - start = c * (-q) + (row - start)
    BY <1>1, <1>2
  <2>3. (c * (-q) + (row - start)) % c = row - start
    BY <2>1, RemainderUnique
  <2> QED
    BY <2>2, <2>3
<1>4. ASSUME start - c <= row, row < start PROVE (r - start) % c = row - start + c
  <2>1. row - start + c \in 0..(c - 1) /\ -q - 1 \in Int
    BY <1>1, <1>4
  <2>2. r - start = c * (-q - 1) + (row - start + c)
    BY <1>1, <1>2
  <2>3. (c * (-q - 1) + (row - start + c)) % c = row - start + c
    BY <2>1, RemainderUnique
  <2> QED
    BY <2>2, <2>3
<1> QED
  BY <1>3, <1>4 DEF r

RingEnd == releaseSeq + copied
RingPtr == Position(RingEnd)
RingHolds ==
  \A row \in Nat :
    row < RingPtr /\ row >= RingPtr - Capacity =>
      storage[row % Capacity] = row

LEMMA RingInit == Init => RingHolds
BY DEF Init, RingHolds, RingPtr, RingEnd, Position

\* Only a copy moves the end of the rows copied.
LEMMA RingSteps ==
  ASSUME OrderInv, [Next]_vars
  PROVE  DeviceCopy \/ (storage' = storage /\ RingPtr' = RingPtr)
<1> SUFFICES ASSUME ~DeviceCopy
             PROVE  storage' = storage /\ RingPtr' = RingPtr
  OBVIOUS
<1>1. TypeInv /\ SeqInv /\ TypeOK /\ LogInv /\ WriterHasSlot
  BY DEF OrderInv, IInv, TypeInv, TokenInv
<1>2. storage' = storage /\ (copied' = copied \/ \E t \in Threads : CommitIngress(t))
  <2> USE DEF collectorVars, publication, threadVars, pipeline, committed,
          lifecycle, learnerSide, collectorSide, otherThanThreads
  <2>1. CASE Collector \/ AddBatch \/ WriteFails \/ CollectorKilled
    BY <2>1 DEF Collector, AddBatch, AcquireFree, AcquireTimesOut, PollAgain, RecheckClosed,
       WriteFails, WriteTransitionRows, PatchTerminalNextObservations, PublishSpan,
       PublishSequence, SignalReady, CollectorExits, CollectorKilled
  <2>2. ASSUME NEW t \in Threads, SubmitOrDrain(t)
        PROVE  storage' = storage /\ (copied' = copied \/ CommitIngress(t))
    BY <2>2 DEF SubmitOrDrain, TakePublishedIngress, SubmitSpanCopy, RejectGap, Raise,
       NothingPublished, ReleaseSlot, Drained, CommitIngress
  <2>3. CASE \/ DaemonDrains \/ DaemonSubmits \/ DaemonExits \/ ReadCommittedFields \/ SetStop
             \/ ReaderSubmits \/ ReaderLocks \/ Synchronize \/ ClosePipeline
             \/ JoinReturns \/ CloserLocks \/ CloseBuffer \/ WakeProducer \/ DaemonFails
    BY <2>3 DEF DaemonDrains, DaemonSubmits, DaemonExits, ReadCommittedFields, SetStop,
       ReaderSubmits, ReaderLocks, Synchronize, ClosePipeline, JoinReturns, CloserLocks,
       CloseBuffer, WakeProducer, DaemonFails, Raise
  <2>4. CASE UNCHANGED vars
    BY <2>4 DEF vars
  <2> QED
    BY <2>1, <2>2, <2>3, <2>4 DEF Next, Daemon, Learner, Terminated, Threads
<1>3. /\ releaseSeq \in Nat /\ copied \in Nat /\ publishSeq \in Nat
      /\ RingEnd \in Nat /\ RingEnd <= NextSubmit /\ NextSubmit <= publishSeq
      /\ RingEnd # releaseSeq => RingEnd - 1 \in Chain
  <2>1. releaseSeq \in Nat /\ copied \in Nat /\ publishSeq \in Nat /\ copied <= Len(spans)
    BY <1>1 DEF TypeOK
  <2>2. NextSubmit <= publishSeq /\ Len(spans) \in Nat
    BY <1>1, SubmittedInChain DEF TypeOK
  <2> QED
    BY <2>1, <2>2 DEF RingEnd, NextSubmit, Chain
<1>4. ASSUME NEW t \in Threads, CommitIngress(t) PROVE RingPtr' = RingPtr
  <2>1. /\ UNCHANGED <<starts, counts, publishedPtr, publishSeq, cpc, left>>
        /\ copied > 0 /\ copied' = copied - 1
    BY <1>4 DEF CommitIngress, publication, collectorSide, collectorVars
  <2>2. /\ releaseSeq \in Chain /\ releaseSeq' = releaseSeq + 1
        /\ ptr' = StartOf(releaseSeq) + CountOf(releaseSeq)
    BY <1>4, CommitsInOrder DEF OrderInv, IInv
  <2>3. \A n \in Nat : n > releaseSeq => Position(n)' = Position(n)
    BY <1>1, <2>1, <2>2, LogCommit
  <2>4. RingEnd' = RingEnd /\ RingEnd > releaseSeq
    BY <1>3, <2>1, <2>2 DEF RingEnd
  <2> QED
    BY <1>3, <2>3, <2>4 DEF RingPtr
<1>5. CASE copied' = copied /\ (QuietStep \/ PublishSequence)
  <2>1. UNCHANGED <<starts, counts, releaseSeq, ptr, copied>>
    BY <1>5 DEF QuietStep, PublishSequence, learnerSide, committed
  <2>2. RingEnd' = RingEnd
    BY <2>1 DEF RingEnd
  <2> QED
    BY <1>2, <2>1, <2>2 DEF RingPtr, Position, StartOf, CountOf
<1>6. CASE PublishSpan
  <2>1. /\ UNCHANGED <<releaseSeq, ptr, copied>> /\ cpc = "publish"
        /\ starts' = [starts EXCEPT ![WriteSlot] = publishedPtr]
        /\ counts' = [counts EXCEPT ![WriteSlot] = Chunk]
    BY <1>6 DEF PublishSpan, learnerSide, committed
  <2>2. RingEnd # releaseSeq => (RingEnd - 1) % Depth # WriteSlot
    BY <1>1, <1>3, <2>1, ChainKept DEF Writing
  <2>3. RingEnd' = RingEnd
    BY <2>1 DEF RingEnd
  <2>4. \A s : s # WriteSlot => starts'[s] = starts[s] /\ counts'[s] = counts[s]
    BY <2>1
  <2> QED
    BY <1>2, <2>1, <2>2, <2>3, <2>4 DEF RingPtr, Position, StartOf, CountOf
<1> QED
  BY <1>1, <1>2, <1>4, <1>5, <1>6, LogSteps

LEMMA RingCopy ==
  ASSUME OrderInv, ContentInv, RingHolds, DeviceCopy PROVE RingHolds'
<1> DEFINE n == RingEnd
           p == StartOf(n)
           c == CountOf(n)
<1>1. TypeOK /\ TypeInv /\ SeqInv /\ LogInv /\ PipelineInv
  BY DEF OrderInv, IInv, TypeInv
<1>2. /\ copied < Len(spans) /\ copied' = copied + 1
      /\ UNCHANGED <<starts, counts, releaseSeq, ptr>>
      /\ storage' = [i \in DOMAIN storage |->
                       IF RowAt(spans[copied + 1], i) >= spans[copied + 1].count THEN storage[i]
                       ELSE IF /\ slots[spans[copied + 1].slot].patched
                               /\ RowAt(spans[copied + 1], i) < slots[spans[copied + 1].slot].rows
                            THEN slots[spans[copied + 1].slot].first + RowAt(spans[copied + 1], i)
                            ELSE -1]
  BY DEF DeviceCopy, collectorSide, publication, committed
<1>3. /\ copied \in Nat /\ releaseSeq \in Nat /\ publishSeq \in Nat /\ Len(spans) \in Nat
      /\ copied + 1 \in 1..Len(spans) /\ n \in Nat /\ n < NextSubmit /\ n \in Chain
  <2>1. copied \in Nat /\ releaseSeq \in Nat /\ publishSeq \in Nat /\ Len(spans) \in Nat
    BY <1>1 DEF TypeOK
  <2>2. NextSubmit <= publishSeq
    BY <1>1, SubmittedInChain
  <2> QED
    BY <1>2, <2>1, <2>2 DEF RingEnd, NextSubmit, Chain
<1>4. /\ spans[copied + 1].slot = n % Depth /\ spans[copied + 1].start = p
      /\ spans[copied + 1].count = c
  <2>1. spans[copied + 1].seq = releaseSeq + (copied + 1) - 1
    BY <1>1, <1>3 DEF PipelineInv, SpansInOrder
  <2>2. spans[copied + 1].seq = n
    BY <1>3, <2>1 DEF RingEnd
  <2>3. spans[copied + 1].slot = n % Depth
    BY <1>1, <1>3, <2>2 DEF SeqInv, SpanSlots
  <2> QED
    BY <1>1, <1>3, <2>3 DEF PipelineInv, SpansInOrder, StartOf, CountOf
<1>5. slots[n % Depth].first = p /\ slots[n % Depth].rows = c /\ slots[n % Depth].patched
  BY <1>3 DEF ContentInv, Finished
<1>6. /\ p \in Nat /\ c \in Nat /\ c <= Capacity /\ Capacity \in Nat \ {0}
      /\ DOMAIN storage = 0..(Capacity - 1)
  <2>1. p \in Nat /\ c \in Nat /\ c <= SlotRows
    BY <1>1, <1>3, ChunkTypes
  <2>2. DOMAIN storage = 0..(Capacity - 1)
    BY <1>1 DEF TypeOK
  <2> HIDE DEF p, c
  <2> QED
    BY <2>1, <2>2, IngressAssumption DEF IngressAssumption
<1>7. RingPtr = p
  BY <1>1, <1>3 DEF LogInv, Chained, RingPtr
<1>8. RingPtr' = p + c
  <2>1. RingEnd' = n + 1 /\ n + 1 # releaseSeq /\ (n + 1) - 1 = n
    BY <1>2, <1>3 DEF RingEnd
  <2>2. RingPtr' = starts'[(RingEnd' - 1) % Depth] + counts'[(RingEnd' - 1) % Depth]
    BY <1>2, <2>1 DEF RingPtr, Position, StartOf, CountOf
  <2> QED
    BY <1>2, <2>1, <2>2 DEF StartOf, CountOf
<1> HIDE DEF n, p, c
<1> SUFFICES ASSUME NEW row \in Nat, row < RingPtr', row >= RingPtr' - Capacity
             PROVE  storage'[row % Capacity] = row
  BY DEF RingHolds
<1>9. row < p + c /\ row >= p + c - Capacity
  BY <1>6, <1>8
<1> DEFINE i == row % Capacity
           k == (i - p) % Capacity
<1>10. i \in 0..(Capacity - 1) /\ i \in DOMAIN storage
  BY <1>6
<1>11. storage'[i] = IF k >= c THEN storage[i] ELSE p + k
  <2>1. RowAt(spans[copied + 1], i) = k
    BY <1>4 DEF RowAt
  <2>2. k \in Int
    BY <1>6, <1>10
  <2> HIDE DEF k, i
  <2>3. k >= c \/ k < c
    BY <1>6, <2>2
  <2> QED
    BY <1>2, <1>4, <1>5, <1>10, <2>1, <2>3
<1>12. CASE row >= p
  <2>1. p <= row /\ row < p + Capacity
    BY <1>6, <1>9, <1>12
  <2>2. k = row - p
    BY <1>6, <2>1, RowOffset
  <2> HIDE DEF k, i
  <2>3. ~(k >= c) /\ p + k = row
    BY <1>6, <1>9, <2>2
  <2> QED
    BY <1>11, <2>3 DEF i
<1>13. CASE row < p
  <2>1. p - Capacity <= row
    BY <1>6, <1>9
  <2>2. k = row - p + Capacity
    BY <1>6, <1>13, <2>1, RowOffset
  <2>3. storage[i] = row
    BY <1>6, <1>7, <1>13, <2>1 DEF RingHolds
  <2> HIDE DEF k, i
  <2>4. k >= c
    BY <1>6, <1>9, <2>2
  <2> QED
    BY <1>11, <2>3, <2>4 DEF i
<1> QED
  BY <1>6, <1>12, <1>13

LEMMA RingInvariant == Spec => []RingHolds
<1>1. ASSUME OrderInv, ContentInv, RingHolds, [Next]_vars PROVE RingHolds'
  <2>1. CASE storage' = storage /\ RingPtr' = RingPtr
    BY <1>1, <2>1 DEF RingHolds
  <2> QED
    BY <1>1, <2>1, RingSteps, RingCopy
<1> QED
  BY <1>1, RingInit, OrderInvariant, ContentInvariant, PTL DEF Spec

\* Of the rows the side stream has copied, the device ring holds the last Capacity, each
\* at its place and as the collector finished it (DeviceRingHoldsLog).
THEOREM DeviceRingIsRight == Spec => []DeviceRingHoldsLog
<1>1. ASSUME OrderInv, RingHolds PROVE DeviceRingHoldsLog
  <2>1. TypeOK /\ SeqInv /\ PipelineInv /\ LogInv /\ TypeInv
    BY <1>1 DEF OrderInv, IInv, TypeInv
  <2>2. /\ copied \in Nat /\ releaseSeq \in Nat /\ Len(spans) \in Nat /\ copied <= Len(spans)
        /\ publishSeq \in Nat /\ NextSubmit <= publishSeq
    BY <2>1, SubmittedInChain DEF TypeOK
  <2>3. CopiedPtr = RingPtr
    <3>1. CASE copied < Len(spans)
      <4>1. copied + 1 \in 1..Len(spans) /\ RingEnd \in Chain
        BY <2>2, <3>1 DEF RingEnd, Chain, NextSubmit
      <4>2. spans[copied + 1].seq = releaseSeq + (copied + 1) - 1
        BY <2>1, <4>1 DEF PipelineInv, SpansInOrder
      <4>3. spans[copied + 1].seq = RingEnd
        BY <2>2, <4>2 DEF RingEnd
      <4>4. spans[copied + 1].start = StartOf(RingEnd)
        BY <2>1, <4>1, <4>3 DEF SeqInv, SpanSlots, PipelineInv, SpansInOrder, StartOf
      <4> QED
        BY <2>1, <3>1, <4>1, <4>4 DEF LogInv, Chained, CopiedPtr, RingPtr
    <3>2. CASE copied = Len(spans)
      BY <2>1, <3>2 DEF CopiedPtr, PipelineInv, SubmittedEnds, NextSubmit, RingEnd, RingPtr
    <3> QED
      BY <2>2, <3>1, <3>2
  <2>4. CopiedPtr \in Nat
    BY <2>1, SpanFields DEF CopiedPtr, TypeOK
  <2> QED
    BY <1>1, <2>3, <2>4, IngressAssumption
    DEF IngressAssumption, DeviceRingHoldsLog, RingHolds
<1> QED
  BY <1>1, OrderInvariant, RingInvariant, PTL
-----------------------------------------------------------------------------
(***************************************************************************)
(* Closing.  Once the collector has returned nothing is published any      *)
(* more: the learner's last submission leaves the queue empty, its last    *)
(* drain the spans.                                                        *)
(***************************************************************************)
Submitted == {"closeSync", "sync", "drain", "release", "closeBuffer", "wake"}

Phases ==
  /\ pipelineClosed <=> op = "close"
  /\ tpc["learner"] \in {"join", "closeSync", "closeBuffer", "wake"} => op = "close"
  /\ tpc["learner"] = "read" => op = "read"
  /\ op = "none" => tpc["learner"] \in {"idle", "raised"}
  /\ tpc["learner"] = "idle" => op = "none"
  /\ quiesced => cpc \in {"exited", "raised"} /\ op = "close"
EveryChunkSignalled == cpc # "killed" => consumeSeq + ready + Bit(cpc = "signal") = publishSeq
Synced == tpc["learner"] \in {"drain", "release"} => copied = Len(spans)
NothingQueued ==
  quiesced /\ fault = "none" /\ tpc["learner"] \in Submitted => ready = 0 /\ taken = NoSpan
NothingPending ==
  quiesced /\ fault = "none" /\ tpc["learner"] \in {"closeBuffer", "wake"} => Len(spans) = 0
CloseInv == Phases /\ EveryChunkSignalled /\ Synced /\ NothingQueued /\ NothingPending

LEMMA CloseInit == Init => CloseInv
<1> SUFFICES ASSUME Init PROVE CloseInv
  OBVIOUS
<1>1. tpc["learner"] = "idle"
  BY DEF Init, Threads
<1> QED
  BY <1>1 DEF Init, CloseInv, Phases, EveryChunkSignalled, Synced, NothingQueued,
     NothingPending, Submitted, Bit

LEMMA CloseNext == ASSUME OrderInv, CloseInv, [Next]_vars PROVE CloseInv'
<1>0. TypeInv /\ TypeOK /\ LockInv /\ TakenInv /\ PipelineInv
  BY DEF OrderInv, IInv, TypeInv
<1>1. /\ publishSeq \in Nat /\ consumeSeq \in Nat /\ ready \in Nat /\ spans \in Seq(Span)
      /\ Len(spans) \in Nat /\ copied \in Nat /\ copied <= Len(spans) /\ DOMAIN tpc = Threads
      /\ op \in {"none", "read", "close"}
  BY <1>0 DEF TypeOK
<1>2. \A t \in Threads : tpc[t] \in LockedSteps \ {"copy"} => taken = NoSpan
  BY <1>0 DEF PipelineInv, TakenByCopier, LockInv, LockedSteps
<1>3. \A t \in Threads : tpc[t] = "copy" => taken # NoSpan
  BY <1>0 DEF TakenInv
<1>4. \A t, u \in Threads : tpc[t] \in LockedSteps /\ tpc[u] \in LockedSteps => t = u
  BY <1>0 DEF LockInv
<1> USE <1>1, <1>2, <1>3, <1>4
    DEF CloseInv, Phases, EveryChunkSignalled, Synced, NothingQueued, NothingPending, Submitted,
        Bit, LockedSteps, Threads, collectorVars, publication, threadVars, pipeline, committed,
        lifecycle, learnerSide, collectorSide, otherThanThreads
<1>5. CASE AcquireFree
  BY <1>5 DEF AcquireFree
<1>6. CASE AcquireTimesOut
  BY <1>6 DEF AcquireTimesOut
<1>7. CASE PollAgain
  BY <1>7 DEF PollAgain
<1>8. CASE RecheckClosed
  BY <1>8 DEF RecheckClosed
<1>9. CASE WriteFails
  BY <1>9 DEF WriteFails
<1>10. CASE WriteTransitionRows
  BY <1>10 DEF WriteTransitionRows
<1>11. CASE PatchTerminalNextObservations
  BY <1>11 DEF PatchTerminalNextObservations
<1>12. CASE PublishSpan
  BY <1>12 DEF PublishSpan
<1>13. CASE AddBatch
  BY <1>13 DEF AddBatch
<1>14. CASE CollectorExits
  BY <1>14 DEF CollectorExits
<1>15. CASE CollectorKilled
  BY <1>15 DEF CollectorKilled
<1>16. CASE SetStop
  BY <1>16 DEF SetStop
<1>17. CASE PublishSequence
  BY <1>17 DEF PublishSequence
<1>18. CASE SignalReady
  BY <1>18 DEF SignalReady
<1>19. CASE DeviceCopy
  BY <1>19 DEF DeviceCopy
<1>20. CASE WakeProducer
  BY <1>20 DEF WakeProducer
<1>21. CASE DaemonDrains
  BY <1>21 DEF DaemonDrains, Lock
<1>22. CASE DaemonSubmits
  BY <1>22 DEF DaemonSubmits, Lock
<1>23. CASE ReaderSubmits
  BY <1>23 DEF ReaderSubmits, Lock
<1>24. CASE ReaderLocks
  BY <1>24 DEF ReaderLocks, Lock
<1>25. CASE JoinReturns
  BY <1>25 DEF JoinReturns, Lock
<1>26. CASE CloserLocks
  BY <1>26 DEF CloserLocks, Lock
<1>27. CASE DaemonExits
  BY <1>27 DEF DaemonExits
<1>28. CASE ReadCommittedFields
  BY <1>28 DEF ReadCommittedFields
<1>29. CASE Synchronize
  BY <1>29 DEF Synchronize
<1>30. CASE ClosePipeline
  BY <1>30 DEF ClosePipeline
<1>31. CASE CloseBuffer
  BY <1>31 DEF CloseBuffer
<1>32. ASSUME NEW t \in Threads, TakePublishedIngress(t) PROVE CloseInv'
  BY <1>32 DEF TakePublishedIngress
<1>33. ASSUME NEW t \in Threads, SubmitSpanCopy(t) PROVE CloseInv'
  BY <1>33 DEF SubmitSpanCopy
<1>34. ASSUME NEW t \in Threads, ReleaseSlot(t) PROVE CloseInv'
  BY <1>34 DEF ReleaseSlot
<1>35. ASSUME NEW t \in Threads, NothingPublished(t) PROVE CloseInv'
  BY <1>35 DEF NothingPublished, Unlock
<1>36. ASSUME NEW t \in Threads, Drained(t) PROVE CloseInv'
  BY <1>36 DEF Drained, Unlock
<1>37. ASSUME NEW t \in Threads, NEW error \in {"gap", "daemon"}, Raise(t, error) PROVE CloseInv'
  BY <1>37 DEF Raise, Unlock, AfterRaise
<1>38. ASSUME NEW t \in Threads, CommitIngress(t) PROVE CloseInv'
  <2>1. /\ copied > 0 /\ spans' = Tail(spans) /\ copied' = copied - 1 /\ Len(spans) > 0
        /\ UNCHANGED <<ready, cpc, op, publishSeq, consumeSeq, taken, pipelineClosed, quiesced>>
    BY <1>38 DEF CommitIngress
  <2>2. /\ fault' = fault /\ tpc[t] = "drain" /\ tpc' = [tpc EXCEPT ![t] = "release"]
    BY <1>38, CommitsInOrder DEF OrderInv, IInv
  <2>3. Len(spans') = Len(spans) - 1
    BY <2>1
  <2>4. Phases' /\ EveryChunkSignalled' /\ NothingQueued'
    BY <2>1, <2>2
  <2>5. Synced' /\ NothingPending'
    BY <2>1, <2>2, <2>3
  <2> QED
    BY <2>4, <2>5
<1>39. CASE UNCHANGED vars
  BY <1>39 DEF vars
<1> QED
  BY <1>0, <1>5, <1>6, <1>7, <1>8, <1>9, <1>10, <1>11, <1>12, <1>13, <1>14, <1>15, <1>16,
     <1>17, <1>18, <1>19, <1>20, <1>21, <1>22, <1>23, <1>24, <1>25, <1>26, <1>27, <1>28,
     <1>29, <1>30, <1>31, <1>32, <1>33, <1>34, <1>35, <1>36, <1>37, <1>38, <1>39
  DEF Next, Collector, Daemon, Learner, SubmitOrDrain, RejectGap, DaemonFails, Terminated

LEMMA CloseInvariant == Spec => []CloseInv
BY CloseInit, CloseNext, OrderInvariant, PTL DEF Spec

\* A pipeline closed after the collector has returned has committed every published row
\* when its buffer is closed, unless a thread failed (QuiescedCloseDrains).
THEOREM CloseDrains == Spec => []QuiescedCloseDrains
<1>1. ASSUME OrderInv, CloseInv PROVE QuiescedCloseDrains
  <2> SUFFICES ASSUME quiesced, fault = "none", tpc["learner"] \in {"closeBuffer", "wake"}
               PROVE  ptr = publishedPtr
    BY DEF QuiescedCloseDrains
  <2>1. releaseSeq \in Nat /\ publishSeq \in Nat /\ consumeSeq \in Nat
    BY <1>1 DEF OrderInv, IInv, TypeInv, TypeOK
  <2>2. cpc \in {"exited", "raised"} /\ ready = 0 /\ taken = NoSpan /\ Len(spans) = 0
    BY <1>1 DEF CloseInv, Phases, NothingQueued, NothingPending, Submitted
  <2>3. consumeSeq = publishSeq
    BY <1>1, <2>1, <2>2 DEF CloseInv, EveryChunkSignalled, Bit
  <2>4. consumeSeq = releaseSeq
    BY <1>1, <2>1, <2>2 DEF OrderInv, PipelineInv, NoneLost, NextSubmit, Bit
  <2> QED
    BY <1>1, <2>2, <2>3, <2>4 DEF OrderInv, LogInv, Ends, Position
<1> QED
  BY <1>1, OrderInvariant, CloseInvariant, PTL
=============================================================================
