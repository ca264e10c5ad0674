---------------------------- MODULE StartupProofs ----------------------------
(***************************************************************************)
(* What the start of a run and its end promise, whatever the sizes of the  *)
(* run and of the host.                                                    *)
(*                                                                         *)
(* Of the functions of the configuration (RankTopology, MemoryBudget): two *)
(* ranks of a data-parallel run own different devices and CPUs, and the    *)
(* memory estimates are those of the allocations they stand for.           *)
(*                                                                         *)
(* Of Startup, at whatever step the run fails, is killed or is started     *)
(* again: a run that passes the memory checks is not refused by the replay *)
(* pipeline and allocates no more than was free, nothing that is open      *)
(* outlives what it uses, checkpoints hold the updates their names say,    *)
(* a replayed graph reads the rates of the schedule, and the learner is    *)
(* trained as the plain loop of updates would, whichever path each of its  *)
(* cycles took.                                                            *)
(***************************************************************************)
EXTENDS Startup, RankTopology, SequenceTheorems, FiniteSetTheorems, WellFoundedInduction, TLAPS

\* Division by the world size, as multiplication.
LEMMA Quotient ==
  ASSUME NEW a \in Nat, NEW w \in Nat \ {0}
  PROVE  /\ a \div w \in Nat
         /\ w * (a \div w) <= a
         /\ a < w * (a \div w) + w
  OBVIOUS

\* A larger numerator has no smaller quotient ...
LEMMA QuotientMonotone ==
  ASSUME NEW a \in Nat, NEW b \in Nat, NEW w \in Nat \ {0}, a <= b
  PROVE  a \div w <= b \div w
  BY Quotient

\* ... and one that is larger by the divisor has a larger one
LEMMA QuotientStrict ==
  ASSUME NEW a \in Nat, NEW b \in Nat, NEW w \in Nat \ {0}, a + w <= b
  PROVE  a \div w < b \div w
  BY Quotient

LEMMA Product ==
  ASSUME NEW a \in Nat, NEW b \in Nat, NEW c \in Nat, a <= b
  PROVE  /\ a * c \in Nat /\ b * c \in Nat
         /\ a * c <= b * c
         /\ (a + 1) * c = a * c + c
  OBVIOUS

LEMMA Cancel ==
  ASSUME NEW a \in Nat, NEW b \in Nat, NEW w \in Nat \ {0}, w * a <= w * b
  PROVE  a <= b
  OBVIOUS

\* All the cores are handed out and no more: the last run ends with the last group.
LEMMA LastRunEnds ==
  ASSUME NEW G \in Nat, NEW w \in Nat \ {0}
  PROVE  (w * G) \div w <= G
<1>1. w * G \in Nat
  BY Product
<1>2. w * ((w * G) \div w) <= w * G /\ (w * G) \div w \in Nat
  BY <1>1, Quotient
<1>3. QED
  BY <1>2, Cancel
-----------------------------------------------------------------------------
\* Runs of cores lie in the order of the ranks, within the cores there are.
LEMMA GroupRuns ==
  ASSUME NEW cores \in Seq(SUBSET Nat), NEW worldSize \in Nat \ {0},
         NEW r \in 0..worldSize, NEW q \in 0..worldSize, r <= q
  PROVE  /\ FirstGroup(cores, worldSize, r) \in Nat
         /\ FirstGroup(cores, worldSize, r) <= FirstGroup(cores, worldSize, q)
         /\ FirstGroup(cores, worldSize, q) <= Len(cores)
<1>1. Len(cores) \in Nat /\ r \in Nat /\ q \in Nat /\ worldSize \in Nat /\ q <= worldSize
  OBVIOUS
<1>2. /\ r * Len(cores) \in Nat /\ q * Len(cores) \in Nat
      /\ r * Len(cores) <= q * Len(cores)
  BY <1>1, Product
<1>3. /\ worldSize * Len(cores) \in Nat
      /\ q * Len(cores) <= worldSize * Len(cores)
  BY <1>1, Product
<1>4. (r * Len(cores)) \div worldSize <= (q * Len(cores)) \div worldSize
  BY <1>2, QuotientMonotone
<1>5. (q * Len(cores)) \div worldSize <= (worldSize * Len(cores)) \div worldSize
  BY <1>2, <1>3, QuotientMonotone
<1>6. (worldSize * Len(cores)) \div worldSize <= Len(cores)
  BY <1>1, LastRunEnds
<1>7. /\ (r * Len(cores)) \div worldSize \in Nat
      /\ (q * Len(cores)) \div worldSize \in Nat
      /\ (worldSize * Len(cores)) \div worldSize \in Nat
  BY <1>2, <1>3, Quotient
<1>8. (q * Len(cores)) \div worldSize <= Len(cores)
  BY <1>1, <1>5, <1>6, <1>7
<1>9. QED
  BY <1>4, <1>7, <1>8 DEF FirstGroup

\* The CPUs that resolve_collector_cpu_ids gives to the collectors of two ranks have no
\* CPU in common: by physical cores, by number, or by the segments of the configuration.
THEOREM CollectorsShareNoCpu ==
  ASSUME NEW worldSize \in Nat \ {0}, worldSize > 1, NEW cpuCount \in Nat,
         NEW cores \in Seq(SUBSET Nat), NEW segments \in Seq(Seq(Nat)),
         \A i, j \in 1..Len(cores) : i # j => cores[i] \cap cores[j] = {},
         NEW r \in 0..(worldSize - 1), NEW q \in 0..(worldSize - 1), r < q
  PROVE  ResolveCollectorCpuIds(worldSize, r, cores, cpuCount, segments)
           \cap ResolveCollectorCpuIds(worldSize, q, cores, cpuCount, segments) = {}
<1>1. CASE cpuCount < worldSize
  BY <1>1 DEF ResolveCollectorCpuIds
<1>2. CASE cpuCount >= worldSize /\ segments # <<>>
  <2>1. CASE ValidSegments(segments, worldSize)
    <3>1. /\ r + 1 \in 1..Len(segments) /\ q + 1 \in 1..Len(segments) /\ r + 1 # q + 1
      BY <2>1 DEF ValidSegments
    <3>2. ToSet(segments[r + 1]) \cap ToSet(segments[q + 1]) = {}
      BY <2>1, <3>1 DEF ValidSegments
    <3>3. QED
      BY <1>2, <2>1, <3>2 DEF ResolveCollectorCpuIds
  <2>2. CASE ~ValidSegments(segments, worldSize)
    BY <1>2, <2>2 DEF ResolveCollectorCpuIds
  <2>3. QED
    BY <2>1, <2>2
<1>3. CASE cpuCount >= worldSize /\ segments = <<>> /\ cores # <<>>
  <2>1. GroupShare(cores, worldSize, r) \cap GroupShare(cores, worldSize, q) = {}
    <3>1. SUFFICES ASSUME NEW id \in GroupShare(cores, worldSize, r),
                          id \in GroupShare(cores, worldSize, q)
                   PROVE FALSE
      OBVIOUS
    <3>2. PICK i \in (FirstGroup(cores, worldSize, r) + 1)..FirstGroup(cores, worldSize, r + 1) :
            id \in cores[i]
      BY <3>1 DEF GroupShare
    <3>3. PICK j \in (FirstGroup(cores, worldSize, q) + 1)..FirstGroup(cores, worldSize, q + 1) :
            id \in cores[j]
      BY <3>1 DEF GroupShare
    <3>4. i < j /\ i \in 1..Len(cores) /\ j \in 1..Len(cores)
      <4>1. /\ r \in 0..worldSize /\ r + 1 \in 0..worldSize /\ r + 1 <= q
            /\ q \in 0..worldSize /\ q + 1 \in 0..worldSize
        OBVIOUS
      <4>2. /\ FirstGroup(cores, worldSize, r) \in Nat
            /\ FirstGroup(cores, worldSize, r + 1) \in Nat
            /\ FirstGroup(cores, worldSize, r + 1) <= FirstGroup(cores, worldSize, q)
            /\ FirstGroup(cores, worldSize, q) <= Len(cores)
        BY <4>1, GroupRuns
      <4>3. /\ FirstGroup(cores, worldSize, q) \in Nat
            /\ FirstGroup(cores, worldSize, q + 1) \in Nat
            /\ FirstGroup(cores, worldSize, q + 1) <= Len(cores)
        BY <4>1, GroupRuns
      <4>4. QED
        BY <3>2, <3>3, <4>2, <4>3, SMTT(30)
    <3>5. QED
      BY <3>2, <3>3, <3>4
  <2>2. QED
    BY <1>3, <2>1 DEF ResolveCollectorCpuIds
<1>4. CASE cpuCount >= worldSize /\ segments = <<>> /\ cores = <<>>
  <2> DEFINE size == cpuCount \div worldSize
  <2>1. size \in Nat
    BY Quotient
  <2>2. r \in Nat /\ r + 1 \in Nat /\ q \in Nat /\ r + 1 <= q
    OBVIOUS
  <2>3. (r + 1) * size = r * size + size /\ r * size \in Nat
    <3> HIDE DEF size
    <3>1. QED
      BY <2>1, <2>2, Product
  <2>4. (r + 1) * size <= q * size /\ q * size \in Nat
    BY <2>1, <2>2, Product
  <2>5. \A id \in Int : ~(id < r * size + size /\ q * size <= id)
    BY <2>1, <2>3, <2>4
  <2>6. EvenShare(cpuCount, worldSize, r) \cap EvenShare(cpuCount, worldSize, q) = {}
    <3> HIDE DEF size
    <3>1. /\ EvenShare(cpuCount, worldSize, r) = (r * size)..(r * size + size - 1)
          /\ EvenShare(cpuCount, worldSize, q) = (q * size)..(q * size + size - 1)
      BY DEF EvenShare, size
    <3>2. SUFFICES ASSUME NEW id \in (r * size)..(r * size + size - 1),
                          id \in (q * size)..(q * size + size - 1)
                   PROVE  FALSE
      BY <3>1
    <3>3. r * size \in Int /\ q * size \in Int /\ size \in Int
      BY <2>1, <2>3, <2>4
    <3>4. id \in Int /\ id <= r * size + size - 1 /\ q * size <= id
      BY <3>2, <3>3
    <3>5. id < r * size + size
      BY <3>3, <3>4
    <3>6. QED
      BY <2>5, <3>4, <3>5
  <2>7. QED
    BY <1>4, <2>6 DEF ResolveCollectorCpuIds
<1>5. QED
  BY <1>1, <1>2, <1>3, <1>4

\* No collector is left without a CPU by a division of the host's own CPUs: each of its
\* cores has one, and there are as many cores, or CPUs, as ranks.
THEOREM EveryCollectorHasACpu ==
  ASSUME NEW worldSize \in Nat \ {0}, worldSize > 1, NEW cpuCount \in Nat,
         NEW cores \in Seq(SUBSET Nat), \A i \in 1..Len(cores) : cores[i] # {},
         cpuCount >= worldSize, cores = <<>> \/ Len(cores) >= worldSize,
         NEW rank \in 0..(worldSize - 1)
  PROVE  ResolveCollectorCpuIds(worldSize, rank, cores, cpuCount, <<>>) # {}
<1>1. CASE cores # <<>>
  <2>1. /\ Len(cores) \in Nat /\ worldSize <= Len(cores)
        /\ rank \in Nat /\ rank + 1 \in Nat /\ rank + 1 \in 0..worldSize
    BY <1>1
  <2>2. /\ rank * Len(cores) \in Nat
        /\ (rank + 1) * Len(cores) = rank * Len(cores) + Len(cores)
    BY <2>1, Product
  <2>3. /\ (rank + 1) * Len(cores) \in Nat
        /\ rank * Len(cores) + worldSize <= (rank + 1) * Len(cores)
    BY <2>1, <2>2
  <2>4. FirstGroup(cores, worldSize, rank) < FirstGroup(cores, worldSize, rank + 1)
    BY <2>2, <2>3, QuotientStrict DEF FirstGroup
  <2>5. FirstGroup(cores, worldSize, rank) \in Nat
    BY <2>2, Quotient DEF FirstGroup
  <2>6. /\ FirstGroup(cores, worldSize, rank + 1) \in Nat
        /\ FirstGroup(cores, worldSize, rank + 1) <= Len(cores)
    <3>1. rank + 1 <= rank + 1
      BY <2>1
    <3>2. QED
      BY <2>1, <3>1, GroupRuns
  <2>7. /\ FirstGroup(cores, worldSize, rank + 1) \in 1..Len(cores)
        /\ FirstGroup(cores, worldSize, rank + 1) \in
             (FirstGroup(cores, worldSize, rank) + 1)..FirstGroup(cores, worldSize, rank + 1)
    BY <2>4, <2>5, <2>6
  <2>8. PICK i \in (FirstGroup(cores, worldSize, rank) + 1)..
                   FirstGroup(cores, worldSize, rank + 1) : cores[i] # {}
    BY <2>7
  <2>9. GroupShare(cores, worldSize, rank) # {}
    BY <2>8 DEF GroupShare
  <2>10. QED
    BY <1>1, <2>1, <2>9 DEF ResolveCollectorCpuIds
<1>2. CASE cores = <<>>
  <2> DEFINE size == cpuCount \div worldSize
  <2>1. size \in Nat /\ size >= 1
    <3>1. worldSize * size <= cpuCount /\ cpuCount < worldSize * size + worldSize /\ size \in Nat
      BY Quotient
    <3>2. size # 0
      BY <3>1
    <3>3. QED
      BY <3>1, <3>2
  <2>2. rank * size \in Int
    <3> HIDE DEF size
    <3>1. QED
      BY <2>1
  <2>3. rank * size \in EvenShare(cpuCount, worldSize, rank)
    BY <2>1, <2>2 DEF EvenShare
  <2>4. QED
    BY <1>2, <2>3 DEF ResolveCollectorCpuIds
<1>3. QED
  BY <1>1, <1>2

\* The ranks of a launch see different devices, and one each.
THEOREM RanksShareNoDevice ==
  ASSUME NEW worldSize \in Nat \ {0}, NEW Entry, NEW mask \in Seq(Entry),
         SelectedVisibleEntries(worldSize, mask) # <<>>,
         NEW r \in 0..(worldSize - 1), NEW q \in 0..(worldSize - 1), r # q
  PROVE  ChildMask(worldSize, mask, r) # ChildMask(worldSize, mask, q)
<1> DEFINE entries == VisibleCudaEntries(mask)
<1>1. /\ SelectedVisibleEntries(worldSize, mask) = entries
      /\ Len(entries) = worldSize /\ IsInjective(entries)
  BY DEF SelectedVisibleEntries
<1>2. entries \in Seq(Entry)
  BY DEF VisibleCudaEntries
<1>3. r + 1 \in DOMAIN entries /\ q + 1 \in DOMAIN entries /\ r + 1 # q + 1
  BY <1>1, <1>2
<1>4. entries[r + 1] # entries[q + 1]
  BY <1>1, <1>3 DEF IsInjective
<1>5. QED
  BY <1>1, <1>4 DEF ChildMask
-----------------------------------------------------------------------------
LEMMA NatProduct ==
  ASSUME NEW a \in Nat, NEW b \in Nat
  PROVE  a * b \in Nat
  OBVIOUS

LEMMA Distribute ==
  ASSUME NEW a \in Nat, NEW b \in Nat, NEW c \in Nat
  PROVE  a * (b + c) = a * b + a * c /\ (b + c) * a = b * a + c * a
  OBVIOUS

LEMMA Difference ==
  ASSUME NEW a \in Nat, NEW b \in Nat, NEW c \in Nat
  PROVE  (a - b) * c = a * c - b * c
  OBVIOUS

LEMMA Regroup ==
  ASSUME NEW a \in Nat, NEW b \in Nat, NEW c \in Nat
  PROVE  a * b * c = (b * a) * c /\ (a * b) * c = a * (b * c)
  OBVIOUS

\* The ring estimate of the preflight is what SharedInferenceRing allocates, for every
\* number of environments, slots and columns (estimate_inference_ring_bytes, __init__).
THEOREM RingIsEstimated ==
  ASSUME NEW dims \in Dims
  PROVE  RingEstimate(dims) = RingBytes(dims) /\ RingBytes(dims) \in Nat
<1> DEFINE c == dims.capacity
           e == dims.envs
           i == dims.input
           n == dims.action
           p == e * c
<1>1. c \in Nat /\ e \in Nat /\ i \in Nat /\ n \in Nat
  BY DEF Dims
<1> HIDE DEF c, e, i, n
<1>2. p \in Nat /\ c * e = p
  BY <1>1, NatProduct
<1> HIDE DEF p
<1>3. p * i \in Nat /\ p * n \in Nat
  BY <1>1, <1>2, NatProduct
<1>4. p * (i + 1 + n) = p * i + p + p * n
  <2>1. p * ((i + 1) + n) = p * (i + 1) + p * n
    BY <1>1, <1>2, Distribute
  <2>2. p * (i + 1) = p * i + p * 1 /\ p * 1 = p
    BY <1>1, <1>2, Distribute
  <2> QED
    BY <2>1, <2>2, <1>1, <1>2, <1>3
<1>5. RingEstimate(dims) = (p * (i + 1 + n)) * 4
  BY DEF RingEstimate, p, e, c, i, n
<1>6. RingBytes(dims) = (p * i + p + p * n) * 4
  BY <1>2 DEF RingBytes, e, c, i, n
<1> QED
  BY <1>3, <1>4, <1>5, <1>6, <1>2

\* The same for APPO's rollout ring, whose estimate counts columns of a step and whose
\* allocation goes field by field (estimate_appo_bytes, TensorRolloutRingBuffer).
THEOREM RolloutRingIsEstimated ==
  ASSUME NEW r \in RolloutDims
  PROVE  AppoEstimate(r) = RolloutRingBytes(r)
<1> DEFINE e == r.envs
           t == r.steps
           o == r.obs
           n == r.action
           c == r.critic
           k == r.slots
           p == e * t
<1>1. e \in Nat /\ t \in Nat /\ o \in Nat /\ n \in Nat /\ c \in Nat /\ k \in Nat
  BY DEF RolloutDims
<1> HIDE DEF e, t, o, n, c, k
<1>2. p \in Nat
  BY <1>1, NatProduct
<1> HIDE DEF p
<1>3. /\ p * o \in Nat /\ p * n \in Nat /\ p * c \in Nat
      /\ e * o \in Nat /\ e * c \in Nat
  BY <1>1, <1>2, NatProduct
<1> DEFINE row == p * o + p * c + p * n + 4 * p + e * o + e * c
<1>4. p * (o + n + 1 + 1 + 1 + 1 + c) = p * o + p * n + 4 * p + p * c
  <2>1. p * ((o + n + 4) + c) = p * (o + n + 4) + p * c
    BY <1>1, <1>2, Distribute
  <2>2. p * ((o + n) + 4) = p * (o + n) + p * 4 /\ p * (o + n) = p * o + p * n
    BY <1>1, <1>2, Distribute
  <2>3. o + n + 1 + 1 + 1 + 1 + c = (o + n + 4) + c
    BY <1>1
  <2> QED
    BY <2>1, <2>2, <2>3, <1>2, <1>3
<1>5. e * (o + c) = e * o + e * c
  BY <1>1, Distribute
<1>6. AppoEstimate(r) = (p * (o + n + 1 + 1 + 1 + 1 + c) * 4 + e * (o + c) * 4) * k
  BY DEF AppoEstimate, PerStep, p, e, t, o, n, c, k
<1>7. RolloutRingBytes(r) = 4 * k * row
  BY DEF RolloutRingBytes, p, e, t, o, n, c, k
<1>8. row \in Nat
  BY <1>2, <1>3
<1>9. p * (o + n + 1 + 1 + 1 + 1 + c) * 4 + e * (o + c) * 4 = row * 4
  BY <1>2, <1>3, <1>4, <1>5
<1> HIDE DEF row
<1>10. (row * 4) * k = (4 * k) * row
  BY <1>1, <1>8, Regroup
<1> QED
  BY <1>6, <1>7, <1>9, <1>10
-----------------------------------------------------------------------------
LEMMA AllocationsAreCounted ==
  ASSUME NEW dims \in Dims
  PROVE  /\ IngressSlots(dims) \in Nat /\ StorageBytes(dims) \in Nat /\ SlotBytes(dims) \in Nat
         /\ ScratchBytes(dims) \in Nat /\ ActionBytes(dims) \in Nat /\ dims.scratch \in Nat
         /\ StaticBatch(dims) \in Nat /\ dims.native \in BOOLEAN
<1> DEFINE w == StorageWidth(dims)
<1>1. /\ w \in Nat /\ dims.depth \in Nat /\ dims.rows \in Nat
      /\ dims.replay_n \in Nat /\ dims.envs \in Nat
      /\ dims.samples \in Nat /\ dims.input \in Nat /\ dims.action \in Nat /\ dims.scratch \in Nat
      /\ dims.native \in BOOLEAN
  BY DEF Dims, StorageWidth
<1> HIDE DEF w
<1>2. /\ dims.depth * dims.rows \in Nat /\ dims.replay_n * dims.envs \in Nat
      /\ 2 * dims.samples \in Nat
      /\ dims.envs * dims.input \in Nat /\ dims.envs * dims.action \in Nat
  BY <1>1, NatProduct
<1>3. /\ (dims.depth * dims.rows) * w \in Nat /\ (dims.replay_n * dims.envs) * w \in Nat
      /\ (2 * dims.samples) * w \in Nat /\ dims.samples * w \in Nat
  BY <1>1, <1>2, NatProduct
<1>4. /\ IngressSlots(dims) = (dims.depth * dims.rows) * w * 4
      /\ StorageBytes(dims) = (dims.replay_n * dims.envs) * w * 4
      /\ SlotBytes(dims) = (2 * dims.samples) * w * 4
      /\ StaticBatch(dims) = (dims.samples * w) * 4
  BY DEF IngressSlots, StorageBytes, SlotBytes, StaticBatch, w
<1>5. /\ IngressSlots(dims) \in Nat /\ StorageBytes(dims) \in Nat /\ SlotBytes(dims) \in Nat
      /\ StaticBatch(dims) \in Nat
  BY <1>3, <1>4
<1> QED
  BY <1>1, <1>2, <1>5 DEF ScratchBytes, ActionBytes

LEMMA OverheadIsCounted ==
  ASSUME NEW exact \in Nat
  PROVE  Overhead(exact) \in Nat
BY BudgetAssumption DEF Overhead, BudgetAssumption

\* Everything made on the device before the learner prepares.
Resources(dims) ==
    TimingEvents + DeviceBuffer(dims) + RequiredBytes(dims)
      + DeviceRing(dims) + ScratchBytes(dims) + ActionBytes(dims)

\* A configuration the preflight lets pass is not refused by the pipeline's own guard, made
\* with what the timing events and the ingress have left, and the runner's resources fit
\* into what is free, for every configuration and every amount of memory.  The batches
\* cloned for the learner's graphs, which no estimate counts, fit beside them as long as
\* they are at most a fifth of all that is taken; nothing is claimed of larger ones
\* (raise_if_cuda_memory_over_budget, _validate_device_memory_budget).
THEOREM PreflightIsEnough ==
  ASSUME NEW dims \in Dims, NEW avail \in Nat, DeviceAccepts(RuntimeEstimate(dims), avail)
  PROVE  /\ PipelineAccepts(dims, avail - (TimingEvents + DeviceBuffer(dims)))
         /\ Resources(dims) <= avail
         /\ \A copies \in Nat :
               LET clones == copies * StaticBatch(dims)
               IN  5 * clones <= Resources(dims) + clones => Resources(dims) + clones <= avail
<1> DEFINE ingress == OnDevice(dims, IngressSlots(dims))
           ring == OnDevice(dims, RingBytes(dims))
           scratch == ScratchBytes(dims) + ActionBytes(dims)
           required == RequiredBytes(dims)
           events == Events(dims) * EventReserve
           others == (Events(dims) - 2) * EventReserve
           margin == dims.scratch + Overhead(InferenceExact(dims)) + Overhead(ReplayExact(dims))
<1>1. ingress \in Nat /\ ring \in Nat /\ scratch \in Nat /\ required \in Nat /\ dims.scratch \in Nat
  BY AllocationsAreCounted, RingIsEstimated DEF OnDevice, RequiredBytes
<1>2. EventReserve \in Nat /\ Events(dims) - 2 \in Nat
  <2>1. dims.capacity \in Nat /\ dims.native \in BOOLEAN
    BY DEF Dims
  <2> QED
    BY <2>1, BudgetAssumption DEF BudgetAssumption, Events
<1>3. others \in Nat /\ events = others + 2 * EventReserve
  <2> DEFINE more == Events(dims) - 2
  <2>1. Events(dims) = more + 2
    BY <1>2, BudgetAssumption DEF BudgetAssumption, Events, Dims
  <2> HIDE DEF more
  <2>2. more \in Nat
    BY <1>2 DEF more
  <2>3. (more + 2) * EventReserve = more * EventReserve + 2 * EventReserve
    BY <1>2, <2>2, Distribute
  <2>4. more * EventReserve \in Nat
    BY <1>2, <2>2, NatProduct
  <2> QED
    BY <2>1, <2>3, <2>4 DEF more
<1>4. margin \in Nat
  <2>1. InferenceExact(dims) \in Nat /\ ReplayExact(dims) \in Nat
    BY AllocationsAreCounted, RingIsEstimated DEF InferenceExact, ReplayExact, OnDevice
  <2> QED
    BY <2>1, <1>1, OverheadIsCounted
<1>5. RuntimeEstimate(dims) = ring + scratch + events + required + ingress + margin
  <2>1. Overhead(InferenceExact(dims)) \in Nat /\ Overhead(ReplayExact(dims)) \in Nat
    BY AllocationsAreCounted, RingIsEstimated, OverheadIsCounted
    DEF InferenceExact, ReplayExact, OnDevice
  <2>2. /\ InferenceExact(dims) = ring + ScratchBytes(dims) + ActionBytes(dims) + dims.scratch
        /\ ReplayExact(dims) = StorageBytes(dims) + SlotBytes(dims) + ingress
    BY RingIsEstimated DEF InferenceExact, ReplayExact
  <2> HIDE DEF ring, ingress, events
  <2>3. events \in Nat
    BY <1>2, <1>3
  <2>4. RuntimeEstimate(dims) = InferenceExact(dims) + events + Overhead(InferenceExact(dims))
                               + ReplayExact(dims) + Overhead(ReplayExact(dims))
    BY DEF RuntimeEstimate, InferenceEstimate, events
  <2> QED
    BY <2>1, <2>2, <2>3, <2>4, <1>1, AllocationsAreCounted DEF RequiredBytes
<1>6. RuntimeEstimate(dims) <= (8 * avail) \div 10
  BY DEF DeviceAccepts, Limit
<1>7. /\ TimingEvents = 2 * EventReserve /\ DeviceBuffer(dims) = ingress
      /\ DeviceRing(dims) = ring + others
  BY DEF TimingEvents, DeviceBuffer, DeviceRing
<1> HIDE DEF ingress, ring, scratch, required, events, others, margin
<1>8. required <= (8 * (avail - (2 * EventReserve + ingress))) \div 10
  BY <1>1, <1>2, <1>3, <1>4, <1>5, <1>6
<1>9. 10 * (2 * EventReserve + ingress + required + ring + others + scratch) <= 8 * avail
  BY <1>1, <1>2, <1>3, <1>4, <1>5, <1>6
<1>10. PipelineAccepts(dims, avail - (TimingEvents + DeviceBuffer(dims)))
  BY <1>7, <1>8 DEF PipelineAccepts, Limit, required
<1>11. /\ scratch = ScratchBytes(dims) + ActionBytes(dims)
       /\ ScratchBytes(dims) \in Nat /\ ActionBytes(dims) \in Nat
  BY AllocationsAreCounted DEF scratch
<1>12. Resources(dims) \in Nat /\ 10 * Resources(dims) <= 8 * avail
  BY <1>1, <1>2, <1>3, <1>7, <1>9, <1>11 DEF required, Resources
<1>13. ASSUME NEW copies \in Nat
       PROVE  LET clones == copies * StaticBatch(dims)
              IN  5 * clones <= Resources(dims) + clones => Resources(dims) + clones <= avail
  <2> DEFINE clones == copies * StaticBatch(dims)
  <2>1. clones \in Nat
    BY AllocationsAreCounted, NatProduct
  <2> HIDE DEF clones
  <2>2. 5 * clones <= Resources(dims) + clones => Resources(dims) + clones <= avail
    BY <1>12, <2>1
  <2>3. QED
    BY <2>2 DEF clones
<1> QED
  BY <1>10, <1>12, <1>13
-----------------------------------------------------------------------------
(***************************************************************************)
(* Startup: what the device and /dev/shm have left.                        *)
(***************************************************************************)
\* The host's estimate is what the ingress and the ring take of it.
LEMMA HostIsEnough ==
  ASSUME NEW dims \in Dims, NEW avail \in Nat, HostAccepts(HostEstimate(dims), avail)
  PROVE  /\ HostBuffer(dims) \in Nat /\ HostRing(dims) \in Nat
         /\ HostBuffer(dims) + HostRing(dims) <= avail
<1>1. IngressSlots(dims) \in Nat /\ RingBytes(dims) \in Nat
  BY AllocationsAreCounted, RingIsEstimated
<1>2. HostBuffer(dims) \in Nat /\ HostRing(dims) \in Nat
  BY <1>1 DEF HostBuffer, HostRing, OnHost
<1>3. HostEstimate(dims) = HostBuffer(dims) + HostRing(dims)
  BY RingIsEstimated DEF HostEstimate, HostBuffer, HostRing, OnHost
<1>4. 10 * (HostBuffer(dims) + HostRing(dims)) <= 8 * avail
  BY <1>3 DEF HostAccepts
<1>5. QED
  BY <1>2, <1>4

\* What the startup takes of the device, step by step.
LEMMA DeviceSteps ==
  ASSUME NEW dims \in Dims
  PROVE  /\ TimingEvents \in Nat /\ DeviceBuffer(dims) \in Nat /\ RequiredBytes(dims) \in Nat
         /\ DeviceRing(dims) \in Nat /\ ScratchBytes(dims) \in Nat /\ ActionBytes(dims) \in Nat
         /\ StaticBatch(dims) \in Nat /\ Resources(dims) \in Nat
<1>1. /\ TimingEvents \in Nat /\ DeviceBuffer(dims) \in Nat /\ RequiredBytes(dims) \in Nat
      /\ ScratchBytes(dims) \in Nat /\ ActionBytes(dims) \in Nat /\ StaticBatch(dims) \in Nat
  BY AllocationsAreCounted, BudgetAssumption
  DEF BudgetAssumption, TimingEvents, DeviceBuffer, OnDevice, RequiredBytes
<1>2. DeviceRing(dims) \in Nat
  <2>1. EventReserve \in Nat /\ Events(dims) - 2 \in Nat
    <3>1. dims.capacity \in Nat /\ dims.native \in BOOLEAN
      BY DEF Dims
    <3>2. QED
      BY <3>1, BudgetAssumption DEF BudgetAssumption, Events
  <2>2. (Events(dims) - 2) * EventReserve \in Nat
    BY <2>1, NatProduct
  <2>3. OnDevice(dims, RingBytes(dims)) \in Nat
    BY RingIsEstimated DEF OnDevice
  <2>4. QED
    BY <2>2, <2>3 DEF DeviceRing
<1>3. QED
  BY <1>1, <1>2 DEF Resources

\* The phases in which memory is checked and taken.
Checked == {"cuda_preflight", "replay_resources", "pipeline", "inference_resources"}
Taking == {"start", "memory_budget"} \cup Checked

MemoryInv ==
  /\ d \in Dims /\ free \in Nat /\ shm \in Nat
  /\ pc \in Checked => HostAccepts(HostEstimate(d), shm)
  /\ pc \in Checked \ {"cuda_preflight"} => DeviceAccepts(RuntimeEstimate(d), free)
  /\ pc \in {"start", "memory_budget", "cuda_preflight"} => used = 0
  /\ pc = "replay_resources" => used = TimingEvents
  /\ pc = "pipeline" => used = TimingEvents + DeviceBuffer(d)
  /\ pc = "inference_resources" => used = TimingEvents + DeviceBuffer(d) + RequiredBytes(d)
  /\ pc \in Taking \ {"pipeline", "inference_resources"} => hostUsed = 0
  /\ pc \in {"pipeline", "inference_resources"} => hostUsed = HostBuffer(d)
  /\ batches \in Nat /\ (pc \in Taking => batches = 0)
  /\ pc \in {"logger"} \cup InsideTry =>
        /\ DeviceAccepts(RuntimeEstimate(d), free)
        /\ used = Resources(d) + batches * StaticBatch(d)
  /\ used \in Nat /\ (5 * (batches * StaticBatch(d)) <= used => used <= free)
  /\ hostUsed <= shm

\* The learner's own steps stay inside the try.
LearnerPhases == {"prepare", "capture", "prepared", "stats", "update", "replay", "read", "save"}

LEMMA LearnerStepsStay ==
  ASSUME UpdateSteps
  PROVE  pc \in LearnerPhases /\ pc' \in LearnerPhases
BY DEF UpdateSteps, LearnerPhases, GraphIsCached, WarmUpdateCycleGraph, CaptureGraph, CaptureFails,
  PrepareByUpdates, Replay, EagerUpdates, ReadMetrics, UpdateRewardStats, WantsGraph

\* The copies take nothing while there are none.
LEMMA NoCopies ==
  ASSUME NEW dims \in Dims
  PROVE  0 * StaticBatch(dims) = 0
BY AllocationsAreCounted

\* What a process has taken of a device that was checked leaves the bound intact.
LEMMA Covered ==
  ASSUME NEW dims \in Dims, NEW avail \in Nat, NEW taken \in Nat,
         DeviceAccepts(RuntimeEstimate(dims), avail), taken <= Resources(dims)
  PROVE  taken <= avail
BY PreflightIsEnough, DeviceSteps

LEMMA MemoryStep ==
  ASSUME MemoryInv, [Next]_vars
  PROVE  MemoryInv'
<1> USE DEF Checked, Taking, InsideTry
<1>a. /\ d \in Dims /\ free \in Nat /\ shm \in Nat /\ used \in Nat /\ hostUsed <= shm
      /\ batches \in Nat
      /\ 5 * (batches * StaticBatch(d)) <= used => used <= free
  BY DEF MemoryInv
<1>b. /\ TimingEvents \in Nat /\ DeviceBuffer(d) \in Nat /\ RequiredBytes(d) \in Nat
      /\ DeviceRing(d) \in Nat /\ ScratchBytes(d) \in Nat /\ ActionBytes(d) \in Nat
      /\ StaticBatch(d) \in Nat /\ Resources(d) \in Nat
  BY <1>a, DeviceSteps
<1>c. ASSUME NEW taken \in Nat, DeviceAccepts(RuntimeEstimate(d), free), taken <= Resources(d)
      PROVE  taken <= free
  BY <1>c, <1>a, Covered
<1>d. HostAccepts(HostEstimate(d), shm) =>
        /\ HostBuffer(d) \in Nat /\ HostRing(d) \in Nat
        /\ HostBuffer(d) + HostRing(d) <= shm
  BY <1>a, HostIsEnough
<1>1. CASE Learn
  <2>1. /\ pc = "start" /\ pc' = "memory_budget"
        /\ UNCHANGED <<d, free, shm, used, hostUsed, batches>>
    BY <1>1 DEF Learn, KeepLearner, learnerVars
  <2>2. QED
    BY <2>1 DEF MemoryInv
<1>2. CASE Resume
  <2>1. /\ pc = "start" /\ pc' \in {"memory_budget", "left"}
        /\ UNCHANGED <<d, free, shm, used, hostUsed, batches>>
    BY <1>2 DEF Resume, LoadStateDict, learnerVars
  <2>2. QED
    BY <2>1 DEF MemoryInv
<1>3. CASE CheckHostMemory
  <2>1. /\ pc = "memory_budget" /\ UNCHANGED <<d, free, shm, used, hostUsed, batches>>
        /\ \/ pc' = "cuda_preflight" /\ HostAccepts(HostEstimate(d), shm)
           \/ pc' = "left"
    BY <1>3 DEF CheckHostMemory, KeepLearner, processVars, learnerVars
  <2>2. QED
    BY <2>1 DEF MemoryInv
<1>4. CASE CheckDeviceMemory
  <2>1. /\ pc = "cuda_preflight" /\ UNCHANGED <<d, free, shm, hostUsed, batches>>
        /\ \/ /\ pc' = "replay_resources" /\ used' = used + TimingEvents
              /\ DeviceAccepts(RuntimeEstimate(d), free)
           \/ pc' = "left" /\ used' = used
    BY <1>4 DEF CheckDeviceMemory, KeepLearner, learnerVars
  <2>2. used = 0 /\ hostUsed = 0 /\ HostAccepts(HostEstimate(d), shm) /\ batches = 0
    BY <2>1 DEF MemoryInv
  <2>3. CASE pc' = "replay_resources"
    <3>1. used' = TimingEvents /\ DeviceAccepts(RuntimeEstimate(d), free)
      BY <2>1, <2>2, <2>3, <1>b
    <3>2. used' <= free
      BY <3>1, <1>a, <1>b, <1>c DEF Resources
    <3>3. QED
      BY <2>1, <2>2, <2>3, <3>1, <3>2, <1>a, <1>b DEF MemoryInv
  <2>4. CASE pc' = "left"
    BY <2>1, <2>4, <1>a DEF MemoryInv
  <2>5. QED
    BY <2>1, <2>3, <2>4
<1>5. CASE OpenBuffer
  <2>1. /\ pc = "replay_resources" /\ pc' = "pipeline" /\ UNCHANGED <<d, free, shm, batches>>
        /\ used' = used + DeviceBuffer(d) /\ hostUsed' = hostUsed + HostBuffer(d)
    BY <1>5 DEF OpenBuffer, KeepLearner, learnerVars
  <2>2. /\ used = TimingEvents /\ hostUsed = 0 /\ HostAccepts(HostEstimate(d), shm)
        /\ DeviceAccepts(RuntimeEstimate(d), free) /\ batches = 0
    BY <2>1 DEF MemoryInv
  <2>3. /\ used' = TimingEvents + DeviceBuffer(d) /\ used' \in Nat /\ used' <= free
        /\ hostUsed' = HostBuffer(d) /\ hostUsed' <= shm
    BY <2>1, <2>2, <1>a, <1>b, <1>c, <1>d DEF Resources
  <2>4. QED
    BY <2>1, <2>2, <2>3, <1>a DEF MemoryInv
<1>6. CASE OpenPipeline
  <2>1. /\ pc = "pipeline" /\ UNCHANGED <<d, free, shm, hostUsed, batches>>
        /\ \/ pc' = "inference_resources" /\ used' = used + RequiredBytes(d)
           \/ pc' = "left" /\ used' = used
    BY <1>6 DEF OpenPipeline, KeepLearner, learnerVars
  <2>2. /\ used = TimingEvents + DeviceBuffer(d) /\ hostUsed = HostBuffer(d) /\ batches = 0
        /\ HostAccepts(HostEstimate(d), shm) /\ DeviceAccepts(RuntimeEstimate(d), free)
    BY <2>1 DEF MemoryInv
  <2>3. CASE pc' = "inference_resources"
    <3>1. /\ used' = TimingEvents + DeviceBuffer(d) + RequiredBytes(d) /\ used' \in Nat
      BY <2>1, <2>2, <2>3, <1>b
    <3>2. used' <= free
      BY <3>1, <2>2, <1>a, <1>b, <1>c DEF Resources
    <3>3. QED
      BY <2>1, <2>2, <2>3, <3>1, <3>2, <1>a DEF MemoryInv
  <2>4. CASE pc' = "left"
    BY <2>1, <2>4, <1>a DEF MemoryInv
  <2>5. QED
    BY <2>1, <2>3, <2>4
<1>7. CASE OpenRing
  <2>1. /\ pc = "inference_resources" /\ pc' = "logger" /\ UNCHANGED <<d, free, shm, batches>>
        /\ used' = used + DeviceRing(d) + ScratchBytes(d) + ActionBytes(d)
        /\ hostUsed' = hostUsed + HostRing(d)
    BY <1>7 DEF OpenRing, KeepLearner, learnerVars
  <2>2. /\ used = TimingEvents + DeviceBuffer(d) + RequiredBytes(d) /\ hostUsed = HostBuffer(d)
        /\ HostAccepts(HostEstimate(d), shm) /\ DeviceAccepts(RuntimeEstimate(d), free)
        /\ batches = 0
    BY <2>1 DEF MemoryInv
  <2>3. used' = Resources(d) /\ hostUsed' <= shm
    BY <2>1, <2>2, <1>b, <1>d DEF Resources
  <2>4. used' <= free
    BY <2>2, <2>3, <1>b, <1>c
  <2>5. used' = Resources(d) + batches' * StaticBatch(d)
    BY <2>1, <2>2, <2>3, <1>a, <1>b, NoCopies
  <2>6. QED
    BY <2>1, <2>2, <2>3, <2>4, <2>5, <1>a, <1>b DEF MemoryInv
<1>8. ASSUME UNCHANGED <<d, free, shm, used, hostUsed, batches>>, pc' \notin Taking,
             pc' \in {"logger"} \cup InsideTry => pc \in {"logger"} \cup InsideTry
      PROVE  MemoryInv'
  BY <1>8, <1>a DEF MemoryInv
<1>9. CASE StartLogger \/ DpInitBroadcast \/ StartCollector \/ NextIteration \/ EndIteration
           \/ ShutdownCollector \/ ClosePipeline \/ Finish
  <2>1. /\ UNCHANGED <<d, free, shm, used, hostUsed, batches>>
        /\ pc \in {"logger", "dp_init", "prepared", "loop", "save", "quiesce",
                   "close_pipeline", "final"}
        /\ pc' \in {"dp_init", "prepare", "loop", "stats", "quiesce", "close_pipeline",
                    "final", "left"}
    BY <1>9 DEF StartLogger, DpInitBroadcast, StartCollector, NextIteration, EndIteration,
      ShutdownCollector, ClosePipeline, Finish, KeepLearner, processVars, learnerVars
  <2>2. QED
    BY <2>1, <1>8
<1>10. CASE LearnerSteps
  <2>1. /\ pc \in LearnerPhases /\ pc' \in LearnerPhases
        /\ UNCHANGED <<d, free, shm, hostUsed>>
        /\ used' = used + (batches' - batches) * StaticBatch(d)
    BY <1>10, LearnerStepsStay DEF LearnerSteps
  <2>2. batches' \in Nat
    BY <1>10, <1>a DEF LearnerSteps, UpdateSteps, learnerVars, GraphIsCached,
      WarmUpdateCycleGraph, CaptureGraph, CaptureFails, PrepareByUpdates, Replay, EagerUpdates,
      ReadMetrics, UpdateRewardStats
  <2>3. /\ DeviceAccepts(RuntimeEstimate(d), free)
        /\ used = Resources(d) + batches * StaticBatch(d)
    BY <2>1 DEF MemoryInv, LearnerPhases
  <2>4. used' = Resources(d) + batches' * StaticBatch(d) /\ used' \in Nat
    <3>1. /\ (batches' - batches) * StaticBatch(d)
                = batches' * StaticBatch(d) - batches * StaticBatch(d)
          /\ batches' * StaticBatch(d) \in Nat /\ batches * StaticBatch(d) \in Nat
      BY <2>2, <1>a, <1>b, NatProduct, Difference
    <3>2. QED
      BY <3>1, <2>1, <2>3, <1>b
  <2>5. 5 * (batches' * StaticBatch(d)) <= used' => used' <= free
    BY <2>2, <2>3, <2>4, <1>a, PreflightIsEnough
  <2>6. QED
    BY <2>1, <2>2, <2>3, <2>4, <2>5, <1>a DEF MemoryInv, LearnerPhases
<1>11. CASE Raise \/ CloseLogger \/ JoinCollector \/ ReleaseResource \/ CloseGroup \/ Killed
  <2>1. /\ UNCHANGED <<d, free, shm, used, hostUsed, batches>>
        /\ pc' \in {"left", "close", "release", "closed", "dead"}
    BY <1>11 DEF Raise, CloseLogger, JoinCollector, ReleaseResource, CloseGroup, Killed,
      KeepLearner, learnerVars
  <2>2. QED
    BY <2>1, <1>8
<1>12. CASE Restart
  <2>1. /\ UNCHANGED <<d, free, shm>> /\ pc' = "start"
        /\ used' = 0 /\ hostUsed' = 0 /\ batches' = 0
    BY <1>12 DEF Restart
  <2>2. QED
    BY <2>1, <1>a DEF MemoryInv
<1>13. CASE UNCHANGED vars
  BY <1>13 DEF vars, cycleVars, learnerVars, processVars, MemoryInv
<1>14. QED
  BY <1>1, <1>2, <1>3, <1>4, <1>5, <1>6, <1>7, <1>9, <1>10, <1>11, <1>12, <1>13 DEF Next

LEMMA MemoryInvariant == Spec => []MemoryInv
<1>1. Init => MemoryInv
  <2> SUFFICES ASSUME Init PROVE MemoryInv
    OBVIOUS
  <2>1. /\ pc = "start" /\ batches = 0 /\ used = 0 /\ hostUsed = 0
        /\ d \in Dims /\ free \in Nat /\ shm \in Nat
    BY StartupAssumption DEF StartupAssumption, Init, NewLearner
  <2>2. QED
    BY <2>1 DEF MemoryInv, Checked, Taking, InsideTry
<1>2. QED
  BY <1>1, MemoryStep, PTL DEF Spec

\* A configuration the preflight lets pass is not refused half way.  The runner's resources
\* never exceed what was free when the process started, in /dev/shm and, with the batches
\* cloned for the learner's graphs, on the device, as long as the clones are at most a fifth
\* of what is taken there (_learn_impl, GPUResidentReplayPipeline.__init__,
\* _ensure_update_cycle_graph).
THEOREM PreflightSuffices == Spec => []PreflightCovers
<1>1. MemoryInv => PreflightCovers
  <2> SUFFICES ASSUME MemoryInv PROVE PreflightCovers
    OBVIOUS
  <2>1. ASSUME pc = "pipeline" PROVE PipelineAccepts(d, free - used)
    <3>1. /\ d \in Dims /\ free \in Nat /\ DeviceAccepts(RuntimeEstimate(d), free)
          /\ used = TimingEvents + DeviceBuffer(d)
      BY <2>1 DEF MemoryInv, Checked
    <3>2. QED
      BY <3>1, PreflightIsEnough
  <2>2. QED
    BY <2>1 DEF MemoryInv, PreflightCovers
<1>2. QED
  BY <1>1, MemoryInvariant, PTL
-----------------------------------------------------------------------------
(***************************************************************************)
(* Startup: what is open, and what is left to close.                       *)
(***************************************************************************)
Shared == {"buffer", "pipeline", "ring"}

\* The phases in which the collector can run.
Running == InsideTry \ {"close_pipeline", "final"}

\* Whatever is open is listed, with the pipeline at the head of the list, and the pipeline is
\* never without its buffer.
ListInv ==
  /\ resources \in Seq(Shared)
  /\ live \subseteq Shared \cup {"logger", "collector", "group"}
  /\ \A k \in Shared \cap live : \E i \in DOMAIN resources : resources[i] = k
  /\ \A i \in DOMAIN resources : resources[i] = "pipeline" => i = 1
  /\ pc \in Taking \ {"inference_resources"} =>
       \A i \in DOMAIN resources : resources[i] # "pipeline"
  /\ "pipeline" \in live => "buffer" \in live

\* What is open in each phase, and what is not.
PhaseInv ==
  /\ pc = "pipeline" => "buffer" \in live
  /\ pc = "inference_resources" => {"buffer", "pipeline"} \subseteq live
  /\ pc \in {"logger"} \cup (InsideTry \ {"final"}) => Shared \subseteq live
  /\ "collector" \in live => pc \in Running
  /\ "logger" \in live => pc \notin {"close", "release"}
  /\ pc \in {"closed", "dead"} => live = {}

\* Closing what is not shared leaves the list alone.
LEMMA ListKept ==
  ASSUME ListInv, UNCHANGED resources, live' \subseteq live \cup {"logger", "collector", "group"},
         "buffer" \in live => "buffer" \in live' \/ "pipeline" \notin live',
         pc' \in Taking \ {"inference_resources"} => pc \in Taking \ {"inference_resources"}
  PROVE  ListInv'
<1>1. \A k \in Shared : k \in live' => k \in live
  BY DEF Shared
<1>2. QED
  BY <1>1 DEF ListInv

LEMMA ListStep ==
  ASSUME ListInv, PhaseInv, [Next]_vars
  PROVE  ListInv'
<1> USE DEF Checked, Taking
<1>0. resources \in Seq(Shared)
  BY DEF ListInv
<1>1. ASSUME NEW k \in {"buffer", "ring"}, resources' = Append(resources, k),
             live' = live \cup {k}, pc' \in Taking \ {"inference_resources"} =>
                                      pc \in Taking \ {"inference_resources"}
      PROVE  ListInv'
  <2>1. k \in Shared /\ k # "pipeline"
    BY DEF Shared
  <2>2. /\ resources' \in Seq(Shared) /\ Len(resources) \in Nat
        /\ DOMAIN resources = 1..Len(resources)
        /\ DOMAIN resources' = 1..(Len(resources) + 1)
        /\ \A i \in 1..Len(resources) : resources'[i] = resources[i]
        /\ resources'[Len(resources) + 1] = k
    BY <1>0, <1>1, <2>1
  <2>3. \A j \in Shared \cap live' : \E i \in DOMAIN resources' : resources'[i] = j
    <3>1. SUFFICES ASSUME NEW j \in Shared \cap live'
                   PROVE  \E i \in DOMAIN resources' : resources'[i] = j
      OBVIOUS
    <3>2. CASE j = k
      BY <2>2, <3>2
    <3>3. CASE j # k
      <4>1. PICK i \in DOMAIN resources : resources[i] = j
        BY <1>1, <3>3 DEF ListInv
      <4>2. QED
        BY <2>2, <4>1
    <3>4. QED
      BY <3>2, <3>3
  <2>4. \A i \in DOMAIN resources' : resources'[i] = "pipeline" =>
          i \in DOMAIN resources /\ resources[i] = "pipeline"
    BY <2>1, <2>2
  <2>5. live' \subseteq Shared \cup {"logger", "collector", "group"}
    BY <1>1, <2>1 DEF ListInv
  <2>6. "pipeline" \in live' => "buffer" \in live'
    BY <1>1, <2>1 DEF ListInv
  <2>7. QED
    BY <1>1, <2>2, <2>3, <2>4, <2>5, <2>6 DEF ListInv
<1>2. CASE OpenBuffer
  BY <1>1, <1>2 DEF OpenBuffer
<1>3. CASE OpenRing
  BY <1>1, <1>3 DEF OpenRing
<1>4. CASE OpenPipeline
  <2>1. CASE UNCHANGED <<resources, live>> /\ pc' = "left"
    BY <2>1 DEF ListInv
  <2>2. CASE /\ resources' = RegisteredFirst("pipeline", resources)
             /\ live' = live \cup {"pipeline"} /\ pc' = "inference_resources"
    <3>1. pc = "pipeline"
      BY <1>4 DEF OpenPipeline
    <3>2. /\ <<"pipeline">> \in Seq(Shared) /\ resources' = <<"pipeline">> \o resources
      BY <2>2 DEF RegisteredFirst, Shared
    <3>3. /\ resources' \in Seq(Shared) /\ Len(resources) \in Nat
          /\ DOMAIN resources = 1..Len(resources)
          /\ DOMAIN resources' = 1..(Len(resources) + 1)
          /\ resources'[1] = "pipeline"
          /\ \A i \in 1..Len(resources) : resources'[i + 1] = resources[i]
      BY <1>0, <3>2
    <3>4. \A i \in 1..Len(resources) : resources[i] # "pipeline"
      BY <3>1, <3>3 DEF ListInv
    <3>5. \A i \in DOMAIN resources' : resources'[i] = "pipeline" => i = 1
      <4>1. SUFFICES ASSUME NEW i \in DOMAIN resources', i # 1 PROVE resources'[i] # "pipeline"
        OBVIOUS
      <4>2. i - 1 \in 1..Len(resources) /\ (i - 1) + 1 = i
        BY <3>3, <4>1
      <4>3. QED
        BY <3>3, <3>4, <4>2
    <3>6. \A j \in Shared \cap live' : \E i \in DOMAIN resources' : resources'[i] = j
      <4>1. SUFFICES ASSUME NEW j \in Shared \cap live'
                     PROVE  \E i \in DOMAIN resources' : resources'[i] = j
        OBVIOUS
      <4>2. CASE j = "pipeline"
        BY <3>3, <4>2
      <4>3. CASE j # "pipeline"
        <5>1. PICK i \in DOMAIN resources : resources[i] = j
          BY <2>2, <4>3 DEF ListInv
        <5>2. i + 1 \in DOMAIN resources' /\ resources'[i + 1] = j
          BY <3>3, <5>1
        <5>3. QED
          BY <5>2
      <4>4. QED
        BY <4>2, <4>3
    <3>7. "buffer" \in live' /\ live' \subseteq Shared \cup {"logger", "collector", "group"}
      BY <2>2, <3>1 DEF ListInv, PhaseInv, Shared
    <3>8. QED
      BY <2>2, <3>3, <3>5, <3>6, <3>7 DEF ListInv
  <2>3. QED
    BY <1>4, <2>1, <2>2 DEF OpenPipeline
<1>5. CASE ReleaseResource
  <2>1. /\ resources # <<>> /\ live' = live \ {Head(resources)}
        /\ resources' = Tail(resources) /\ pc' = pc /\ pc = "release"
    BY <1>5 DEF ReleaseResource
  <2>2. /\ resources' \in Seq(Shared) /\ Len(resources) \in Nat \ {0}
        /\ DOMAIN resources = 1..Len(resources)
        /\ DOMAIN resources' = 1..(Len(resources) - 1)
        /\ Head(resources) = resources[1]
        /\ \A i \in 1..(Len(resources) - 1) : resources'[i] = resources[i + 1]
    BY <1>0, <2>1
  <2>3. \A i \in DOMAIN resources' : resources'[i] # "pipeline"
    <3>1. SUFFICES ASSUME NEW i \in DOMAIN resources', resources'[i] = "pipeline" PROVE FALSE
      OBVIOUS
    <3>2. i + 1 \in DOMAIN resources /\ resources[i + 1] = "pipeline" /\ i + 1 # 1
      BY <2>2, <3>1
    <3>3. QED
      BY <3>2 DEF ListInv
  <2>4. \A j \in Shared \cap live' : \E i \in DOMAIN resources' : resources'[i] = j
    <3>1. SUFFICES ASSUME NEW j \in Shared \cap live'
                   PROVE  \E i \in DOMAIN resources' : resources'[i] = j
      OBVIOUS
    <3>2. PICK i \in DOMAIN resources : resources[i] = j
      BY <2>1 DEF ListInv
    <3>3. i # 1
      BY <2>1, <2>2, <3>2
    <3>4. i - 1 \in DOMAIN resources' /\ (i - 1) + 1 = i
      BY <2>2, <3>3
    <3>5. QED
      BY <2>2, <3>2, <3>4
  <2>5. "pipeline" \notin live'
    BY <2>3, <2>4 DEF Shared
  <2>6. QED
    BY <2>1, <2>2, <2>3, <2>4, <2>5 DEF ListInv
<1>6. CASE ClosePipeline
  <2>1. /\ live' = live \ {"pipeline"} /\ UNCHANGED resources /\ pc' = "final"
    BY <1>6 DEF ClosePipeline
  <2>2. QED
    BY <2>1, ListKept
<1>7. CASE Restart
  <2>1. resources' = <<>> /\ live' = {} /\ pc' = "start"
    BY <1>7 DEF Restart
  <2>2. QED
    BY <2>1 DEF ListInv
<1>8. CASE Killed
  <2>1. live' = {} /\ UNCHANGED resources /\ pc' = "dead"
    BY <1>8 DEF Killed
  <2>2. QED
    BY <2>1, ListKept
<1>9. CASE Learn \/ Resume \/ CheckHostMemory \/ CheckDeviceMemory
  BY <1>9, ListKept DEF Learn, Resume, CheckHostMemory, CheckDeviceMemory, processVars
<1>10. CASE StartLogger \/ DpInitBroadcast \/ StartCollector \/ ShutdownCollector \/ Finish
  BY <1>10, ListKept DEF StartLogger, DpInitBroadcast, StartCollector, ShutdownCollector, Finish
<1>11. CASE NextIteration \/ EndIteration
  BY <1>11, ListKept DEF NextIteration, EndIteration, processVars
<1>12. CASE LearnerSteps
  BY <1>12, ListKept, LearnerStepsStay DEF LearnerSteps, LearnerPhases, processVars
<1>13. CASE Raise \/ CloseLogger \/ JoinCollector \/ CloseGroup
  BY <1>13, ListKept DEF Raise, CloseLogger, JoinCollector, CloseGroup
<1>14. CASE UNCHANGED vars
  BY <1>14 DEF vars, cycleVars, processVars, ListInv
<1>15. QED
  BY <1>2, <1>3, <1>4, <1>5, <1>6, <1>7, <1>8, <1>9, <1>10, <1>11, <1>12, <1>13, <1>14 DEF Next

LEMMA PhaseKept ==
  ASSUME ListInv, PhaseInv, [Next]_vars
  PROVE  PhaseInv'
<1> USE DEF InsideTry, Running, Shared
<1>1. CASE Learn \/ Resume \/ CheckHostMemory \/ CheckDeviceMemory
  BY <1>1 DEF Learn, Resume, CheckHostMemory, CheckDeviceMemory, processVars, PhaseInv
<1>2. CASE OpenBuffer \/ OpenPipeline \/ OpenRing
  BY <1>2 DEF OpenBuffer, OpenPipeline, OpenRing, PhaseInv
<1>3. CASE StartLogger \/ DpInitBroadcast \/ StartCollector
  BY <1>3 DEF StartLogger, DpInitBroadcast, StartCollector, PhaseInv
<1>4. CASE NextIteration \/ EndIteration
  BY <1>4 DEF NextIteration, EndIteration, processVars, PhaseInv
<1>5. CASE ShutdownCollector \/ ClosePipeline \/ Finish
  BY <1>5 DEF ShutdownCollector, ClosePipeline, Finish, PhaseInv
<1>6. CASE LearnerSteps
  BY <1>6, LearnerStepsStay DEF LearnerSteps, LearnerPhases, processVars, PhaseInv
<1>7. CASE Raise
  BY <1>7 DEF Raise, BeforeTry, PhaseInv
<1>8. CASE CloseLogger \/ JoinCollector \/ ReleaseResource
  BY <1>8 DEF CloseLogger, JoinCollector, ReleaseResource, PhaseInv
<1>9. CASE CloseGroup
  <2>1. pc = "release" /\ resources = <<>> /\ live' = live \ {"group"} /\ pc' = "closed"
    BY <1>9 DEF CloseGroup
  <2>2. \A k \in Shared : k \notin live
    BY <2>1 DEF ListInv
  <2>3. "logger" \notin live /\ "collector" \notin live
    BY <2>1 DEF PhaseInv
  <2>4. live' = {}
    BY <2>1, <2>2, <2>3 DEF ListInv
  <2>5. QED
    BY <2>1, <2>4 DEF PhaseInv
<1>10. CASE Killed \/ Restart
  BY <1>10 DEF Killed, Restart, PhaseInv
<1>11. CASE UNCHANGED vars
  BY <1>11 DEF vars, cycleVars, processVars, PhaseInv
<1>12. QED
  BY <1>1, <1>2, <1>3, <1>4, <1>5, <1>6, <1>7, <1>8, <1>9, <1>10, <1>11 DEF Next

\* Whatever step failed, and however often a process was killed and started again, the
\* pipeline's thread and the collector never run beside a closed buffer or ring, and a closed
\* runner has left nothing open (_learn_impl, close).
THEOREM NothingOutlivesItsUse == Spec => []ResourceLifetimes
<1>1. Init => ListInv /\ PhaseInv
  BY DEF Init, ListInv, PhaseInv, Running, InsideTry
<1>2. ListInv /\ PhaseInv /\ [Next]_vars => (ListInv /\ PhaseInv)'
  BY ListStep, PhaseKept
<1>3. ListInv /\ PhaseInv => ResourceLifetimes
  BY DEF ListInv, PhaseInv, ResourceLifetimes, Running, Shared
<1>4. QED
  BY <1>1, <1>2, <1>3, PTL DEF Spec
-----------------------------------------------------------------------------
(* Updates, iterations and checkpoints.                                      *)

\* Where an iteration has begun: the learner is one update behind it.
Ahead == (BeforeTry \cup InsideTry) \ {"save"}

\* Where it still has updates to make.
Working == {"stats", "update", "replay", "read", "save"}

CountInv ==
  /\ updates \in Nat /\ iteration \in Nat
  /\ pc = "start" => updates = 0
  /\ pc \in Ahead => iteration = updates + 1 /\ iteration <= MaxIterations + 1
  /\ pc = "capture" => caller \in {"prepare", "update"}
  /\ pc \in Working \/ (pc = "capture" /\ caller = "update") => iteration \in 1..MaxIterations
  /\ pc \in {"quiesce", "close_pipeline", "final"} => iteration = MaxIterations + 1
  /\ pc = "read" => pending = updates + 1
  /\ pc = "save" => updates = iteration /\ logged = iteration

FilesInv ==
  \A n \in DOMAIN saved :
    /\ n \in 1..MaxIterations
    /\ saved[n] # Torn => saved[n].updates = n

\* The steps in between that count nothing.
LEMMA CountStays ==
  ASSUME CountInv, UNCHANGED <<updates, iteration, pending, logged, caller>>,
         \/ pc' = pc
         \/ pc' \notin Ahead \cup {"start", "save"}
         \/ /\ pc \in Ahead \ Working /\ pc' \in Ahead
            /\ pc' \notin Working \cup {"capture", "quiesce", "close_pipeline", "final"}
  PROVE  CountInv'
BY DEF CountInv, Ahead, Working, BeforeTry, InsideTry

LEMMA CountLearner ==
  ASSUME CountInv, UpdateSteps, UNCHANGED iteration
  PROVE  CountInv'
<1> USE DEF CountInv, Ahead, Working, BeforeTry, InsideTry
<1>1. CASE GraphIsCached
  BY <1>1 DEF GraphIsCached, WantsGraph, learnerVars
<1>2. CASE WarmUpdateCycleGraph
  BY <1>2 DEF WarmUpdateCycleGraph, WantsGraph
<1>3. CASE CaptureGraph
  BY <1>3 DEF CaptureGraph
<1>4. CASE CaptureFails
  BY <1>4 DEF CaptureFails
<1>5. CASE PrepareByUpdates
  BY <1>5 DEF PrepareByUpdates
<1>6. CASE Replay \/ EagerUpdates
  BY <1>6 DEF Replay, EagerUpdates
<1>7. CASE ReadMetrics
  BY <1>7 DEF ReadMetrics
<1>8. CASE UpdateRewardStats
  BY <1>8 DEF UpdateRewardStats
<1>9. QED
  BY <1>1, <1>2, <1>3, <1>4, <1>5, <1>6, <1>7, <1>8 DEF UpdateSteps

LEMMA CountStep ==
  ASSUME CountInv, FilesInv, [Next]_vars
  PROVE  CountInv'
<1> USE DEF Ahead, Working, BeforeTry, InsideTry, KeepLearner, learnerVars, processVars
<1>a. MaxIterations \in Nat
  BY StartupAssumption DEF StartupAssumption
<1>1. CASE Learn
  BY <1>1, <1>a DEF Learn, CountInv
<1>2. CASE Resume
  <2>1. PICK n \in DOMAIN saved :
          IF saved[n] = Torn
            THEN pc' = "left" /\ UNCHANGED <<learnerVars, iteration>>
            ELSE LoadStateDict(saved[n]) /\ iteration' = updates' + 1 /\ pc' = "memory_budget"
    BY <1>2 DEF Resume
  <2>2. CASE saved[n] = Torn
    BY <2>1, <2>2 DEF CountInv
  <2>3. CASE saved[n] # Torn
    <3>1. updates' = saved[n].updates /\ iteration' = updates' + 1 /\ pc' = "memory_budget"
      BY <2>1, <2>3 DEF LoadStateDict
    <3>2. saved[n].updates = n /\ n \in 1..MaxIterations
      BY <2>3 DEF FilesInv
    <3>3. QED
      BY <3>1, <3>2, <1>a DEF CountInv
  <2>4. QED
    BY <2>2, <2>3
<1>3. CASE CheckHostMemory \/ CheckDeviceMemory \/ OpenBuffer \/ OpenPipeline \/ OpenRing
           \/ StartLogger \/ DpInitBroadcast \/ StartCollector
  BY <1>3, CountStays DEF CheckHostMemory, CheckDeviceMemory, OpenBuffer, OpenPipeline, OpenRing,
    StartLogger, DpInitBroadcast, StartCollector
<1>4. CASE LearnerSteps
  BY <1>4, CountLearner DEF LearnerSteps
<1>5. CASE NextIteration
  <2>1. /\ pc = "loop" /\ UNCHANGED <<updates, iteration, pending, logged, caller>>
        /\ \/ iteration <= MaxIterations /\ pc' = "stats"
           \/ ~(iteration <= MaxIterations) /\ pc' = "quiesce"
    BY <1>5 DEF NextIteration
  <2>2. QED
    BY <2>1, <1>a DEF CountInv
<1>6. CASE EndIteration
  <2>1. /\ pc = "save" /\ pc' = "loop" /\ iteration' = iteration + 1
        /\ UNCHANGED <<updates, pending, logged, caller>>
    BY <1>6 DEF EndIteration
  <2>2. QED
    BY <2>1, <1>a DEF CountInv
<1>7. CASE ShutdownCollector \/ ClosePipeline \/ Finish
  BY <1>7 DEF ShutdownCollector, ClosePipeline, Finish, CountInv
<1>8. CASE Raise \/ CloseLogger \/ JoinCollector \/ ReleaseResource \/ CloseGroup \/ Killed
  BY <1>8, CountStays DEF Raise, CloseLogger, JoinCollector, ReleaseResource, CloseGroup, Killed
<1>9. CASE Restart
  BY <1>9 DEF Restart, CountInv
<1>10. CASE UNCHANGED vars
  BY <1>10, CountStays DEF vars, cycleVars
<1>11. QED
  BY <1>1, <1>2, <1>3, <1>4, <1>5, <1>6, <1>7, <1>8, <1>9, <1>10 DEF Next

LEMMA FilesStep ==
  ASSUME CountInv, FilesInv, [Next]_vars
  PROVE  FilesInv'
<1>a. MaxIterations \in Nat \ {0}
  BY StartupAssumption DEF StartupAssumption
<1>b. ASSUME NEW n \in 1..MaxIterations, NEW state,
             state = Torn \/ state.updates = n,
             saved' = [m \in DOMAIN saved \cup {n} |-> IF m = n THEN state ELSE saved[m]]
      PROVE  FilesInv'
  BY <1>b DEF FilesInv
<1>c. ASSUME NEW n \in 1..MaxIterations, n = updates, WriteCheckpoint(n)
      PROVE  FilesInv'
  <2>1. Checkpoint.updates = n
    BY <1>c DEF Checkpoint
  <2>2. QED
    BY <2>1, <1>b, <1>c DEF WriteCheckpoint
<1>d. CASE UNCHANGED saved
  BY <1>d DEF FilesInv
<1>1. CASE EndIteration /\ ~UNCHANGED saved
  <2>1. pc = "save" /\ WriteCheckpoint(iteration)
    BY <1>1 DEF EndIteration
  <2>2. iteration \in 1..MaxIterations /\ iteration = updates
    BY <2>1, <1>a DEF CountInv, Working, EndIteration
  <2>3. QED
    BY <2>1, <2>2, <1>c
<1>2. CASE Finish /\ ~UNCHANGED saved
  <2>1. pc = "final" /\ WriteCheckpoint(MaxIterations)
    BY <1>2 DEF Finish
  <2>2. MaxIterations = updates
    BY <2>1, <1>a DEF CountInv, Ahead, BeforeTry, InsideTry
  <2>3. QED
    BY <2>1, <2>2, <1>a, <1>c
<1>3. CASE LeavesFiles
  <2>1. ASSUME WritesFile,
               saved' = [m \in DOMAIN saved \cup {IF pc = "save" THEN iteration ELSE MaxIterations} |->
                 IF m = (IF pc = "save" THEN iteration ELSE MaxIterations) THEN Torn ELSE saved[m]]
        PROVE  FilesInv'
    <3>1. (IF pc = "save" THEN iteration ELSE MaxIterations) \in 1..MaxIterations
      <4>1. ASSUME pc = "save" PROVE iteration \in 1..MaxIterations
        BY <4>1 DEF CountInv, Working
      <4>2. QED
        BY <4>1, <1>a
    <3>2. QED
      BY <2>1, <3>1, <1>b
  <2>2. QED
    BY <1>3, <1>d, <2>1 DEF LeavesFiles
<1>4. CASE Raise \/ Killed
  BY <1>3, <1>4 DEF Raise, Killed
<1>5. CASE UNCHANGED vars
  BY <1>5, <1>d DEF vars
<1>6. CASE Next /\ ~(EndIteration \/ Finish \/ Raise \/ Killed)
  <2>1. UNCHANGED saved
    BY <1>6 DEF Next, Learn, Resume, CheckHostMemory, CheckDeviceMemory, OpenBuffer, OpenPipeline,
      OpenRing, StartLogger, DpInitBroadcast, LearnerSteps, StartCollector, NextIteration,
      ShutdownCollector, ClosePipeline, CloseLogger, JoinCollector, ReleaseResource, CloseGroup,
      Restart, KeepSaved
  <2>2. QED
    BY <2>1, <1>d
<1>7. QED
  BY <1>d, <1>1, <1>2, <1>4, <1>5, <1>6

\* Iterations and updates stay in step on every path through the update, across failures, kills
\* and resumes from any checkpoint, torn ones included: a checkpoint model_n that can be read
\* holds exactly n updates (_save_checkpoint, _restore_resume_checkpoint).
THEOREM CheckpointsHoldTheirUpdates == Spec => []UpdatesAreCounted
<1>1. Init => CountInv /\ FilesInv
  <2> SUFFICES ASSUME Init PROVE CountInv /\ FilesInv
    OBVIOUS
  <2>1. pc = "start" /\ updates = 0 /\ iteration = 0 /\ saved = << >>
    BY DEF Init, NewLearner
  <2>2. DOMAIN saved = {}
    BY <2>1
  <2>3. QED
    BY <2>1, <2>2 DEF CountInv, FilesInv, Ahead, Working, BeforeTry, InsideTry
<1>2. CountInv /\ FilesInv /\ [Next]_vars => (CountInv /\ FilesInv)'
  BY CountStep, FilesStep
<1>3. CountInv /\ FilesInv => UpdatesAreCounted
  BY DEF CountInv, FilesInv, UpdatesAreCounted, Ahead, BeforeTry, InsideTry
<1>4. QED
  BY <1>1, <1>2, <1>3, PTL DEF Spec

-----------------------------------------------------------------------------
(* The rates a replayed graph reads.                                         *)

IsSequence(s) == \E S : s \in Seq(S)

LEMMA SequenceReplaced ==
  ASSUME NEW s, IsSequence(s), Len(s) > 0, NEW x
  PROVE  /\ IsSequence([s EXCEPT ![Len(s)] = x])
         /\ Len([s EXCEPT ![Len(s)] = x]) = Len(s)
         /\ [s EXCEPT ![Len(s)] = x][Len(s)] = x
<1>1. PICK S : s \in Seq(S)
  BY DEF IsSequence
<1>2. [s EXCEPT ![Len(s)] = x] \in Seq(S \cup {x})
  <2>1. s \in Seq(S \cup {x})
    BY <1>1
  <2>2. QED
    BY <2>1
<1>3. QED
  BY <1>1, <1>2 DEF IsSequence

LEMMA SequenceAppended ==
  ASSUME NEW s, IsSequence(s), NEW x
  PROVE  IsSequence(Append(s, x)) /\ Len(Append(s, x)) = Len(s) + 1 /\ Len(s) \in Nat
<1>1. PICK S : s \in Seq(S)
  BY DEF IsSequence
<1>2. s \in Seq(S \cup {x})
  BY <1>1
<1>3. Append(s, x) \in Seq(S \cup {x}) /\ Len(Append(s, x)) = Len(s) + 1 /\ Len(s) \in Nat
  BY <1>2
<1>4. QED
  BY <1>3 DEF IsSequence

\* FlashSAC's graph was captured with the LR tensors that were prepared last.
GraphInv ==
  /\ IsSequence(tensors)
  /\ pc = "capture" => graph = <<>>
  /\ pc = "replay" => graph # <<>>
  /\ algo = "flash" /\ graph # <<>> => Head(graph).specs = Len(tensors) /\ Len(tensors) > 0

LEMMA GraphGone ==
  ASSUME graph' = <<>>, tensors' = <<>>, pc' # "replay"
  PROVE  GraphInv'
<1>1. tensors' \in Seq({})
  OBVIOUS
<1>2. QED
  BY <1>1 DEF GraphInv, IsSequence

LEMMA GraphStays ==
  ASSUME GraphInv, UNCHANGED <<graph, tensors, algo>>, pc' = pc \/ pc' \notin {"capture", "replay"}
  PROVE  GraphInv'
BY DEF GraphInv

LEMMA GraphStep ==
  ASSUME GraphInv, [Next]_vars
  PROVE  GraphInv'
<1>a. IsSequence(CapturedTensors) /\ (algo = "flash" => Len(CapturedTensors) > 0)
  BY SequenceAppended DEF GraphInv, CapturedTensors
<1>1. CASE GraphIsCached
  BY <1>1 DEF GraphIsCached, HasGraph, learnerVars, GraphInv
<1>2. CASE WarmUpdateCycleGraph
  <2>1. graph' = <<>> /\ pc' = "capture"
        /\ tensors' = (IF algo = "flash" THEN Append(tensors, Zeros) ELSE tensors)
    BY <1>2 DEF WarmUpdateCycleGraph
  <2>2. IsSequence(tensors')
    BY <2>1, SequenceAppended DEF GraphInv
  <2>3. QED
    BY <2>1, <2>2 DEF GraphInv
<1>3. CASE CaptureGraph
  <2>1. /\ tensors' = CapturedTensors /\ algo' = algo /\ pc' # "capture"
        /\ graph' = << [nodes |-> Cycle, baked |-> training.lr, specs |-> Len(CapturedTensors)] >>
    BY <1>3 DEF CaptureGraph
  <2>2. graph' # <<>> /\ Head(graph').specs = Len(CapturedTensors)
    BY <2>1
  <2>3. QED
    BY <2>1, <2>2, <1>a DEF GraphInv
<1>4. CASE CaptureFails
  BY <1>4, <1>a DEF CaptureFails, GraphInv
<1>5. CASE PrepareByUpdates
  BY <1>5, GraphGone DEF PrepareByUpdates
<1>6. CASE Replay
  <2>1. tensors' = Refilled /\ pc' = "read" /\ UNCHANGED <<graph, algo>> /\ graph # <<>>
    BY <1>6 DEF Replay, GraphInv
  <2>2. IsSequence(tensors') /\ (algo = "flash" => Len(tensors') = Len(tensors))
    BY <2>1, SequenceReplaced DEF GraphInv, Refilled
  <2>3. QED
    BY <2>1, <2>2 DEF GraphInv
<1>7. CASE EagerUpdates \/ ReadMetrics \/ UpdateRewardStats
  BY <1>7, GraphStays DEF EagerUpdates, ReadMetrics, UpdateRewardStats
<1>8. CASE LearnerSteps
  BY <1>1, <1>2, <1>3, <1>4, <1>5, <1>6, <1>7, <1>8 DEF LearnerSteps, UpdateSteps
<1>9. CASE Resume
  BY <1>9, GraphGone, GraphStays DEF Resume, LoadStateDict, learnerVars
<1>10. CASE Restart
  BY <1>10, GraphGone DEF Restart
<1>11. CASE UNCHANGED vars
  BY <1>11, GraphStays DEF vars, cycleVars, learnerVars
<1>12. CASE Next /\ ~(LearnerSteps \/ Resume \/ Restart)
  <2>1. UNCHANGED <<graph, tensors, algo>> /\ (pc' = pc \/ pc' \notin {"capture", "replay"})
    BY <1>12 DEF Next, Learn, CheckHostMemory, CheckDeviceMemory, OpenBuffer, OpenPipeline,
      OpenRing, StartLogger, DpInitBroadcast, StartCollector, NextIteration, EndIteration,
      ShutdownCollector, ClosePipeline, Finish, Raise, CloseLogger, JoinCollector,
      ReleaseResource, CloseGroup, Killed, KeepLearner, learnerVars
  <2>2. QED
    BY <2>1, GraphStays
<1>13. QED
  BY <1>8, <1>9, <1>10, <1>11, <1>12 DEF Next

\* A replay of FlashSAC's graph finds, in the LR tensors the graph was captured with, the rates
\* of the schedule from the learner's epoch on: the tensors filled before a launch are those of
\* the last preparation, and captures, failed captures, preparations and resumes in between
\* never leave a graph that reads older ones (_fill_update_cycle_lr_specs, update_cycle).
ReplayReadsItsRates ==
  [][algo = "flash" /\ pc = "replay" /\ pc' = "read" =>
       tensors'[Head(graph).specs] = Filled(training)]_vars

THEOREM RatesAreOfTheSchedule == Spec => ReplayReadsItsRates
<1>1. Init => GraphInv
  <2> SUFFICES ASSUME Init PROVE GraphInv
    OBVIOUS
  <2>1. pc = "start" /\ graph = <<>> /\ tensors = <<>>
    BY DEF Init, NewLearner
  <2>2. tensors \in Seq({})
    BY <2>1
  <2>3. QED
    BY <2>1, <2>2 DEF GraphInv, IsSequence
<1>2. GraphInv /\ [Next]_vars => GraphInv'
  BY GraphStep
<1>3. ASSUME GraphInv, [Next]_vars, algo = "flash", pc = "replay", pc' = "read"
      PROVE  tensors'[Head(graph).specs] = Filled(training)
  <2>1. Replay
    BY <1>3 DEF Next, Learn, Resume, CheckHostMemory, CheckDeviceMemory, OpenBuffer,
      OpenPipeline, OpenRing, StartLogger, DpInitBroadcast, StartCollector, NextIteration,
      EndIteration, ShutdownCollector, ClosePipeline, Finish, Raise, CloseLogger, JoinCollector,
      ReleaseResource, CloseGroup, Killed, Restart, LearnerSteps, UpdateSteps, GraphIsCached,
      WarmUpdateCycleGraph, CaptureGraph, CaptureFails, PrepareByUpdates, EagerUpdates,
      ReadMetrics, UpdateRewardStats, WantsGraph, BeforeTry, InsideTry, vars, cycleVars
  <2>2. tensors' = [tensors EXCEPT ![Len(tensors)] = Filled(training)]
    BY <1>3, <2>1 DEF Replay, Refilled
  <2>3. Head(graph).specs = Len(tensors) /\ Len(tensors) > 0 /\ IsSequence(tensors)
    BY <1>3 DEF GraphInv
  <2>4. QED
    BY <2>2, <2>3, SequenceReplaced
<1>4. QED
  BY <1>1, <1>2, <1>3, PTL DEF Spec, ReplayReadsItsRates

-----------------------------------------------------------------------------
(* Induction over the naturals, and what it says of folds and flattening.     *)

\* Induction over the naturals, for a property given as the set of the numbers that have it.
LEMMA SetInduction ==
  ASSUME NEW S, 0 \in S, \A n \in Nat : n \in S => n + 1 \in S
  PROVE  Nat \subseteq S
<1> DEFINE R == OpToRel(<, Nat)
           T == Nat \ S
<1>1. SUFFICES ASSUME T # {} PROVE FALSE
  OBVIOUS
<1>2. IsWellFoundedOn(R, Nat)
  BY NatLessThanWellFounded
<1> HIDE DEF R
<1>3. PICK x \in T : \A y \in T : ~(<<y, x>> \in R)
  BY <1>1, <1>2, WFMin
<1>4. x # 0 /\ x \in Nat
  OBVIOUS
<1>5. x - 1 \in Nat /\ x - 1 \in T
  BY <1>4
<1>6. <<x - 1, x>> \in R
  BY <1>4, <1>5 DEF R, OpToRel
<1>7. QED
  BY <1>3, <1>5, <1>6

\* The same up to a bound.
LEMMA UpTo ==
  ASSUME NEW N \in Nat, NEW S, 0 \in S, \A n \in 0 .. (N - 1) : n \in S => n + 1 \in S
  PROVE  0 .. N \subseteq S /\ N \in S
<1> DEFINE T == {n \in Nat : n <= N => n \in S}
<1>1. 0 \in T
  OBVIOUS
<1>2. \A n \in Nat : n \in T => n + 1 \in T
  OBVIOUS
<1> HIDE DEF T
<1>3. Nat \subseteq T
  BY <1>1, <1>2, SetInduction
<1>4. \A n \in 0 .. N : n \in S
  BY <1>3 DEF T
<1>5. QED
  BY <1>4

\* The greatest place of an initial part is its last.
LEMMA MaxOfTop ==
  ASSUME NEW n \in Nat, NEW s \in SUBSET (1 .. n), n \in s
  PROVE  Max(s) = n
<1>1. n \in s /\ \A y \in s : n >= y
  OBVIOUS
<1>2. Max(s) \in s /\ \A y \in s : Max(s) >= y
  BY <1>1 DEF Max
<1>3. Max(s) \in 1 .. n /\ Max(s) >= n
  BY <1>1, <1>2
<1>4. QED
  BY <1>3

\* Every nonempty set of places has a greatest one.
LEMMA MaxInside ==
  ASSUME NEW N \in Nat, NEW s \in SUBSET (1 .. N), s # {}
  PROVE  Max(s) \in s /\ Max(s) \in 1 .. N
<1> DEFINE S == {k \in 0 .. N : \A r \in SUBSET (1 .. k) :
                                  r # {} => \E x \in r : \A y \in r : x >= y}
<1>1. 0 \in S
  <2>1. 0 \in 0 .. N /\ \A r \in SUBSET (1 .. 0) : r = {}
    OBVIOUS
  <2>2. QED
    BY <2>1
<1>2. ASSUME NEW k \in 0 .. (N - 1), k \in S PROVE k + 1 \in S
  <2>1. ASSUME NEW r \in SUBSET (1 .. (k + 1)), r # {}
        PROVE  \E x \in r : \A y \in r : x >= y
    <3>1. CASE k + 1 \in r
      BY <3>1
    <3>2. CASE k + 1 \notin r
      <4>1. r \in SUBSET (1 .. k)
        BY <3>2
      <4>2. QED
        BY <4>1, <2>1, <1>2
    <3>3. QED
      BY <3>1, <3>2
  <2>2. QED
    BY <2>1
<1> HIDE DEF S
<1>3. N \in S
  BY <1>1, <1>2, UpTo
<1>4. \E x \in s : \A y \in s : x >= y
  BY <1>3 DEF S
<1>5. Max(s) \in s
  BY <1>4 DEF Max
<1>6. QED
  BY <1>5

\* A table over the sets of places of a sequence, each entry from that of the set without its
\* last place: what a fold from the left is computed by.
FoldTable(g, V, base, N, step) ==
  /\ g \in [SUBSET (1 .. N) -> V]
  /\ \A s \in SUBSET (1 .. N) :
       g[s] = IF s = {} THEN base ELSE step[<<g[s \ {Max(s)}], Max(s)>>]

\* So a table exists, by induction over the length.
LEMMA FoldTableExists ==
  ASSUME NEW V, NEW base \in V, NEW N \in Nat, NEW step \in [V \X (1 .. N) -> V]
  PROVE  \E g : FoldTable(g, V, base, N, step)
<1> DEFINE S == {k \in 0 .. N : \E g : FoldTable(g, V, base, k, step)}
<1>1. 0 \in S
  <2> DEFINE g == [s \in SUBSET (1 .. 0) |-> base]
  <2>1. g \in [SUBSET (1 .. 0) -> V]
    OBVIOUS
  <2>2. SUBSET (1 .. 0) = {{}}
    OBVIOUS
  <2>3. FoldTable(g, V, base, 0, step)
    BY <2>1, <2>2 DEF FoldTable
  <2>4. QED
    BY <2>3
<1>2. ASSUME NEW k \in 0 .. (N - 1), k \in S PROVE k + 1 \in S
  <2>1. PICK g : FoldTable(g, V, base, k, step)
    BY <1>2
  <2> DEFINE h == [s \in SUBSET (1 .. (k + 1)) |->
                     IF k + 1 \in s THEN step[<<g[s \ {k + 1}], k + 1>>] ELSE g[s]]
  <2>2. \A s \in SUBSET (1 .. (k + 1)) :
          /\ k + 1 \in s => s \ {k + 1} \in SUBSET (1 .. k)
          /\ k + 1 \notin s => s \in SUBSET (1 .. k)
    OBVIOUS
  <2>3. h \in [SUBSET (1 .. (k + 1)) -> V]
    BY <2>1, <2>2 DEF FoldTable
  <2>4. ASSUME NEW s \in SUBSET (1 .. (k + 1))
        PROVE  h[s] = IF s = {} THEN base ELSE step[<<h[s \ {Max(s)}], Max(s)>>]
    <3>1. CASE k + 1 \in s
      <4>1. Max(s) = k + 1
        BY <3>1, MaxOfTop
      <4>2. /\ s \ {k + 1} \in SUBSET (1 .. (k + 1)) /\ k + 1 \notin s \ {k + 1}
            /\ h[s \ {k + 1}] = g[s \ {k + 1}] /\ s # {}
        BY <3>1
      <4>3. h[s] = step[<<g[s \ {k + 1}], k + 1>>]
        BY <3>1
      <4>4. QED
        BY <4>1, <4>2, <4>3
    <3>2. CASE k + 1 \notin s
      <4>1. s \in SUBSET (1 .. k) /\ h[s] = g[s]
        BY <3>2, <2>2
      <4>2. h[s \ {Max(s)}] = g[s \ {Max(s)}]
        BY <4>1, <3>2
      <4>3. g[s] = IF s = {} THEN base ELSE step[<<g[s \ {Max(s)}], Max(s)>>]
        BY <4>1, <2>1 DEF FoldTable
      <4>4. QED
        BY <4>1, <4>2, <4>3
    <3>3. QED
      BY <3>1, <3>2
  <2> HIDE DEF h
  <2>5. FoldTable(h, V, base, k + 1, step)
    BY <2>3, <2>4 DEF FoldTable
  <2>6. QED
    BY <2>5
<1> HIDE DEF S
<1>3. N \in S
  BY <1>1, <1>2, UpTo
<1>4. QED
  BY <1>3 DEF S

\* The places a fold from the left visits.
LEMMA InitialPlaces ==
  ASSUME NEW N \in Nat, NEW k \in 1 .. N
  PROVE  /\ 1 .. k \in SUBSET (1 .. N) /\ 1 .. k # {} /\ Max(1 .. k) = k
         /\ 1 .. (k - 1) \in SUBSET (1 .. N) /\ (1 .. k) \ {k} = 1 .. (k - 1)
<1>1. k \in Nat /\ k \in 1 .. k
  OBVIOUS
<1>2. \A s : s = 1 .. k => s \in SUBSET (1 .. k)
  OBVIOUS
<1>3. Max(1 .. k) = k
  BY <1>1, <1>2, MaxOfTop
<1>4. 1 .. k # {} /\ (1 .. k) \ {k} = 1 .. (k - 1)
  OBVIOUS
<1>5. 1 .. k \in SUBSET (1 .. N) /\ 1 .. (k - 1) \in SUBSET (1 .. N)
  OBVIOUS
<1>6. QED
  BY <1>3, <1>4, <1>5

\* FlattenSeq appends its parts one after the other.
IsFlattening(f, X, seqs, N) ==
  /\ N \in Nat
  /\ f \in [0 .. N -> Seq(X)]
  /\ f[0] = <<>>
  /\ \A k \in 1 .. N : seqs[k] \in Seq(X) /\ f[k] = f[k - 1] \o seqs[k]

LEMMA ConcatIsSequence ==
  ASSUME NEW X, NEW s \in Seq(X), NEW t \in Seq(X)
  PROVE  s \o t \in Seq(X)
OBVIOUS

\* The first part is what the flattening starts with.
LEMMA FirstPart ==
  ASSUME NEW f, NEW X, NEW seqs, NEW N, IsFlattening(f, X, seqs, N), N # 0
  PROVE  f[1] = seqs[1]
<1>1. 1 \in 1 .. N /\ 1 - 1 = 0
  BY DEF IsFlattening
<1>2. f[1] = <<>> \o seqs[1] /\ seqs[1] \in Seq(X)
  BY <1>1 DEF IsFlattening
<1>3. \A s \in Seq(X) : <<>> \o s = s
  OBVIOUS
<1>4. QED
  BY <1>2, <1>3

\* A flattening exists, by induction over the number of parts.
LEMMA FlatteningExists ==
  ASSUME NEW X, NEW N \in Nat, NEW seqs \in [1 .. N -> Seq(X)]
  PROVE  \E f : IsFlattening(f, X, seqs, N)
<1> DEFINE S == {n \in 0 .. N : \E f : IsFlattening(f, X, seqs, n)}
<1>1. 0 \in S
  <2>1. [n \in 0 .. 0 |-> <<>>] \in [0 .. 0 -> Seq(X)]
    OBVIOUS
  <2>2. IsFlattening([n \in 0 .. 0 |-> <<>>], X, seqs, 0)
    BY <2>1, SMTT(30) DEF IsFlattening
  <2>3. QED
    BY <2>2
<1>2. ASSUME NEW n \in 0 .. (N - 1), n \in S PROVE n + 1 \in S
  <2>1. PICK f : IsFlattening(f, X, seqs, n)
    BY <1>2
  <2> DEFINE h == [k \in 0 .. (n + 1) |-> IF k = n + 1 THEN f[n] \o seqs[n + 1] ELSE f[k]]
  <2>2. f[n] \o seqs[n + 1] \in Seq(X)
    <3>1. f[n] \in Seq(X) /\ seqs[n + 1] \in Seq(X)
      BY <2>1, SMTT(30) DEF IsFlattening
    <3>2. QED
      BY <3>1, ConcatIsSequence
  <2>3. h \in [0 .. (n + 1) -> Seq(X)]
    BY <2>1, <2>2, SMTT(30) DEF IsFlattening
  <2>4. h[0] = <<>>
    BY <2>1, SMTT(30) DEF IsFlattening
  <2>5. ASSUME NEW k \in 1 .. (n + 1) PROVE h[k] = h[k - 1] \o seqs[k]
    <3>1. /\ k \in 0 .. (n + 1) /\ k - 1 \in 0 .. (n + 1) /\ k - 1 # n + 1
          /\ k # n + 1 => k \in 1 .. n
      OBVIOUS
    <3>2. CASE k = n + 1
      <4>1. k - 1 = n
        BY <3>2
      <4>2. h[k] = f[n] \o seqs[n + 1] /\ h[k - 1] = f[k - 1]
        BY <3>1, <3>2
      <4>3. QED
        BY <3>2, <4>1, <4>2
    <3>3. CASE k # n + 1
      BY <3>1, <3>3, <2>1 DEF IsFlattening
    <3>4. QED
      BY <3>2, <3>3
  <2> HIDE DEF h
  <2>6. IsFlattening(h, X, seqs, n + 1)
    <3>1. \A k \in 1 .. (n + 1) : seqs[k] \in Seq(X)
      OBVIOUS
    <3>2. n + 1 \in Nat
      OBVIOUS
    <3>3. QED
      BY <2>3, <2>4, <2>5, <3>1, <3>2 DEF IsFlattening
  <2>7. QED
    BY <2>6
<1> HIDE DEF S
<1>3. N \in S
  BY <1>1, <1>2, UpTo
<1>4. QED
  BY <1>3 DEF S

\* FlattenSeq is the last entry of one.
LEMMA Flattened ==
  ASSUME NEW X, NEW N \in Nat, NEW seqs \in [1 .. N -> Seq(X)]
  PROVE  \E f : IsFlattening(f, X, seqs, N) /\ FlattenSeq(seqs) = f[N]
<1>1. PICK f : IsFlattening(f, X, seqs, N)
  BY FlatteningExists
<1>2. Len(seqs) = N
  OBVIOUS
<1>3. CASE N = 0
  <2>1. seqs = <<>>
    BY <1>3
  <2>2. FlattenSeq(seqs) = <<>>
    BY <2>1, <1>2, <1>3 DEF FlattenSeq
  <2>3. QED
    BY <1>1, <1>3, <2>2 DEF IsFlattening
<1>4. CASE N # 0
  <2> DEFINE Table(g) == [i \in 1 .. N |-> IF i = 1 THEN seqs[i] ELSE g[i - 1] \o seqs[i]]
             flatten == CHOOSE g : g = Table(g)
  <2>1. FlattenSeq(seqs) = flatten[N]
    BY <1>2, <1>4 DEF FlattenSeq
  <2>2. \E g : g = Table(g)
    <3> DEFINE g == [i \in 1 .. N |-> f[i]]
    <3>1. ASSUME NEW i \in 1 .. N
          PROVE  g[i] = IF i = 1 THEN seqs[i] ELSE g[i - 1] \o seqs[i]
      <4> DEFINE j == i - 1
      <4>1. /\ j \in 0 .. (N - 1) /\ j + 1 = i /\ (i = 1 <=> j = 0)
            /\ i # 1 => j \in 1 .. N
        OBVIOUS
      <4> HIDE DEF j
      <4>2. f[i] = f[j] \o seqs[i] /\ (i = 1 => f[i] = seqs[i])
        <5>1. f[i] = f[i - 1] \o seqs[i]
          BY <1>1 DEF IsFlattening
        <5>2. i = 1 => f[i] = seqs[i]
          BY <1>1, <1>4, FirstPart
        <5>3. QED
          BY <5>1, <5>2 DEF j
      <4>3. g[i] = f[i] /\ (i # 1 => g[j] = f[j])
        BY <4>1
      <4> HIDE DEF g
      <4>4. g[i] = IF i = 1 THEN seqs[i] ELSE g[j] \o seqs[i]
        BY <4>2, <4>3
      <4>5. QED
        BY <4>4 DEF j
    <3>2. g = Table(g)
      BY <3>1
    <3>3. QED
      BY <3>2
  <2>3. flatten = Table(flatten)
    <3> HIDE DEF Table
    <3>1. QED
      BY <2>2
  <2> HIDE DEF flatten
  <2> DEFINE h == [k \in 0 .. N |-> IF k = 0 THEN <<>> ELSE flatten[k]]
             S == {k \in 0 .. N : h[k] = f[k]}
  <2>4. 0 \in S
    BY <1>1 DEF IsFlattening
  <2>5. ASSUME NEW k \in 0 .. (N - 1), k \in S PROVE k + 1 \in S
    <3>1. /\ k + 1 \in 1 .. N /\ k + 1 \in 0 .. N /\ k + 1 # 0 /\ (k + 1) - 1 = k
          /\ k + 1 = 1 <=> k = 0
      OBVIOUS
    <3>2. f[k + 1] = f[k] \o seqs[k + 1] /\ (k = 0 => f[k + 1] = seqs[k + 1])
      <4>1. f[k + 1] = f[(k + 1) - 1] \o seqs[k + 1]
        BY <1>1, <3>1 DEF IsFlattening
      <4>2. k = 0 => f[k + 1] = seqs[k + 1]
        BY <1>1, <1>4, FirstPart
      <4>3. QED
        BY <3>1, <4>1, <4>2
    <3>3. flatten[k + 1] = IF k = 0 THEN seqs[k + 1] ELSE flatten[k] \o seqs[k + 1]
      BY <2>3, <3>1
    <3>4. k # 0 => flatten[k] = f[k]
      BY <2>5
    <3>5. flatten[k + 1] = f[k + 1]
      BY <3>2, <3>3, <3>4
    <3>6. QED
      BY <3>1, <3>5
  <2> HIDE DEF S
  <2>6. N \in S
    BY <2>4, <2>5, UpTo
  <2>7. flatten[N] = f[N]
    BY <2>6, <1>4 DEF S
  <2>8. QED
    BY <1>1, <2>1, <2>7
<1>5. QED
  BY <1>3, <1>4

\* One part more is appended at the end.
LEMMA FlattenGrows ==
  ASSUME NEW X, NEW N \in Nat, NEW seqs \in [1 .. (N + 1) -> Seq(X)],
         NEW first, first = [i \in 1 .. N |-> seqs[i]]
  PROVE  /\ FlattenSeq(first) \in Seq(X)
         /\ FlattenSeq(seqs) = FlattenSeq(first) \o seqs[N + 1]
<1>1. first \in [1 .. N -> Seq(X)]
  OBVIOUS
<1>2. PICK f : IsFlattening(f, X, first, N) /\ FlattenSeq(first) = f[N]
  BY <1>1, Flattened
<1>3. PICK g : IsFlattening(g, X, seqs, N + 1) /\ FlattenSeq(seqs) = g[N + 1]
  BY Flattened
<1> DEFINE S == {k \in 0 .. N : f[k] = g[k]}
<1>4. 0 \in S
  BY <1>2, <1>3 DEF IsFlattening
<1>5. ASSUME NEW k \in 0 .. (N - 1), k \in S PROVE k + 1 \in S
  <2>1. /\ k + 1 \in 1 .. N /\ k + 1 \in 1 .. (N + 1) /\ k + 1 \in 0 .. N
        /\ (k + 1) - 1 = k /\ first[k + 1] = seqs[k + 1]
    OBVIOUS
  <2>2. f[k + 1] = f[k] \o first[k + 1]
    BY <1>2, <2>1 DEF IsFlattening
  <2>3. g[k + 1] = g[k] \o seqs[k + 1]
    BY <1>3, <2>1 DEF IsFlattening
  <2>4. QED
    BY <1>5, <2>1, <2>2, <2>3
<1> HIDE DEF S
<1>6. N \in S
  BY <1>4, <1>5, UpTo
<1>7. g[N + 1] = g[N] \o seqs[N + 1] /\ f[N] \in Seq(X)
  <2>1. N + 1 \in 1 .. (N + 1) /\ (N + 1) - 1 = N /\ N \in 0 .. N
    OBVIOUS
  <2>2. g[N + 1] = g[N] \o seqs[N + 1]
    BY <1>3, <2>1 DEF IsFlattening
  <2>3. f[N] \in Seq(X)
    BY <1>2, <2>1 DEF IsFlattening
  <2>4. QED
    BY <2>2, <2>3
<1>8. QED
  BY <1>2, <1>3, <1>6, <1>7 DEF S

-----------------------------------------------------------------------------
(* How often an operation occurs in a sequence.                              *)

\* One place more counts one more if it has the operation.
LEMMA OccurrencesCount ==
  ASSUME NEW s, NEW op, NEW i \in Nat
  PROVE  /\ Occurrences(s, op, 0) = 0
         /\ Occurrences(s, op, i) \in Nat
         /\ Occurrences(s, op, i + 1) = Occurrences(s, op, i) + (IF s[i + 1] = op THEN 1 ELSE 0)
<1> DEFINE Places(n) == {j \in 1 .. n : s[j] = op}
<1>1. \A n \in Nat : IsFiniteSet(Places(n)) /\ Cardinality(Places(n)) \in Nat
  <2>1. ASSUME NEW n \in Nat PROVE IsFiniteSet(Places(n))
    <3>1. IsFiniteSet(1 .. n) /\ Places(n) \subseteq 1 .. n
      BY FS_Interval
    <3>2. QED
      BY <3>1, FS_Subset
  <2>2. QED
    BY <2>1, FS_CardinalityType
<1>2. Places(0) = {} /\ Cardinality({}) = 0
  BY FS_EmptySet
<1>3. \A n \in Nat : Occurrences(s, op, n) = Cardinality(Places(n))
  BY DEF Occurrences
<1>4. i + 1 \in Nat /\ 0 \in Nat
  OBVIOUS
<1> HIDE DEF Places
<1>5. Occurrences(s, op, 0) = 0 /\ Occurrences(s, op, i) \in Nat
  BY <1>3, <1>1, <1>2, <1>4
<1>6. CASE s[i + 1] = op
  <2>1. Places(i + 1) = Places(i) \cup {i + 1} /\ i + 1 \notin Places(i)
    BY <1>6 DEF Places
  <2>2. Cardinality(Places(i) \cup {i + 1}) = Cardinality(Places(i)) + 1
    BY <1>1, <2>1, FS_AddElement
  <2>3. QED
    BY <1>3, <1>6, <1>4, <1>5, <2>1, <2>2
<1>7. CASE s[i + 1] # op
  <2>1. Places(i + 1) = Places(i)
    BY <1>7 DEF Places
  <2>2. QED
    BY <1>3, <1>7, <1>4, <1>5, <2>1
<1>8. QED
  BY <1>6, <1>7

\* The places behind i do not matter.
LEMMA OccurrencesAgree ==
  ASSUME NEW s, NEW t, NEW op, NEW i \in Nat, \A j \in 1 .. i : s[j] = t[j]
  PROVE  Occurrences(s, op, i) = Occurrences(t, op, i)
<1>1. {j \in 1 .. i : s[j] = op} = {j \in 1 .. i : t[j] = op}
  OBVIOUS
<1>2. QED
  BY <1>1 DEF Occurrences

\* Counts only grow along a sequence.
LEMMA OccurrencesGrow ==
  ASSUME NEW s, NEW op, NEW i \in Nat, NEW k \in 0 .. i
  PROVE  Occurrences(s, op, k) <= Occurrences(s, op, i)
<1>1. IsFiniteSet(1 .. i) /\ {j \in 1 .. i : s[j] = op} \subseteq 1 .. i
  BY FS_Interval
<1>2. IsFiniteSet({j \in 1 .. i : s[j] = op})
  BY <1>1, FS_Subset
<1>3. {j \in 1 .. k : s[j] = op} \subseteq {j \in 1 .. i : s[j] = op}
  OBVIOUS
<1>4. QED
  BY <1>2, <1>3, FS_Subset DEF Occurrences

\* The n places of t stand in s behind place m.
Follows(t, n, s, m) == \A i \in 1 .. n : s[m + i] = t[i]

\* What is appended adds its own occurrences.
LEMMA OccurrencesAdd ==
  ASSUME NEW s, NEW t, NEW op, NEW m \in Nat, NEW n \in Nat, Follows(t, n, s, m),
         NEW k \in 0 .. n
  PROVE  Occurrences(s, op, m + k) = Occurrences(s, op, m) + Occurrences(t, op, k)
<1> DEFINE S == {i \in 0 .. n : Occurrences(s, op, m + i) =
                                  Occurrences(s, op, m) + Occurrences(t, op, i)}
<1>1. 0 \in S
  <2>1. Occurrences(s, op, m) \in Nat /\ Occurrences(t, op, 0) = 0 /\ m + 0 = m
    BY OccurrencesCount
  <2>2. QED
    BY <2>1
<1>2. ASSUME NEW i \in 0 .. (n - 1), i \in S PROVE i + 1 \in S
  <2>1. i + 1 \in 1 .. n /\ m + (i + 1) = (m + i) + 1 /\ m + i \in Nat /\ i \in Nat
    OBVIOUS
  <2>2. s[(m + i) + 1] = t[i + 1]
    BY <2>1 DEF Follows
  <2>3. /\ Occurrences(s, op, m + i) \in Nat /\ Occurrences(s, op, m) \in Nat
        /\ Occurrences(t, op, i) \in Nat
        /\ Occurrences(s, op, (m + i) + 1) =
             Occurrences(s, op, m + i) + (IF s[(m + i) + 1] = op THEN 1 ELSE 0)
        /\ Occurrences(t, op, i + 1) =
             Occurrences(t, op, i) + (IF t[i + 1] = op THEN 1 ELSE 0)
    BY <2>1, OccurrencesCount
  <2>4. Occurrences(s, op, m + i) = Occurrences(s, op, m) + Occurrences(t, op, i)
    BY <1>2
  <2>5. Occurrences(s, op, m + (i + 1)) = Occurrences(s, op, m) + Occurrences(t, op, i + 1)
    BY <2>1, <2>2, <2>3, <2>4
  <2>6. QED
    BY <2>1, <2>5
<1> HIDE DEF S
<1>3. 0 .. n \subseteq S
  BY <1>1, <1>2, UpTo
<1>4. QED
  BY <1>3 DEF S

\* What determines a quotient.
LEMMA QuotientIs ==
  ASSUME NEW a \in Nat, NEW w \in Nat \ {0}, NEW q \in Nat, q * w <= a, a < q * w + w
  PROVE  a \div w = q
<1> DEFINE p == a \div w
<1>1. p \in Nat /\ w * p <= a /\ a < w * p + w
  BY Quotient
<1> HIDE DEF p
<1>2. w * p = p * w /\ p * w \in Nat /\ q * w \in Nat
  BY <1>1
<1>3. ASSUME p < q PROVE FALSE
  <2>1. p + 1 \in Nat /\ p + 1 <= q
    BY <1>1, <1>3
  <2>2. (p + 1) * w <= q * w /\ (p + 1) * w = p * w + w
    BY <1>1, <2>1, Product
  <2>3. QED
    BY <1>1, <1>2, <2>2
<1>4. ASSUME q < p PROVE FALSE
  <2>1. q + 1 \in Nat /\ q + 1 <= p
    BY <1>1, <1>4
  <2>2. (q + 1) * w <= p * w /\ (q + 1) * w = q * w + w
    BY <1>1, <2>1, Product
  <2>3. QED
    BY <1>1, <1>2, <2>2
<1>5. QED
  BY <1>1, <1>3, <1>4 DEF p

\* Nothing rounds up to nothing.
LEMMA ZeroRoundedUp ==
  ASSUME NEW w \in Nat \ {0}
  PROVE  (0 + w - 1) \div w = 0
<1>1. 0 + w - 1 \in Nat /\ 0 * w <= 0 + w - 1 /\ 0 + w - 1 < 0 * w + w
  OBVIOUS
<1>2. QED
  BY <1>1, QuotientIs

\* A number rounds up to one more exactly behind a multiple.
LEMMA RoundedUp ==
  ASSUME NEW k \in Nat, NEW w \in Nat \ {0}
  PROVE  /\ (k + w - 1) \div w \in Nat
         /\ ((k + 1) + w - 1) \div w = (k + w - 1) \div w + (IF k % w = 0 THEN 1 ELSE 0)
         /\ (0 + w - 1) \div w = 0
<1> DEFINE q == k \div w
           r == k % w
<1>1. q \in Nat /\ r \in Nat /\ r < w /\ k = q * w + r
  OBVIOUS
<1> HIDE DEF q, r
<1>2. q * w \in Nat /\ (q + 1) * w = q * w + w /\ q + 1 \in Nat
  BY <1>1, Product
<1>3. ((k + 1) + w - 1) \div w = q + 1
  <2>1. (k + 1) + w - 1 \in Nat /\ (k + 1) + w - 1 = k + w
    OBVIOUS
  <2>2. (q + 1) * w <= k + w /\ k + w < (q + 1) * w + w
    BY <1>1, <1>2
  <2>3. QED
    BY <1>2, <2>1, <2>2, QuotientIs
<1>4. k + w - 1 \in Nat
  OBVIOUS
<1>5. CASE r = 0
  <2>1. q * w <= k + w - 1 /\ k + w - 1 < q * w + w
    BY <1>1, <1>2, <1>5
  <2>2. (k + w - 1) \div w = q
    BY <1>1, <1>4, <2>1, QuotientIs
  <2>3. QED
    BY <1>1, <1>3, <1>5, <2>2, ZeroRoundedUp DEF r
<1>6. CASE r # 0
  <2>1. (q + 1) * w <= k + w - 1 /\ k + w - 1 < (q + 1) * w + w
    BY <1>1, <1>2, <1>6
  <2>2. (k + w - 1) \div w = q + 1
    BY <1>2, <1>4, <2>1, QuotientIs
  <2>3. QED
    BY <1>1, <1>3, <1>6, <2>2, ZeroRoundedUp DEF r
<1>7. QED
  BY <1>5, <1>6

-----------------------------------------------------------------------------
(* A cycle, update by update.                                                *)

\* What a learner trains: the members of this set are closed under every kind of update.
Operations == Optimizers \cup {"target"}

Trained ==
  [ weights : Seq(Operations \X Int),
    moments : [Optimizers -> Nat],
    passes : Nat,
    epoch : [Optimizers -> Nat],
    lr : [Optimizers -> Int] ]

LEMMA SameTrained ==
  ASSUME NEW t \in Trained, NEW u \in Trained, t.weights = u.weights, t.moments = u.moments,
         t.passes = u.passes, t.epoch = u.epoch, t.lr = u.lr
  PROVE  t = u
<1>1. /\ t = [ weights |-> t.weights, moments |-> t.moments, passes |-> t.passes,
               epoch |-> t.epoch, lr |-> t.lr ]
      /\ u = [ weights |-> u.weights, moments |-> u.moments, passes |-> u.passes,
               epoch |-> u.epoch, lr |-> u.lr ]
  BY DEF Trained
<1>2. QED
  BY <1>1

\* Every kind of update leads from such a learner to one.
LEMMA SteppedType ==
  ASSUME NEW t \in Trained, NEW op \in Optimizers, NEW rate \in Int
  PROVE  Stepped(t, op, rate) \in Trained
<1> DEFINE w == IF rate = Zero THEN t.weights ELSE Append(t.weights, <<op, rate>>)
           m == [t.moments EXCEPT ![op] = @ + 1]
           p == IF op = "critic" /\ algo = "flash" THEN t.passes + 1 ELSE t.passes
<1>1. w \in Seq(Operations \X Int)
  <2>1. t.weights \in Seq(Operations \X Int) /\ <<op, rate>> \in Operations \X Int
    BY DEF Trained, Operations
  <2>2. QED
    BY <2>1
<1>2. m \in [Optimizers -> Nat] /\ p \in Nat
  BY DEF Trained
<1>3. Stepped(t, op, rate) = [t EXCEPT !.weights = w, !.moments = m, !.passes = p]
  BY DEF Stepped, Trained
<1> HIDE DEF w, m, p
<1>4. QED
  BY <1>1, <1>2, <1>3 DEF Trained

LEMMA SoftUpdatedType ==
  ASSUME NEW t \in Trained
  PROVE  SoftUpdated(t) \in Trained
<1>1. <<"target", 0>> \in Operations \X Int
  BY DEF Operations
<1>2. Append(t.weights, <<"target", 0>>) \in Seq(Operations \X Int)
  BY <1>1 DEF Trained
<1>3. QED
  BY <1>2 DEF SoftUpdated, Trained

LEMMA SchedulingType ==
  ASSUME NEW t \in Trained, NEW op \in Optimizers
  PROVE  Scheduling(t, op) \in Trained
<1> DEFINE e == [t.epoch EXCEPT ![op] = @ + 1]
           r == [t.lr EXCEPT ![op] = Scheduled(t.epoch[op] + 1)]
<1>1. t.epoch[op] + 1 \in Nat /\ Scheduled(t.epoch[op] + 1) \in Int
  BY DEF Scheduled, Trained
<1>2. e \in [Optimizers -> Nat] /\ r \in [Optimizers -> Int]
  BY <1>1 DEF Trained
<1>3. Scheduling(t, op) = IF algo = "flash" THEN [t EXCEPT !.epoch = e, !.lr = r] ELSE t
  BY DEF Scheduling, Trained
<1> HIDE DEF e, r
<1>4. QED
  BY <1>2, <1>3 DEF Trained

LEMMA EagerUpdateType ==
  ASSUME NEW t \in Trained, NEW op \in Operations
  PROVE  EagerUpdate(t, op) \in Trained
<1>1. CASE op = "target"
  BY <1>1, SoftUpdatedType DEF EagerUpdate
<1>2. CASE op # "target"
  <2>1. op \in Optimizers /\ t.lr[op] \in Int
    BY <1>2 DEF Operations, Trained
  <2>2. Stepped(t, op, t.lr[op]) \in Trained
    BY <2>1, SteppedType
  <2>3. QED
    BY <1>2, <2>1, <2>2, SchedulingType DEF EagerUpdate
<1>3. QED
  BY <1>1, <1>2

LEMMA DryUpdateType ==
  ASSUME NEW t \in Trained, NEW op \in Operations
  PROVE  DryUpdate(t, op) \in Trained
<1>1. Zero \in Int
  BY DEF Zero
<1>2. op # "target" => op \in Optimizers
  BY DEF Operations
<1>3. QED
  BY <1>1, <1>2, SteppedType, SoftUpdatedType DEF DryUpdate

\* EagerCycle goes over the cycle update by update.
LEMMA EagerCycleUnrolled ==
  ASSUME NEW t \in Trained, Cycle \in Seq(Operations)
  PROVE  \E h : /\ h[0] = t
                /\ \A k \in 1 .. Len(Cycle) : h[k] = EagerUpdate(h[k - 1], Cycle[k])
                /\ EagerCycle(t) = h[Len(Cycle)]
<1> DEFINE N == Len(Cycle)
           Table(g) == [s \in SUBSET (1 .. N) |->
                          IF s = {} THEN t ELSE EagerUpdate(g[s \ {Max(s)}], Cycle[Max(s)])]
           iter == CHOOSE g : g = Table(g)
           step == [p \in Trained \X (1 .. N) |-> EagerUpdate(p[1], Cycle[p[2]])]
<1>1. N \in Nat /\ DOMAIN Cycle = 1 .. N /\ \A i \in 1 .. N : Cycle[i] \in Operations
  OBVIOUS
<1>2. EagerCycle(t) = iter[1 .. N]
  BY <1>1 DEF EagerCycle, FoldLeft, MapThenFoldSet
<1>3. step \in [Trained \X (1 .. N) -> Trained]
  BY <1>1, EagerUpdateType
<1> HIDE DEF N, step
<1>4. PICK g : FoldTable(g, Trained, t, N, step)
  BY <1>1, <1>3, FoldTableExists
<1>5. g = Table(g)
  <2>1. ASSUME NEW s \in SUBSET (1 .. N), s # {}
        PROVE  Max(s) \in 1 .. N /\ g[s \ {Max(s)}] \in Trained
    BY <1>1, <1>4, <2>1, MaxInside DEF FoldTable
  <2>2. ASSUME NEW s \in SUBSET (1 .. N)
        PROVE  g[s] = IF s = {} THEN t ELSE EagerUpdate(g[s \ {Max(s)}], Cycle[Max(s)])
    BY <1>4, <2>1 DEF step, FoldTable
  <2>3. QED
    BY <2>2, <1>4 DEF FoldTable
<1>6. iter = Table(iter)
  <2> HIDE DEF Table
  <2>1. QED
    BY <1>5
<1> HIDE DEF iter
<1> DEFINE h == [k \in 0 .. N |-> iter[1 .. k]]
<1>7. h[0] = t
  <2>1. 1 .. 0 = {} /\ {} \in SUBSET (1 .. N)
    OBVIOUS
  <2>2. iter[{}] = t
    BY <1>6, <2>1
  <2>3. QED
    BY <1>1, <2>1, <2>2
<1>8. ASSUME NEW k \in 1 .. N
      PROVE  h[k] = EagerUpdate(h[k - 1], Cycle[k])
  <2>1. /\ 1 .. k \in SUBSET (1 .. N) /\ 1 .. k # {} /\ Max(1 .. k) = k
        /\ (1 .. k) \ {k} = 1 .. (k - 1)
    BY <1>1, InitialPlaces
  <2>2. iter[1 .. k] = EagerUpdate(iter[(1 .. k) \ {Max(1 .. k)}], Cycle[Max(1 .. k)])
    BY <1>6, <2>1
  <2>3. k \in 0 .. N /\ k - 1 \in 0 .. N
    BY <1>1
  <2>4. QED
    BY <2>1, <2>2, <2>3
<1>9. EagerCycle(t) = h[N]
  BY <1>1, <1>2
<1> HIDE DEF h
<1>10. QED
  BY <1>7, <1>8, <1>9 DEF N

\* So does the dry run.
LEMMA DryCycleUnrolled ==
  ASSUME NEW t \in Trained, Cycle \in Seq(Operations)
  PROVE  \E h : /\ h[0] = t
                /\ \A k \in 1 .. Len(Cycle) : h[k] = DryUpdate(h[k - 1], Cycle[k])
                /\ FoldLeft(DryUpdate, t, Cycle) = h[Len(Cycle)]
<1> DEFINE N == Len(Cycle)
           Table(g) == [s \in SUBSET (1 .. N) |->
                          IF s = {} THEN t ELSE DryUpdate(g[s \ {Max(s)}], Cycle[Max(s)])]
           iter == CHOOSE g : g = Table(g)
           step == [p \in Trained \X (1 .. N) |-> DryUpdate(p[1], Cycle[p[2]])]
<1>1. N \in Nat /\ DOMAIN Cycle = 1 .. N /\ \A i \in 1 .. N : Cycle[i] \in Operations
  OBVIOUS
<1>2. FoldLeft(DryUpdate, t, Cycle) = iter[1 .. N]
  BY <1>1 DEF FoldLeft, MapThenFoldSet
<1>3. step \in [Trained \X (1 .. N) -> Trained]
  BY <1>1, DryUpdateType
<1> HIDE DEF N, step
<1>4. PICK g : FoldTable(g, Trained, t, N, step)
  BY <1>1, <1>3, FoldTableExists
<1>5. g = Table(g)
  <2>1. ASSUME NEW s \in SUBSET (1 .. N), s # {}
        PROVE  Max(s) \in 1 .. N /\ g[s \ {Max(s)}] \in Trained
    BY <1>1, <1>4, <2>1, MaxInside DEF FoldTable
  <2>2. ASSUME NEW s \in SUBSET (1 .. N)
        PROVE  g[s] = IF s = {} THEN t ELSE DryUpdate(g[s \ {Max(s)}], Cycle[Max(s)])
    BY <1>4, <2>1 DEF step, FoldTable
  <2>3. QED
    BY <2>2, <1>4 DEF FoldTable
<1>6. iter = Table(iter)
  <2> HIDE DEF Table
  <2>1. QED
    BY <1>5
<1> HIDE DEF iter
<1> DEFINE h == [k \in 0 .. N |-> iter[1 .. k]]
<1>7. h[0] = t
  <2>1. 1 .. 0 = {} /\ {} \in SUBSET (1 .. N)
    OBVIOUS
  <2>2. iter[{}] = t
    BY <1>6, <2>1
  <2>3. QED
    BY <1>1, <2>1, <2>2
<1>8. ASSUME NEW k \in 1 .. N
      PROVE  h[k] = DryUpdate(h[k - 1], Cycle[k])
  <2>1. /\ 1 .. k \in SUBSET (1 .. N) /\ 1 .. k # {} /\ Max(1 .. k) = k
        /\ (1 .. k) \ {k} = 1 .. (k - 1)
    BY <1>1, InitialPlaces
  <2>2. iter[1 .. k] = DryUpdate(iter[(1 .. k) \ {Max(1 .. k)}], Cycle[Max(1 .. k)])
    BY <1>6, <2>1
  <2>3. k \in 0 .. N /\ k - 1 \in 0 .. N
    BY <1>1
  <2>4. QED
    BY <2>1, <2>2, <2>3
<1>9. FoldLeft(DryUpdate, t, Cycle) = h[N]
  BY <1>1, <1>2
<1> HIDE DEF h
<1>10. QED
  BY <1>7, <1>8, <1>9 DEF N

\* A launch goes over the nodes of its graph.
LaunchUpdate(g, rates, t, i) ==
  IF g.nodes[i] = "target" THEN SoftUpdated(t) ELSE Stepped(t, g.nodes[i], NodeRate(g, rates, i))

LEMMA LaunchedUnrolled ==
  ASSUME NEW t \in Trained, NEW g, NEW rates, g.nodes \in Seq(Operations),
         \A i \in 1 .. Len(g.nodes) : g.nodes[i] # "target" => NodeRate(g, rates, i) \in Int
  PROVE  \E h : /\ h[0] = t
                /\ \A k \in 1 .. Len(g.nodes) : h[k] = LaunchUpdate(g, rates, h[k - 1], k)
                /\ Launched(g, rates, t) = h[Len(g.nodes)]
<1> DEFINE N == Len(g.nodes)
           places == [i \in 1 .. N |-> i]
           Table(f) == [s \in SUBSET (1 .. N) |->
                          IF s = {} THEN t
                                    ELSE LaunchUpdate(g, rates, f[s \ {Max(s)}], places[Max(s)])]
           iter == CHOOSE f : f = Table(f)
           step == [p \in Trained \X (1 .. N) |-> LaunchUpdate(g, rates, p[1], places[p[2]])]
<1>1. N \in Nat /\ DOMAIN places = 1 .. N /\ \A i \in 1 .. N : g.nodes[i] \in Operations
  OBVIOUS
<1>2. Launched(g, rates, t) = iter[1 .. N]
  BY <1>1 DEF Launched, FoldLeft, MapThenFoldSet, LaunchUpdate
<1>3. step \in [Trained \X (1 .. N) -> Trained]
  <2>1. ASSUME NEW u \in Trained, NEW i \in 1 .. N PROVE LaunchUpdate(g, rates, u, i) \in Trained
    <3>1. g.nodes[i] # "target" => g.nodes[i] \in Optimizers /\ NodeRate(g, rates, i) \in Int
      BY <1>1 DEF Operations
    <3>2. QED
      BY <3>1, SteppedType, SoftUpdatedType DEF LaunchUpdate
  <2>2. QED
    BY <2>1
<1> HIDE DEF N, step
<1>4. PICK f : FoldTable(f, Trained, t, N, step)
  BY <1>1, <1>3, FoldTableExists
<1>5. f = Table(f)
  <2>1. ASSUME NEW s \in SUBSET (1 .. N), s # {}
        PROVE  Max(s) \in 1 .. N /\ f[s \ {Max(s)}] \in Trained
    BY <1>1, <1>4, <2>1, MaxInside DEF FoldTable
  <2>2. ASSUME NEW s \in SUBSET (1 .. N)
        PROVE  f[s] = IF s = {} THEN t
                                ELSE LaunchUpdate(g, rates, f[s \ {Max(s)}], places[Max(s)])
    BY <1>4, <2>1 DEF step, FoldTable
  <2>3. QED
    BY <2>2, <1>4 DEF FoldTable
<1>6. iter = Table(iter)
  <2> HIDE DEF Table
  <2>1. QED
    BY <1>5
<1> HIDE DEF iter
<1> DEFINE h == [k \in 0 .. N |-> iter[1 .. k]]
<1>7. h[0] = t
  <2>1. 1 .. 0 = {} /\ {} \in SUBSET (1 .. N)
    OBVIOUS
  <2>2. iter[{}] = t
    BY <1>6, <2>1
  <2>3. QED
    BY <1>1, <2>1, <2>2
<1>8. ASSUME NEW k \in 1 .. N
      PROVE  h[k] = LaunchUpdate(g, rates, h[k - 1], k)
  <2>1. /\ 1 .. k \in SUBSET (1 .. N) /\ 1 .. k # {} /\ Max(1 .. k) = k
        /\ (1 .. k) \ {k} = 1 .. (k - 1)
    BY <1>1, InitialPlaces
  <2>2. iter[1 .. k] = LaunchUpdate(g, rates, iter[(1 .. k) \ {Max(1 .. k)}], places[Max(1 .. k)])
    BY <1>6, <2>1
  <2>3. k \in 0 .. N /\ k - 1 \in 0 .. N /\ places[k] = k
    BY <1>1
  <2>4. QED
    BY <2>1, <2>2, <2>3
<1>9. Launched(g, rates, t) = h[N]
  BY <1>1, <1>2
<1> HIDE DEF h
<1>10. QED
  BY <1>7, <1>8, <1>9 DEF N

-----------------------------------------------------------------------------
(* The counts of a cycle.                                                    *)

Count(s, op) == Occurrences(s, op, Len(s))

\* Counts of two sequences add up.
LEMMA CountConcat ==
  ASSUME NEW X, NEW s \in Seq(X), NEW t \in Seq(X), NEW op
  PROVE  /\ Count(s \o t, op) = Count(s, op) + Count(t, op)
         /\ Count(s, op) \in Nat /\ Count(t, op) \in Nat
<1> DEFINE u == s \o t
           m == Len(s)
           n == Len(t)
<1>1. /\ m \in Nat /\ n \in Nat /\ Len(u) = m + n
      /\ \A i \in 1 .. m : u[i] = s[i]
      /\ \A i \in 1 .. n : u[m + i] = t[i]
  OBVIOUS
<1> HIDE DEF u, m, n
<1>2. Occurrences(u, op, m + n) = Occurrences(u, op, m) + Occurrences(t, op, n)
  <2>1. n \in 0 .. n /\ Follows(t, n, u, m)
    BY <1>1 DEF Follows
  <2>2. QED
    BY <1>1, <2>1, OccurrencesAdd
<1>3. Occurrences(u, op, m) = Occurrences(s, op, m)
  BY <1>1, OccurrencesAgree
<1>4. QED
  BY <1>1, <1>2, <1>3, OccurrencesCount DEF Count, u, m, n

LEMMA CountOne ==
  ASSUME NEW a, NEW op
  PROVE  Count(<< a >>, op) = (IF a = op THEN 1 ELSE 0) /\ Count(<<>>, op) = 0
<1>1. Len(<< a >>) = 0 + 1 /\ << a >>[0 + 1] = a /\ Len(<<>>) = 0
  OBVIOUS
<1>2. /\ Occurrences(<< a >>, op, 0) = 0
      /\ Occurrences(<< a >>, op, 0 + 1) =
           Occurrences(<< a >>, op, 0) + (IF << a >>[0 + 1] = op THEN 1 ELSE 0)
  BY OccurrencesCount
<1>3. Occurrences(<<>>, op, 0) = 0
  BY OccurrencesCount
<1>4. QED
  BY <1>1, <1>2, <1>3 DEF Count

\* The blocks of an update have one or two operations.
LEMMA CountTwo ==
  ASSUME NEW a, NEW b, NEW op
  PROVE  Count(<< a, b >>, op) = (IF a = op THEN 1 ELSE 0) + (IF b = op THEN 1 ELSE 0)
<1>1. Len(<< a, b >>) = 1 + 1 /\ << a, b >>[0 + 1] = a /\ << a, b >>[1 + 1] = b
  OBVIOUS
<1>2. /\ Occurrences(<< a, b >>, op, 0) = 0
      /\ Occurrences(<< a, b >>, op, 0 + 1) =
           Occurrences(<< a, b >>, op, 0) + (IF << a, b >>[0 + 1] = op THEN 1 ELSE 0)
      /\ Occurrences(<< a, b >>, op, 1 + 1) =
           Occurrences(<< a, b >>, op, 1) + (IF << a, b >>[1 + 1] = op THEN 1 ELSE 0)
  BY OccurrencesCount
<1>3. QED
  BY <1>1, <1>2 DEF Count

LEMMA ShortSequences ==
  ASSUME NEW X, NEW a \in X, NEW b \in X
  PROVE  << a >> \in Seq(X) /\ << a, b >> \in Seq(X) /\ <<>> \in Seq(X)
OBVIOUS

\* What update k contributes: a critic update, and an actor's in every PolicyFrequency-th.
LEMMA UpdateCounts ==
  ASSUME NEW i \in Nat
  PROVE  /\ Update(i) \in Seq(Operations)
         /\ Count(Update(i), "critic") = 1
         /\ algo = "flash" => \A o \in {"actor", "temperature"} :
              Count(Update(i), o) = IF i % PolicyFrequency = 0 THEN 1 ELSE 0
<1> DEFINE actor == Every(PolicyFrequency, i, UpdateActor)
           target == Every(TargetFrequency, i, SoftUpdateTarget)
           due == i % PolicyFrequency = 0
<1>1. /\ UpdateCritic \in Seq(Operations) /\ UpdateActor \in Seq(Operations)
      /\ SoftUpdateTarget \in Seq(Operations) /\ <<>> \in Seq(Operations)
  <2>1. \A o \in {"critic", "actor", "temperature", "target"} : o \in Operations
    BY DEF Operations, Optimizers
  <2>2. QED
    BY <2>1, ShortSequences DEF UpdateCritic, UpdateActor, SoftUpdateTarget
<1>2. actor \in Seq(Operations) /\ target \in Seq(Operations)
  BY <1>1 DEF Every
<1>3. /\ Count(UpdateCritic, "critic") = 1
      /\ algo = "flash" => Count(UpdateCritic, "actor") = 0 /\ Count(UpdateCritic, "temperature") = 0
  <2>1. CASE algo = "sac"
    BY <2>1, CountTwo DEF UpdateCritic
  <2>2. CASE algo # "sac"
    BY <2>2, CountOne DEF UpdateCritic
  <2>3. QED
    BY <2>1, <2>2
<1>4. /\ Count(actor, "critic") = 0
      /\ algo = "flash" => \A o \in {"actor", "temperature"} :
           Count(actor, o) = IF due THEN 1 ELSE 0
  <2>1. /\ Count(UpdateActor, "critic") = 0
        /\ algo = "flash" => \A o \in {"actor", "temperature"} : Count(UpdateActor, o) = 1
    <3>1. CASE algo = "sac"
      BY <3>1, CountOne DEF UpdateActor
    <3>2. CASE algo # "sac"
      BY <3>2, CountTwo DEF UpdateActor
    <3>3. QED
      BY <3>1, <3>2
  <2>2. \A o : Count(<<>>, o) = 0
    BY CountOne
  <2>3. QED
    BY <2>1, <2>2 DEF Every
<1>5. \A o \in Optimizers : Count(target, o) = 0
  BY CountOne DEF Every, SoftUpdateTarget, Optimizers
<1> HIDE DEF actor, target
<1> DEFINE both == IF PolicyBeforeCritic THEN actor \o UpdateCritic ELSE UpdateCritic \o actor
<1>6. /\ both \in Seq(Operations)
      /\ \A o : Count(both, o) = Count(actor, o) + Count(UpdateCritic, o)
  <2>1. /\ actor \o UpdateCritic \in Seq(Operations) /\ UpdateCritic \o actor \in Seq(Operations)
    BY <1>1, <1>2
  <2>2. \A o : /\ Count(actor \o UpdateCritic, o) = Count(actor, o) + Count(UpdateCritic, o)
               /\ Count(UpdateCritic \o actor, o) = Count(UpdateCritic, o) + Count(actor, o)
               /\ Count(actor, o) \in Nat /\ Count(UpdateCritic, o) \in Nat
    BY <1>1, <1>2, CountConcat
  <2>3. QED
    BY <2>1, <2>2
<1>7. Update(i) = both \o target
  BY DEF Update, both, actor, target
<1> HIDE DEF both
<1>8. /\ both \o target \in Seq(Operations)
      /\ \A o : Count(both \o target, o) = Count(both, o) + Count(target, o)
  BY <1>2, <1>6, CountConcat
<1> HIDE DEF due
<1>9. /\ Count(Update(i), "critic") = 1
      /\ algo = "flash" => \A o \in {"actor", "temperature"} :
           Count(Update(i), o) = IF due THEN 1 ELSE 0
  <2>1. {"critic", "actor", "temperature"} = Optimizers
    BY DEF Optimizers
  <2>2. \A o \in Optimizers : Count(Update(i), o) = Count(actor, o) + Count(UpdateCritic, o) + 0
    BY <1>5, <1>6, <1>7, <1>8
  <2>3. QED
    BY <1>3, <1>4, <2>1, <2>2
<1>10. QED
  BY <1>7, <1>8, <1>9 DEF due

CycleUpTo(k) == FlattenSeq([i \in 1 .. k |-> Update(i - 1)])

\* A cycle with one update more is the shorter one and that update.
LEMMA CycleGrows ==
  ASSUME NEW k \in Nat
  PROVE  /\ CycleUpTo(0) = <<>>
         /\ CycleUpTo(k) \in Seq(Operations)
         /\ CycleUpTo(k + 1) = CycleUpTo(k) \o Update(k)
<1> DEFINE first == [i \in 1 .. k |-> Update(i - 1)]
           seqs == [i \in 1 .. (k + 1) |-> Update(i - 1)]
<1>1. seqs \in [1 .. (k + 1) -> Seq(Operations)]
  BY UpdateCounts
<1>2. first = [i \in 1 .. k |-> seqs[i]] /\ seqs[k + 1] = Update(k)
  <2>1. \A i \in 1 .. k : seqs[i] = Update(i - 1)
    OBVIOUS
  <2>2. k + 1 \in 1 .. (k + 1) /\ (k + 1) - 1 = k
    OBVIOUS
  <2>3. QED
    BY <2>1, <2>2
<1>3. FlattenSeq([i \in 1 .. 0 |-> Update(i - 1)]) = <<>>
  <2>1. [i \in 1 .. 0 |-> Update(i - 1)] = <<>>
    OBVIOUS
  <2>2. QED
    BY <2>1 DEF FlattenSeq
<1> HIDE DEF first, seqs
<1>4. FlattenSeq(first) \in Seq(Operations) /\ FlattenSeq(seqs) = FlattenSeq(first) \o seqs[k + 1]
  BY <1>1, <1>2, FlattenGrows
<1>5. QED
  BY <1>2, <1>3, <1>4 DEF CycleUpTo, first, seqs

\* A cycle has as many updates of each optimizer as its learner prepares rates for: a division
\* rounded up, against the places of the cycle (_prepare_update_cycle_lr_specs).
THEOREM CycleMatchesItsRates ==
  /\ Cycle \in Seq(Operations)
  /\ Count(Cycle, "critic") = UpdatesPerStep
  /\ algo = "flash" => \A o \in Optimizers : Count(Cycle, o) = LrSpecs(o)
<1> DEFINE rounded(k) == (k + PolicyFrequency - 1) \div PolicyFrequency
           S == {k \in Nat : /\ Count(CycleUpTo(k), "critic") = k
                             /\ algo = "flash" => \A o \in {"actor", "temperature"} :
                                  Count(CycleUpTo(k), o) = rounded(k)}
<1>a. PolicyFrequency \in Nat \ {0} /\ UpdatesPerStep \in Nat
  BY CycleAssumption DEF CycleAssumption
<1>1. 0 \in S
  <2>1. rounded(0) = 0
    BY <1>a, RoundedUp
  <2>2. \A o : Count(CycleUpTo(0), o) = 0
    BY CountOne, CycleGrows
  <2> HIDE DEF rounded
  <2>3. QED
    BY <2>1, <2>2
<1>2. ASSUME NEW k \in Nat, k \in S PROVE k + 1 \in S
  <2>1. /\ CycleUpTo(k) \in Seq(Operations) /\ Update(k) \in Seq(Operations)
        /\ CycleUpTo(k + 1) = CycleUpTo(k) \o Update(k)
    BY CycleGrows, UpdateCounts
  <2>2. \A o : Count(CycleUpTo(k + 1), o) = Count(CycleUpTo(k), o) + Count(Update(k), o)
    <3>1. \A o : Count(CycleUpTo(k) \o Update(k), o) =
                    Count(CycleUpTo(k), o) + Count(Update(k), o)
      BY <2>1, CountConcat
    <3>2. QED
      BY <2>1, <3>1
  <2>3. rounded(k + 1) = rounded(k) + (IF k % PolicyFrequency = 0 THEN 1 ELSE 0)
    BY <1>a, RoundedUp
  <2> HIDE DEF rounded
  <2>4. /\ Count(Update(k), "critic") = 1
        /\ algo = "flash" => \A o \in {"actor", "temperature"} :
             Count(Update(k), o) = IF k % PolicyFrequency = 0 THEN 1 ELSE 0
    BY UpdateCounts
  <2>5. k + 1 \in Nat /\ Count(CycleUpTo(k + 1), "critic") = k + 1
    BY <1>2, <2>2, <2>4
  <2>6. ASSUME algo = "flash", NEW o \in {"actor", "temperature"}
        PROVE  Count(CycleUpTo(k + 1), o) = rounded(k + 1)
    BY <1>2, <2>2, <2>3, <2>4, <2>6
  <2>7. QED
    BY <2>5, <2>6
<1> HIDE DEF S
<1>3. UpdatesPerStep \in S
  BY <1>1, <1>2, <1>a, SetInduction
<1>4. Cycle = CycleUpTo(UpdatesPerStep)
  BY DEF Cycle, CycleUpTo
<1>5. QED
  BY <1>3, <1>4, <1>a, CycleGrows DEF S, LrSpecs, Optimizers

-----------------------------------------------------------------------------
(* The learner after the first updates of a sequence.                        *)

\* The learner after the first m updates of the sequence all, each at the rate that its number
\* among the updates of its optimizer has in the schedule.
RateOf(all, i) ==
  IF all[i] = "target" THEN 0 ELSE Scheduled(Occurrences(all, all[i], i) - 1)

Flash(x) == IF algo = "flash" THEN x ELSE 0

After(all, m) ==
  [ weights |-> [i \in 1 .. m |-> << all[i], RateOf(all, i) >>],
    moments |-> [o \in Optimizers |-> Occurrences(all, o, m)],
    passes |-> Flash(Occurrences(all, "critic", m)),
    epoch |-> [o \in Optimizers |-> Flash(Occurrences(all, o, m))],
    lr |-> [o \in Optimizers |-> Scheduled(Flash(Occurrences(all, o, m)))] ]

\* A rate is a number, the schedule's or the constant one.
LEMMA RateIsNumber ==
  ASSUME NEW all, NEW i \in Nat \ {0}
  PROVE  RateOf(all, i) \in Nat /\ RateOf(all, i) # Zero
<1>1. /\ Occurrences(all, all[i], (i - 1) + 1) =
           Occurrences(all, all[i], i - 1) + (IF all[(i - 1) + 1] = all[i] THEN 1 ELSE 0)
      /\ Occurrences(all, all[i], i - 1) \in Nat /\ (i - 1) + 1 = i
  BY OccurrencesCount
<1>2. Occurrences(all, all[i], i) - 1 \in Nat
  BY <1>1
<1>3. QED
  BY <1>2 DEF RateOf, Scheduled, Zero

LEMMA AfterType ==
  ASSUME NEW all, NEW m \in Nat, \A i \in 1 .. m : all[i] \in Operations
  PROVE  After(all, m) \in Trained
<1>1. \A o : Occurrences(all, o, m) \in Nat
  BY OccurrencesCount
<1>2. \A o : Flash(Occurrences(all, o, m)) \in Nat /\ Scheduled(Flash(Occurrences(all, o, m))) \in Int
  BY <1>1 DEF Flash, Scheduled
<1>3. \A i \in 1 .. m : << all[i], RateOf(all, i) >> \in Operations \X Int
  BY RateIsNumber
<1>4. [i \in 1 .. m |-> << all[i], RateOf(all, i) >>] \in Seq(Operations \X Int)
  BY <1>3
<1>5. QED
  BY <1>1, <1>2, <1>4 DEF After, Trained

\* What an update outside the schedule moves: weights, moments and statistics.
SameMoved(t, u) == t.weights = u.weights /\ t.moments = u.moments /\ t.passes = u.passes

\* What one update more adds to the weights.
LEMMA WeightsGrow ==
  ASSUME NEW all, NEW m \in Nat, \A i \in 1 .. (m + 1) : all[i] \in Operations
  PROVE  Append(After(all, m).weights, << all[m + 1], RateOf(all, m + 1) >>)
           = After(all, m + 1).weights
<1> DEFINE w(n) == [i \in 1 .. n |-> << all[i], RateOf(all, i) >>]
           e == << all[m + 1], RateOf(all, m + 1) >>
<1>1. \A i \in 1 .. (m + 1) : << all[i], RateOf(all, i) >> \in Operations \X Int
  BY RateIsNumber
<1>2. w(m) \in Seq(Operations \X Int) /\ Len(w(m)) = m /\ w(m + 1) \in Seq(Operations \X Int)
      /\ Len(w(m + 1)) = m + 1
  BY <1>1
<1>3. e \in Operations \X Int
  <2>1. m + 1 \in 1 .. (m + 1)
    OBVIOUS
  <2>2. QED
    BY <1>1, <2>1
<1>4. /\ \A i \in 1 .. m : w(m)[i] = w(m + 1)[i]
      /\ w(m + 1)[m + 1] = e
  OBVIOUS
<1>5. After(all, m).weights = w(m) /\ After(all, m + 1).weights = w(m + 1)
  BY DEF After
<1> HIDE DEF w, e
<1>6. Append(w(m), e) = w(m + 1)
  <2>1. /\ Append(w(m), e) \in Seq(Operations \X Int) /\ Len(Append(w(m), e)) = m + 1
        /\ \A i \in 1 .. m : Append(w(m), e)[i] = w(m)[i]
        /\ Append(w(m), e)[m + 1] = e
    BY <1>2, <1>3, AppendProperties
  <2>2. \A i \in 1 .. (m + 1) : Append(w(m), e)[i] = w(m + 1)[i]
    BY <1>4, <2>1
  <2>3. QED
    BY <1>2, <2>1, <2>2, SeqEqual
<1>7. QED
  BY <1>5, <1>6 DEF e

\* An optimizer step with the rate of its number is one update of the reference.
LEMMA SteppedAfter ==
  ASSUME NEW all, NEW m \in Nat, \A i \in 1 .. (m + 1) : all[i] \in Operations,
         all[m + 1] # "target", NEW u \in Trained, SameMoved(u, After(all, m))
  PROVE  /\ SameMoved(Stepped(u, all[m + 1], RateOf(all, m + 1)), After(all, m + 1))
         /\ Stepped(u, all[m + 1], RateOf(all, m + 1)).epoch = u.epoch
         /\ Stepped(u, all[m + 1], RateOf(all, m + 1)).lr = u.lr
         /\ Stepped(u, all[m + 1], RateOf(all, m + 1)) \in Trained
<1> DEFINE op == all[m + 1]
           rate == RateOf(all, m + 1)
           v == Stepped(u, op, rate)
<1>1. op \in Optimizers /\ rate \in Int /\ rate # Zero
  <2>1. m + 1 \in 1 .. (m + 1) /\ m + 1 \in Nat \ {0}
    OBVIOUS
  <2>2. all[m + 1] \in Operations
    BY <2>1
  <2>3. QED
    BY <2>1, <2>2, RateIsNumber DEF Operations
<1>2. v \in Trained
  BY <1>1, SteppedType
<1>3. /\ v.weights = Append(u.weights, << op, rate >>)
      /\ v.moments = [u.moments EXCEPT ![op] = u.moments[op] + 1]
      /\ v.passes = IF op = "critic" /\ algo = "flash" THEN u.passes + 1 ELSE u.passes
      /\ v.epoch = u.epoch /\ v.lr = u.lr
  <2> HIDE DEF op, rate
  <2>1. QED
    BY <1>1, SMTT(30) DEF Stepped, Trained
<1>4. v.weights = After(all, m + 1).weights
  <2>1. u.weights = After(all, m).weights
    BY DEF SameMoved
  <2>2. Append(After(all, m).weights, << op, rate >>) = After(all, m + 1).weights
    BY WeightsGrow
  <2> HIDE DEF op, rate, v
  <2>3. QED
    BY <1>3, <2>1, <2>2
<1>5. \A o : /\ Occurrences(all, o, m + 1) = Occurrences(all, o, m) + (IF op = o THEN 1 ELSE 0)
             /\ Occurrences(all, o, m) \in Nat
  BY OccurrencesCount
<1>6. v.moments = After(all, m + 1).moments
  <2>1. u.moments = [o \in Optimizers |-> Occurrences(all, o, m)]
    BY DEF SameMoved, After
  <2>2. After(all, m + 1).moments = [o \in Optimizers |-> Occurrences(all, o, m + 1)]
    BY DEF After
  <2> HIDE DEF op, v
  <2>3. \A o \in Optimizers :
          [u.moments EXCEPT ![op] = u.moments[op] + 1][o] = Occurrences(all, o, m + 1)
    BY <1>1, <1>5, <2>1
  <2>4. QED
    BY <1>3, <2>1, <2>2, <2>3
<1>7. v.passes = After(all, m + 1).passes
  <2>1. u.passes = Flash(Occurrences(all, "critic", m))
    BY DEF SameMoved, After
  <2>2. After(all, m + 1).passes = Flash(Occurrences(all, "critic", m + 1))
    BY DEF After
  <2> HIDE DEF op, v
  <2>3. QED
    BY <1>3, <1>5, <2>1, <2>2 DEF Flash
<1> HIDE DEF op, rate, v
<1>8. QED
  BY <1>2, <1>3, <1>4, <1>6, <1>7 DEF SameMoved, op, rate, v

\* So is a target update, at any rate.
LEMMA SoftUpdatedAfter ==
  ASSUME NEW all, NEW m \in Nat, \A i \in 1 .. (m + 1) : all[i] \in Operations,
         all[m + 1] = "target", NEW u \in Trained, SameMoved(u, After(all, m))
  PROVE  /\ SameMoved(SoftUpdated(u), After(all, m + 1))
         /\ SoftUpdated(u).epoch = u.epoch
         /\ SoftUpdated(u).lr = u.lr
         /\ SoftUpdated(u) \in Trained
<1> DEFINE v == SoftUpdated(u)
<1>1. v \in Trained
  BY SoftUpdatedType
<1>2. /\ v.weights = Append(u.weights, << "target", 0 >>)
      /\ v.moments = u.moments /\ v.passes = u.passes /\ v.epoch = u.epoch /\ v.lr = u.lr
  BY SMTT(30) DEF SoftUpdated, Trained
<1>3. RateOf(all, m + 1) = 0
  BY DEF RateOf
<1>4. v.weights = After(all, m + 1).weights
  BY <1>2, <1>3, WeightsGrow DEF SameMoved
<1>5. \A o \in Optimizers : Occurrences(all, o, m + 1) = Occurrences(all, o, m)
  <2>1. \A o \in Optimizers : o # "target"
    BY DEF Optimizers
  <2>2. \A o : /\ Occurrences(all, o, m + 1) =
                    Occurrences(all, o, m) + (IF all[m + 1] = o THEN 1 ELSE 0)
               /\ Occurrences(all, o, m) \in Nat
    BY OccurrencesCount
  <2>3. QED
    BY <2>1, <2>2
<1>6. v.moments = After(all, m + 1).moments
  BY <1>2, <1>5 DEF SameMoved, After
<1>7. v.passes = After(all, m + 1).passes
  BY <1>2, <1>5 DEF SameMoved, After, Optimizers
<1>8. QED
  BY <1>1, <1>2, <1>4, <1>6, <1>7 DEF SameMoved

\* A scheduler step moves epoch and rate only.
LEMMA SchedulingMoves ==
  ASSUME NEW u \in Trained, NEW op \in Optimizers
  PROVE  /\ SameMoved(Scheduling(u, op), u)
         /\ algo # "flash" => Scheduling(u, op) = u
         /\ algo = "flash" =>
              /\ Scheduling(u, op).epoch =
                   [o \in Optimizers |-> IF o = op THEN u.epoch[o] + 1 ELSE u.epoch[o]]
              /\ Scheduling(u, op).lr =
                   [o \in Optimizers |-> IF o = op THEN Scheduled(u.epoch[op] + 1) ELSE u.lr[o]]
<1> DEFINE e == [u.epoch EXCEPT ![op] = @ + 1]
           r == [u.lr EXCEPT ![op] = Scheduled(u.epoch[op] + 1)]
<1>1. CASE algo # "flash"
  BY <1>1 DEF Scheduling, SameMoved
<1>2. CASE algo = "flash"
  <2>1. Scheduling(u, op) = [u EXCEPT !.epoch = e, !.lr = r]
    BY <1>2 DEF Scheduling, Trained
  <2>2. /\ e = [o \in Optimizers |-> IF o = op THEN u.epoch[o] + 1 ELSE u.epoch[o]]
        /\ r = [o \in Optimizers |-> IF o = op THEN Scheduled(u.epoch[op] + 1) ELSE u.lr[o]]
    BY DEF Trained
  <2> HIDE DEF e, r
  <2>3. /\ SameMoved(Scheduling(u, op), u)
        /\ Scheduling(u, op).epoch = e /\ Scheduling(u, op).lr = r
    BY <2>1 DEF Trained, SameMoved
  <2>4. QED
    BY <1>2, <2>2, <2>3
<1>3. QED
  BY <1>1, <1>2

\* One update by hand is one update of the reference.
LEMMA EagerAfter ==
  ASSUME NEW all, NEW m \in Nat, \A i \in 1 .. (m + 1) : all[i] \in Operations
  PROVE  EagerUpdate(After(all, m), all[m + 1]) = After(all, m + 1)
<1> DEFINE t == After(all, m)
           op == all[m + 1]
           w == After(all, m + 1)
<1>1. t \in Trained /\ w \in Trained /\ SameMoved(t, After(all, m))
  BY AfterType DEF SameMoved
<1>2. \A o : /\ Occurrences(all, o, m + 1) = Occurrences(all, o, m) + (IF op = o THEN 1 ELSE 0)
             /\ Occurrences(all, o, m) \in Nat
  BY OccurrencesCount
<1>3. /\ t.epoch = [o \in Optimizers |-> Flash(Occurrences(all, o, m))]
      /\ t.lr = [o \in Optimizers |-> Scheduled(Flash(Occurrences(all, o, m)))]
      /\ w.epoch = [o \in Optimizers |-> Flash(Occurrences(all, o, m + 1))]
      /\ w.lr = [o \in Optimizers |-> Scheduled(Flash(Occurrences(all, o, m + 1)))]
  BY DEF After
<1>4. CASE op = "target"
  <2>1. /\ SameMoved(SoftUpdated(t), w) /\ SoftUpdated(t).epoch = t.epoch
        /\ SoftUpdated(t).lr = t.lr /\ SoftUpdated(t) \in Trained
    <3> HIDE DEF t, w
    <3>1. QED
      BY <1>1, <1>4, SoftUpdatedAfter DEF op, w
  <2>2. \A o \in Optimizers : Occurrences(all, o, m + 1) = Occurrences(all, o, m)
    BY <1>2, <1>4 DEF Optimizers
  <2>3. t.epoch = w.epoch /\ t.lr = w.lr
    <3> HIDE DEF t, w
    <3>1. QED
      BY <1>3, <2>2
  <2>4. EagerUpdate(t, op) = SoftUpdated(t)
    BY <1>4 DEF EagerUpdate
  <2> HIDE DEF t, w, op
  <2>5. SoftUpdated(t) = w
    BY <1>1, <2>1, <2>3, SameTrained DEF SameMoved
  <2>6. QED
    BY <2>4, <2>5 DEF t, w, op
<1>5. CASE op # "target"
  <2> DEFINE u == Stepped(t, op, RateOf(all, m + 1))
  <2>1. op \in Optimizers
    <3>1. m + 1 \in 1 .. (m + 1)
      OBVIOUS
    <3>2. QED
      BY <1>5, <3>1 DEF Operations
  <2>2. t.lr[op] = RateOf(all, m + 1)
    <3> HIDE DEF t, w
    <3>1. t.lr[op] = Scheduled(Flash(Occurrences(all, op, m)))
      BY <1>3, <2>1
    <3>2. RateOf(all, m + 1) = Scheduled(Occurrences(all, op, m + 1) - 1)
      BY <1>5 DEF RateOf
    <3>3. Occurrences(all, op, m + 1) - 1 = Occurrences(all, op, m)
      BY <1>2
    <3>4. QED
      BY <3>1, <3>2, <3>3 DEF Scheduled, Flash
  <2>3. SameMoved(u, w) /\ u.epoch = t.epoch /\ u.lr = t.lr /\ u \in Trained
    <3> HIDE DEF t
    <3>1. QED
      BY <1>1, <1>5, SteppedAfter
  <2> HIDE DEF u
  <2>4. Scheduling(u, op) = w
    <3> HIDE DEF t, w, op
    <3> DEFINE v == Scheduling(u, op)
    <3>1. v \in Trained
      BY <2>1, <2>3, SchedulingType
    <3>2. /\ SameMoved(v, u)
          /\ algo # "flash" => v.epoch = u.epoch /\ v.lr = u.lr
          /\ algo = "flash" =>
               /\ v.epoch = [o \in Optimizers |-> IF o = op THEN u.epoch[o] + 1 ELSE u.epoch[o]]
               /\ v.lr = [o \in Optimizers |-> IF o = op THEN Scheduled(u.epoch[op] + 1)
                                                         ELSE u.lr[o]]
      BY <2>1, <2>3, SchedulingMoves
    <3> HIDE DEF v
    <3>3. v.epoch = w.epoch
      <4>1. CASE algo = "flash"
        BY <4>1, <1>2, <1>3, <2>1, <2>3, <3>2 DEF Flash
      <4>2. CASE algo # "flash"
        BY <4>2, <1>2, <1>3, <2>1, <2>3, <3>2 DEF Flash
      <4>3. QED
        BY <4>1, <4>2
    <3>4. v.lr = w.lr
      <4>1. CASE algo = "flash"
        BY <4>1, <1>2, <1>3, <2>1, <2>3, <3>2 DEF Flash, Scheduled
      <4>2. CASE algo # "flash"
        BY <4>2, <1>2, <1>3, <2>1, <2>3, <3>2 DEF Flash, Scheduled
      <4>3. QED
        BY <4>1, <4>2
    <3>5. QED
      BY <1>1, <2>3, <3>1, <3>2, <3>3, <3>4, SameTrained DEF SameMoved, v
  <2>5. EagerUpdate(t, op) = Scheduling(u, op)
    BY <1>5, <2>2 DEF EagerUpdate, u
  <2>6. QED
    BY <2>4, <2>5
<1>6. QED
  BY <1>4, <1>5

\* A cycle leads from learner to learner.
LEMMA EagerCycleType ==
  ASSUME NEW t \in Trained, Cycle \in Seq(Operations)
  PROVE  EagerCycle(t) \in Trained
<1> DEFINE N == Len(Cycle)
<1>1. PICK h : /\ h[0] = t
               /\ \A k \in 1 .. N : h[k] = EagerUpdate(h[k - 1], Cycle[k])
               /\ EagerCycle(t) = h[N]
  BY EagerCycleUnrolled
<1>2. N \in Nat /\ \A i \in 1 .. N : Cycle[i] \in Operations
  OBVIOUS
<1> HIDE DEF N
<1> DEFINE S == {k \in 0 .. N : h[k] \in Trained}
<1>3. 0 \in S
  BY <1>1, <1>2
<1>4. ASSUME NEW k \in 0 .. (N - 1), k \in S PROVE k + 1 \in S
  <2>1. k + 1 \in 1 .. N /\ (k + 1) - 1 = k /\ k + 1 \in 0 .. N
    BY <1>2
  <2>2. h[k + 1] = EagerUpdate(h[k], Cycle[k + 1])
    BY <1>1, <2>1
  <2>3. QED
    BY <1>2, <1>4, <2>1, <2>2, EagerUpdateType
<1> HIDE DEF S
<1>5. N \in S
  BY <1>2, <1>3, <1>4, UpTo
<1>6. QED
  BY <1>1, <1>5 DEF S

LEMMA DryCycleType ==
  ASSUME NEW t \in Trained, Cycle \in Seq(Operations)
  PROVE  DryCycle(t) \in Trained
<1> DEFINE N == Len(Cycle)
<1>1. PICK h : /\ h[0] = t
               /\ \A k \in 1 .. N : h[k] = DryUpdate(h[k - 1], Cycle[k])
               /\ FoldLeft(DryUpdate, t, Cycle) = h[N]
  BY DryCycleUnrolled
<1>2. N \in Nat /\ \A i \in 1 .. N : Cycle[i] \in Operations
  OBVIOUS
<1> HIDE DEF N
<1> DEFINE S == {k \in 0 .. N : h[k] \in Trained}
<1>3. 0 \in S
  BY <1>1, <1>2
<1>4. ASSUME NEW k \in 0 .. (N - 1), k \in S PROVE k + 1 \in S
  <2>1. k + 1 \in 1 .. N /\ (k + 1) - 1 = k /\ k + 1 \in 0 .. N
    BY <1>2
  <2>2. h[k + 1] = DryUpdate(h[k], Cycle[k + 1])
    BY <1>1, <2>1
  <2>3. QED
    BY <1>2, <1>4, <2>1, <2>2, DryUpdateType
<1> HIDE DEF S
<1>5. N \in S
  BY <1>2, <1>3, <1>4, UpTo
<1>6. h[N] \in Trained
  BY <1>5 DEF S
<1>7. \A u \in Trained : [u EXCEPT !.lr = [o \in Optimizers |-> Zero]] \in Trained
  <2>1. [o \in Optimizers |-> Zero] \in [Optimizers -> Int]
    BY DEF Zero
  <2>2. QED
    BY <2>1 DEF Trained
<1>8. QED
  BY <1>1, <1>6, <1>7 DEF DryCycle

\* Whatever ran in between, what it changed is put back.
LEMMA EverythingRestored ==
  ASSUME NEW dirty \in Trained, NEW t \in Trained
  PROVE  Restored(dirty, t) = t
<1>1. Restored(dirty, t) \in Trained
  BY DEF Restored, Trained
<1>2. /\ Restored(dirty, t).lr = t.lr /\ Restored(dirty, t).weights = t.weights
      /\ Restored(dirty, t).moments = t.moments /\ Restored(dirty, t).epoch = t.epoch
      /\ Restored(dirty, t).passes = t.passes
  BY DEF Restored, Trained
<1>3. QED
  BY <1>1, <1>2, SameTrained

\* A cycle made update by update carries the reference on by one cycle.
LEMMA EagerCycleAfter ==
  ASSUME Cycle \in Seq(Operations), NEW all, NEW m \in Nat,
         \A i \in 1 .. (m + Len(Cycle)) : all[i] \in Operations,
         Follows(Cycle, Len(Cycle), all, m)
  PROVE  EagerCycle(After(all, m)) = After(all, m + Len(Cycle))
<1> DEFINE N == Len(Cycle)
           t == After(all, m)
<1>1. N \in Nat
  OBVIOUS
<1>2. t \in Trained
  BY <1>1, AfterType
<1>3. PICK h : /\ h[0] = t
               /\ \A k \in 1 .. N : h[k] = EagerUpdate(h[k - 1], Cycle[k])
               /\ EagerCycle(t) = h[N]
  BY <1>2, EagerCycleUnrolled
<1>4. /\ \A i \in 1 .. (m + N) : all[i] \in Operations
      /\ \A i \in 1 .. N : all[m + i] = Cycle[i]
  BY DEF Follows
<1> HIDE DEF N, t
<1> DEFINE S == {k \in 0 .. N : h[k] = After(all, m + k)}
<1>5. 0 \in S
  BY <1>1, <1>3 DEF t
<1>6. ASSUME NEW k \in 0 .. (N - 1), k \in S PROVE k + 1 \in S
  <2>1. /\ k + 1 \in 1 .. N /\ (k + 1) - 1 = k /\ k + 1 \in 0 .. N
        /\ m + k \in Nat /\ m + (k + 1) = (m + k) + 1
    BY <1>1
  <2>2. h[k + 1] = EagerUpdate(h[k], Cycle[k + 1])
    BY <1>3, <2>1
  <2>3. Cycle[k + 1] = all[(m + k) + 1]
    BY <1>4, <2>1
  <2>4. \A i \in 1 .. ((m + k) + 1) : all[i] \in Operations
    BY <1>1, <1>4, <2>1
  <2>5. EagerUpdate(After(all, m + k), all[(m + k) + 1]) = After(all, (m + k) + 1)
    BY <2>1, <2>4, EagerAfter
  <2>6. h[k] = After(all, m + k)
    BY <1>6
  <2>7. QED
    BY <2>1, <2>2, <2>3, <2>5, <2>6
<1> HIDE DEF S
<1>7. N \in S
  BY <1>1, <1>5, <1>6, UpTo
<1>8. QED
  BY <1>3, <1>7 DEF S, t, N

\* The rate a node of the graph reads is the one its update has in the reference.
LEMMA NodeRates ==
  ASSUME algo \in {"sac", "flash"}, NEW all, NEW m \in Nat, NEW g, NEW rates, g.nodes = Cycle,
         Follows(Cycle, Len(Cycle), all, m),
         algo = "sac" => \A o \in Optimizers : g.baked[o] = 0,
         algo = "flash" => rates[g.specs] = Filled(After(all, m)),
         NEW i \in 1 .. Len(Cycle), Cycle[i] # "target"
  PROVE  NodeRate(g, rates, i) = RateOf(all, m + i)
<1> DEFINE op == Cycle[i]
<1>1. Cycle \in Seq(Operations)
  BY CycleMatchesItsRates
<1>2. op \in Optimizers /\ i \in Nat \ {0} /\ i \in 0 .. Len(Cycle) /\ Len(Cycle) \in Nat
  BY <1>1 DEF Operations
<1>3. all[m + i] = op
  BY DEF Follows
<1>4. RateOf(all, m + i) = Scheduled(Occurrences(all, op, m + i) - 1)
  BY <1>3 DEF RateOf
<1>5. CASE algo = "sac"
  <2>1. NodeRate(g, rates, i) = g.baked[op]
    BY <1>5 DEF NodeRate
  <2>2. QED
    BY <1>2, <1>4, <1>5, <2>1 DEF Scheduled
<1>6. CASE algo = "flash"
  <2> DEFINE n == Occurrences(Cycle, op, i)
             e == Occurrences(all, op, m)
  <2>1. Occurrences(all, op, m + i) = e + n /\ e \in Nat /\ n \in Nat
    BY <1>2, OccurrencesAdd, OccurrencesCount
  <2>2. n >= 1
    <3> DEFINE j == i - 1
    <3>1. j \in Nat /\ j + 1 = i
      BY <1>2
    <3> HIDE DEF j
    <3>2. /\ Occurrences(Cycle, op, j + 1) =
               Occurrences(Cycle, op, j) + (IF Cycle[j + 1] = op THEN 1 ELSE 0)
          /\ Occurrences(Cycle, op, j) \in Nat
      BY <3>1, OccurrencesCount
    <3>3. QED
      BY <3>1, <3>2
  <2>3. n <= LrSpecs(op) /\ LrSpecs(op) \in Nat
    <3>1. n <= Count(Cycle, op) /\ Count(Cycle, op) \in Nat
      BY <1>2, OccurrencesGrow, OccurrencesCount DEF Count
    <3>2. Count(Cycle, op) = LrSpecs(op)
      BY <1>2, <1>6, CycleMatchesItsRates
    <3>3. QED
      BY <3>1, <3>2
  <2>4. After(all, m).epoch[op] = e
    BY <1>2, <1>6 DEF After, Flash
  <2> HIDE DEF n, e, op
  <2>5. Filled(After(all, m))[op][n] = Scheduled(e + n - 1)
    <3>1. Filled(After(all, m))[op] =
            [offset \in 1 .. LrSpecs(op) |-> Scheduled(After(all, m).epoch[op] + offset - 1)]
      BY <1>2 DEF Filled
    <3>2. n \in 1 .. LrSpecs(op)
      BY <2>1, <2>2, <2>3
    <3>3. QED
      BY <2>4, <3>1, <3>2
  <2>6. NodeRate(g, rates, i) = rates[g.specs][op][n]
    BY <1>6 DEF NodeRate, n, op
  <2>7. QED
    BY <1>4, <1>6, <2>1, <2>5, <2>6
<1>7. QED
  BY <1>5, <1>6

\* A replayed graph trains as the plain loop does: launched with the rates filled from the
\* learner's own epoch, and the schedulers then advanced, it carries the reference on by one
\* cycle.
LEMMA ReplayAfter ==
  ASSUME algo \in {"sac", "flash"}, NEW all, NEW m \in Nat, NEW g, NEW rates, g.nodes = Cycle,
         \A i \in 1 .. (m + Len(Cycle)) : all[i] \in Operations,
         Follows(Cycle, Len(Cycle), all, m),
         algo = "sac" => \A o \in Optimizers : g.baked[o] = 0,
         algo = "flash" => rates[g.specs] = Filled(After(all, m))
  PROVE  Advanced(Launched(g, rates, After(all, m))) = After(all, m + Len(Cycle))
<1> DEFINE N == Len(Cycle)
           t == After(all, m)
           w == After(all, m + N)
<1>1. Cycle \in Seq(Operations) /\ N \in Nat
  BY CycleMatchesItsRates
<1>2. /\ \A i \in 1 .. (m + N) : all[i] \in Operations
      /\ \A i \in 1 .. N : all[m + i] = Cycle[i]
  BY DEF Follows
<1>3. t \in Trained /\ w \in Trained
  <2>1. m + N \in Nat /\ \A i \in 1 .. m : all[i] \in Operations
    BY <1>1, <1>2
  <2>2. QED
    BY <1>2, <2>1, AfterType
<1>4. \A i \in 1 .. N : Cycle[i] # "target" =>
        NodeRate(g, rates, i) = RateOf(all, m + i) /\ NodeRate(g, rates, i) \in Int
  <2>1. ASSUME NEW i \in 1 .. N, Cycle[i] # "target"
        PROVE  NodeRate(g, rates, i) = RateOf(all, m + i) /\ NodeRate(g, rates, i) \in Int
    <3>1. NodeRate(g, rates, i) = RateOf(all, m + i)
      BY <2>1, NodeRates
    <3>2. m + i \in Nat \ {0}
      BY <1>1
    <3>3. QED
      BY <3>1, <3>2, RateIsNumber
  <2>2. QED
    BY <2>1
<1>5. PICK h : /\ h[0] = t
               /\ \A k \in 1 .. N : h[k] = LaunchUpdate(g, rates, h[k - 1], k)
               /\ Launched(g, rates, t) = h[N]
  BY <1>1, <1>3, <1>4, LaunchedUnrolled
<1> DEFINE S == {k \in 0 .. N : /\ h[k] \in Trained /\ SameMoved(h[k], After(all, m + k))
                                /\ h[k].epoch = t.epoch /\ h[k].lr = t.lr}
<1> HIDE DEF N, t, w
<1>6. 0 \in S
  <2>1. m + 0 = m /\ 0 \in 0 .. N
    BY <1>1
  <2>2. SameMoved(t, After(all, m))
    BY DEF t, SameMoved
  <2>3. QED
    BY <1>3, <1>5, <2>1, <2>2
<1>7. ASSUME NEW k \in 0 .. (N - 1), k \in S PROVE k + 1 \in S
  <2>1. /\ k + 1 \in 1 .. N /\ (k + 1) - 1 = k /\ k + 1 \in 0 .. N
        /\ m + k \in Nat /\ m + (k + 1) = (m + k) + 1
    <3>1. k \in Nat /\ k <= N - 1
      BY <1>1
    <3>2. QED
      BY <1>1, <3>1
  <2>2. h[k + 1] = LaunchUpdate(g, rates, h[k], k + 1)
    BY <1>5, <2>1
  <2> DEFINE u == h[k]
             a == m + k
  <2>3. Cycle[k + 1] = all[a + 1] /\ \A i \in 1 .. (a + 1) : all[i] \in Operations
    <3>1. all[m + (k + 1)] = Cycle[k + 1]
      BY <1>2, <2>1
    <3>2. a + 1 = m + (k + 1)
      BY <2>1
    <3>3. 1 .. (a + 1) \subseteq 1 .. (m + N)
      BY <1>1, <3>2
    <3>4. \A i \in 1 .. (a + 1) : all[i] \in Operations
      BY <1>2, <3>3
    <3>5. QED
      BY <3>1, <3>2, <3>4
  <2>4. /\ u \in Trained /\ SameMoved(u, After(all, a))
        /\ u.epoch = t.epoch /\ u.lr = t.lr /\ a \in Nat
    BY <1>7, <2>1
  <2>5. Cycle[k + 1] # "target" => NodeRate(g, rates, k + 1) = RateOf(all, a + 1)
    BY <1>4, <2>1
  <2>6. a + 1 = m + (k + 1)
    BY <2>1
  <2> HIDE DEF u, a
  <2> DEFINE v == LaunchUpdate(g, rates, u, k + 1)
  <2>7. /\ v \in Trained /\ SameMoved(v, After(all, a + 1))
        /\ v.epoch = u.epoch /\ v.lr = u.lr
    <3>1. CASE Cycle[k + 1] = "target"
      <4>1. v = SoftUpdated(u)
        BY <3>1 DEF LaunchUpdate
      <4>2. QED
        BY <2>3, <2>4, <3>1, <4>1, SoftUpdatedAfter
    <3>2. CASE Cycle[k + 1] # "target"
      <4>1. v = Stepped(u, all[a + 1], RateOf(all, a + 1))
        BY <2>3, <2>5, <3>2 DEF LaunchUpdate
      <4>2. QED
        BY <2>3, <2>4, <3>2, <4>1, SteppedAfter
    <3>3. QED
      BY <3>1, <3>2
  <2>8. h[k + 1] = v
    BY <2>2 DEF u
  <2> HIDE DEF v
  <2>9. QED
    BY <2>1, <2>4, <2>6, <2>7, <2>8
<1> HIDE DEF S
<1>8. N \in S
  BY <1>1, <1>6, <1>7, UpTo
<1> DEFINE u == h[N]
           v == Advanced(u)
<1>9. u \in Trained /\ SameMoved(u, w) /\ u.epoch = t.epoch /\ u.lr = t.lr
  BY <1>8 DEF S, w
<1>10. Advanced(Launched(g, rates, t)) = v
  BY <1>5
<1> HIDE DEF u
<1>11. \A o \in Optimizers : /\ Occurrences(all, o, m + N) = Occurrences(all, o, m) + Count(Cycle, o)
                             /\ Occurrences(all, o, m) \in Nat
  <2>1. N \in 0 .. N /\ Follows(Cycle, N, all, m)
    BY <1>1 DEF N
  <2>2. QED
    BY <1>1, <2>1, OccurrencesAdd, OccurrencesCount DEF Count, N
<1>12. v = w
  <2>1. CASE algo = "flash"
    <3>1. \A o \in Optimizers : Occurrences(all, o, m + N) = Occurrences(all, o, m) + LrSpecs(o)
      BY <1>11, <2>1, CycleMatchesItsRates
    <3> DEFINE e == [o \in Optimizers |-> u.epoch[o] + LrSpecs(o)]
               r == [o \in Optimizers |-> Scheduled(u.epoch[o] + LrSpecs(o))]
    <3>2. \A o \in Optimizers : u.epoch[o] = Occurrences(all, o, m)
      BY <1>9, <2>1 DEF t, After, Flash
    <3>3. /\ w.epoch = [o \in Optimizers |-> Occurrences(all, o, m + N)]
          /\ w.lr = [o \in Optimizers |-> Scheduled(Occurrences(all, o, m + N))]
      BY <2>1 DEF w, After, Flash
    <3>4. e = w.epoch /\ r = w.lr
      BY <3>1, <3>2, <3>3
    <3>5. v = [u EXCEPT !.epoch = e, !.lr = r]
      BY <1>9, <2>1 DEF Advanced, Trained
    <3>6. e \in [Optimizers -> Nat] /\ r \in [Optimizers -> Int]
      BY <1>3, <3>4 DEF Trained
    <3> HIDE DEF e, r, v
    <3>7. /\ v \in Trained /\ SameMoved(v, u) /\ v.epoch = e /\ v.lr = r
      BY <1>9, <3>5, <3>6 DEF Trained, SameMoved
    <3>8. QED
      BY <1>3, <1>9, <3>4, <3>7, SameTrained DEF SameMoved
  <2>2. CASE algo = "sac"
    <3>1. v = u
      BY <2>2 DEF Advanced
    <3>2. t.epoch = w.epoch /\ t.lr = w.lr
      BY <2>2 DEF t, w, After, Flash
    <3>3. QED
      BY <1>3, <1>9, <3>1, <3>2, SameTrained DEF SameMoved
  <2>3. QED
    BY <2>1, <2>2
<1>13. QED
  BY <1>10, <1>12 DEF t, w, N

-----------------------------------------------------------------------------
(* The reference, cycle by cycle.                                            *)

\* The sequence of n + 1 cycles is that of n and a cycle.
LEMMA UnrolledGrows ==
  ASSUME NEW n \in Nat
  PROVE  /\ Unrolled(0) = <<>>
         /\ Unrolled(n) \in Seq(Operations)
         /\ Unrolled(n + 1) = Unrolled(n) \o Cycle
<1> DEFINE first == [i \in 1 .. n |-> Cycle]
           seqs == [i \in 1 .. (n + 1) |-> Cycle]
<1>1. seqs \in [1 .. (n + 1) -> Seq(Operations)]
  BY CycleMatchesItsRates
<1>2. first = [i \in 1 .. n |-> seqs[i]] /\ seqs[n + 1] = Cycle
  OBVIOUS
<1>3. FlattenSeq([i \in 1 .. 0 |-> Cycle]) = <<>>
  <2>1. [i \in 1 .. 0 |-> Cycle] = <<>>
    OBVIOUS
  <2>2. QED
    BY <2>1 DEF FlattenSeq
<1> HIDE DEF first, seqs
<1>4. FlattenSeq(first) \in Seq(Operations) /\ FlattenSeq(seqs) = FlattenSeq(first) \o seqs[n + 1]
  BY <1>1, <1>2, FlattenGrows
<1>5. QED
  BY <1>2, <1>3, <1>4 DEF Unrolled, first, seqs

\* Its critic updates are UpdatesPerStep in each cycle.
LEMMA CriticUpdates ==
  ASSUME NEW n \in Nat
  PROVE  Count(Unrolled(n), "critic") = n * UpdatesPerStep
<1> DEFINE S == {k \in Nat : Count(Unrolled(k), "critic") = k * UpdatesPerStep}
<1>a. UpdatesPerStep \in Nat
  BY CycleAssumption DEF CycleAssumption
<1>1. 0 \in S
  <2>1. Unrolled(0) = <<>>
    BY UnrolledGrows
  <2>2. Count(<<>>, "critic") = 0
    BY CountOne
  <2>3. 0 * UpdatesPerStep = 0
    BY <1>a
  <2>4. QED
    BY <2>1, <2>2, <2>3
<1>2. ASSUME NEW k \in Nat, k \in S PROVE k + 1 \in S
  <2>1. /\ Unrolled(k) \in Seq(Operations) /\ Cycle \in Seq(Operations)
        /\ Unrolled(k + 1) = Unrolled(k) \o Cycle
    BY UnrolledGrows, CycleMatchesItsRates
  <2>2. Count(Unrolled(k) \o Cycle, "critic") = Count(Unrolled(k), "critic") + Count(Cycle, "critic")
    BY <2>1, CountConcat
  <2>3. (k + 1) * UpdatesPerStep = k * UpdatesPerStep + UpdatesPerStep
    BY <1>a, Product
  <2>4. Count(Unrolled(k + 1), "critic") = (k + 1) * UpdatesPerStep
    BY <1>2, <2>1, <2>2, <2>3, CycleMatchesItsRates
  <2>5. QED
    BY <2>4
<1> HIDE DEF S
<1>3. n \in S
  BY <1>1, <1>2, SetInduction
<1>4. QED
  BY <1>3 DEF S

\* The reference after n cycles, as the learner after that many updates.
LEMMA ReferenceIsAfter ==
  ASSUME NEW n \in Nat
  PROVE  Reference(n) = After(Unrolled(n), Len(Unrolled(n)))
<1> DEFINE all == Unrolled(n)
<1>1. Occurrences(all, "critic", Len(all)) = n * UpdatesPerStep
  BY CriticUpdates DEF Count
<1>2. Reference(n) =
        [ weights |-> [i \in 1 .. Len(all) |-> << all[i], RateOf(all, i) >>],
          moments |-> [o \in Optimizers |-> Occurrences(all, o, Len(all))],
          passes |-> Flash(n * UpdatesPerStep),
          epoch |-> [o \in Optimizers |-> Flash(Occurrences(all, o, Len(all)))],
          lr |-> [o \in Optimizers |-> Scheduled(Flash(Occurrences(all, o, Len(all))))] ]
  BY DEF Reference, RateOf, Flash
<1>3. QED
  BY <1>1, <1>2 DEF After

\* A sequence that only goes on behind place m has the same past.
LEMMA AfterAgree ==
  ASSUME NEW s, NEW t, NEW m \in Nat, \A i \in 1 .. m : s[i] = t[i]
  PROVE  After(s, m) = After(t, m)
<1>1. \A o : Occurrences(s, o, m) = Occurrences(t, o, m)
  BY OccurrencesAgree
<1>2. ASSUME NEW i \in 1 .. m PROVE s[i] = t[i] /\ RateOf(s, i) = RateOf(t, i)
  <2>1. i \in Nat /\ (\A j \in 1 .. i : s[j] = t[j]) /\ s[i] = t[i]
    OBVIOUS
  <2>2. Occurrences(s, s[i], i) = Occurrences(t, s[i], i)
    BY <2>1, OccurrencesAgree
  <2>3. QED
    BY <2>1, <2>2 DEF RateOf
<1>3. [i \in 1 .. m |-> << s[i], RateOf(s, i) >>] = [i \in 1 .. m |-> << t[i], RateOf(t, i) >>]
  BY <1>2
<1>4. QED
  BY <1>1, <1>3 DEF After

\* Cycle n + 1 starts where the reference is after n.
LEMMA ReferenceGrows ==
  ASSUME NEW n \in Nat
  PROVE  \E all : \E m \in Nat :
           /\ \A i \in 1 .. (m + Len(Cycle)) : all[i] \in Operations
           /\ Follows(Cycle, Len(Cycle), all, m)
           /\ Reference(n) = After(all, m)
           /\ Reference(n + 1) = After(all, m + Len(Cycle))
<1> DEFINE s == Unrolled(n)
           c == Cycle
           all == s \o c
           m == Len(s)
<1>1. s \in Seq(Operations) /\ c \in Seq(Operations) /\ Unrolled(n + 1) = all
  BY UnrolledGrows, CycleMatchesItsRates
<1>2. Reference(n) = After(s, m) /\ Reference(n + 1) = After(Unrolled(n + 1), Len(Unrolled(n + 1)))
  BY ReferenceIsAfter
<1> HIDE DEF s, c
<1>3. /\ m \in Nat /\ Len(c) \in Nat /\ Len(all) = m + Len(c)
      /\ all \in Seq(Operations)
      /\ \A i \in 1 .. m : s[i] = all[i]
      /\ \A i \in 1 .. Len(c) : all[m + i] = c[i]
  BY <1>1
<1> HIDE DEF all, m
<1>4. \A i \in 1 .. (m + Len(c)) : all[i] \in Operations
  BY <1>3
<1>5. After(s, m) = After(all, m)
  BY <1>3, AfterAgree
<1>6. Follows(c, Len(c), all, m)
  BY <1>3 DEF Follows
<1>7. Reference(n + 1) = After(all, m + Len(c)) /\ Reference(n) = After(all, m)
  BY <1>1, <1>2, <1>3, <1>5
<1>8. QED
  BY <1>3, <1>4, <1>6, <1>7 DEF c

LEMMA ReferenceType ==
  ASSUME NEW n \in Nat
  PROVE  Reference(n) \in Trained
<1>1. Unrolled(n) \in Seq(Operations)
  BY UnrolledGrows
<1>2. Len(Unrolled(n)) \in Nat /\ \A i \in 1 .. Len(Unrolled(n)) : Unrolled(n)[i] \in Operations
  BY <1>1
<1>3. QED
  BY <1>2, AfterType, ReferenceIsAfter

\* No cycle: a new learner.
LEMMA ReferenceStarts == Reference(0) = Fresh
<1>1. Unrolled(0) = <<>> /\ Len(<<>>) = 0
  BY UnrolledGrows
<1>2. Reference(0) = After(<<>>, 0)
  BY <1>1, ReferenceIsAfter
<1>3. \A o : Occurrences(<<>>, o, 0) = 0
  BY OccurrencesCount
<1>4. [i \in 1 .. 0 |-> << <<>>[i], RateOf(<<>>, i) >>] = <<>>
  OBVIOUS
<1>5. Flash(0) = 0
  BY DEF Flash
<1>6. QED
  BY <1>2, <1>3, <1>4, <1>5 DEF After, Fresh

\* A cycle made update by update is one cycle more of the plain loop.
LEMMA EagerReference ==
  ASSUME NEW n \in Nat
  PROVE  EagerCycle(Reference(n)) = Reference(n + 1)
<1>1. PICK all : \E m \in Nat :
        /\ \A i \in 1 .. (m + Len(Cycle)) : all[i] \in Operations
        /\ Follows(Cycle, Len(Cycle), all, m)
        /\ Reference(n) = After(all, m)
        /\ Reference(n + 1) = After(all, m + Len(Cycle))
  BY ReferenceGrows
<1>2. QED
  BY <1>1, CycleMatchesItsRates, EagerCycleAfter

\* One replay of a captured cycle trains as one more cycle of the plain loop: the rates each
\* node reads, baked into SAC's graph or staged in FlashSAC's LR tensors, are those the
\* eager updates of the cycle would have, and so are the moments, normalizer passes and
\* scheduler epochs afterwards (update_cycle, _fill_update_cycle_lr_specs).
THEOREM ReplayTrainsAsTheLoop ==
  ASSUME algo \in {"sac", "flash"}, NEW n \in Nat, NEW g, NEW rates, g.nodes = Cycle,
         algo = "sac" => \A o \in Optimizers : g.baked[o] = 0,
         algo = "flash" => rates[g.specs] = Filled(Reference(n))
  PROVE  Advanced(Launched(g, rates, Reference(n))) = Reference(n + 1)
<1>1. PICK all : \E m \in Nat :
        /\ \A i \in 1 .. (m + Len(Cycle)) : all[i] \in Operations
        /\ Follows(Cycle, Len(Cycle), all, m)
        /\ Reference(n) = After(all, m)
        /\ Reference(n + 1) = After(all, m + Len(Cycle))
  BY ReferenceGrows
<1>2. PICK m \in Nat :
        /\ \A i \in 1 .. (m + Len(Cycle)) : all[i] \in Operations
        /\ Follows(Cycle, Len(Cycle), all, m)
        /\ Reference(n) = After(all, m)
        /\ Reference(n + 1) = After(all, m + Len(Cycle))
  BY <1>1
<1>3. Advanced(Launched(g, rates, After(all, m))) = After(all, m + Len(Cycle))
  BY <1>2, ReplayAfter
<1>4. QED
  BY <1>2, <1>3

-----------------------------------------------------------------------------
(* The learner against the reference, on every path of a run.                *)

\* Between updates, from the start of a process until something goes wrong.
Consistent == {"start"} \cup BeforeTry \cup (InsideTry \ {"read"})

LearnerInv ==
  /\ algo \in {"sac", "flash"}
  /\ pc \in Consistent => training = Reference(updates)
  /\ pc = "read" => training = Reference(updates + 1)

\* A graph is one of this cycle, SAC's at the one rate there is.
CapturedInv ==
  graph # <<>> => /\ Head(graph).nodes = Cycle
                  /\ algo = "sac" => \A o \in Optimizers : Head(graph).baked[o] = 0

SavedInv ==
  \A n \in DOMAIN saved : saved[n] # Torn => saved[n].training = Reference(n)

\* The reference depends on the algorithm only, which a run does not change.
LEMMA CycleSame ==
  ASSUME UNCHANGED algo
  PROVE  Cycle' = Cycle
BY DEF Cycle, Update, Every, UpdateActor, UpdateCritic, SoftUpdateTarget

LEMMA ReferenceSame ==
  ASSUME UNCHANGED algo, NEW n
  PROVE  Reference(n)' = Reference(n)
<1>1. Unrolled(n)' = Unrolled(n)
  BY CycleSame DEF Unrolled
<1>2. QED
  BY <1>1 DEF Reference, Scheduled

LEMMA AlgoStays ==
  ASSUME [Next]_vars
  PROVE  UNCHANGED algo
<1>1. CASE LearnerSteps
  BY <1>1 DEF LearnerSteps, UpdateSteps, GraphIsCached, WarmUpdateCycleGraph, CaptureGraph,
    CaptureFails, PrepareByUpdates, Replay, EagerUpdates, ReadMetrics, UpdateRewardStats
<1>2. CASE Next /\ ~LearnerSteps
  BY <1>2 DEF Next, Learn, Resume, CheckHostMemory, CheckDeviceMemory, OpenBuffer, OpenPipeline,
    OpenRing, StartLogger, DpInitBroadcast, StartCollector, NextIteration, EndIteration,
    ShutdownCollector, ClosePipeline, Finish, Raise, CloseLogger, JoinCollector,
    ReleaseResource, CloseGroup, Killed, Restart, KeepLearner
<1>3. CASE UNCHANGED vars
  BY <1>3 DEF vars, cycleVars
<1>4. QED
  BY <1>1, <1>2, <1>3

\* A step that touches neither learner nor counters leaves it where it was.
LEMMA LearnerStays ==
  ASSUME LearnerInv, UNCHANGED <<algo, training, updates>>,
         pc' \in Consistent => pc \in Consistent, pc' = "read" => pc = "read"
  PROVE  LearnerInv'
BY ReferenceSame DEF LearnerInv, Consistent, BeforeTry, InsideTry

\* A dry run of the cycle, or the updates of a preparation, leave nothing behind.
LEMMA PreparationRestores ==
  ASSUME NEW n \in Nat, training = Reference(n)
  PROVE  /\ Restored(DryCycle(training), training) = training
         /\ Restored(EagerCycle(training), training) = training
<1>1. training \in Trained /\ Cycle \in Seq(Operations)
  BY ReferenceType, CycleMatchesItsRates
<1>2. DryCycle(training) \in Trained /\ EagerCycle(training) \in Trained
  BY <1>1, DryCycleType, EagerCycleType
<1>3. QED
  BY <1>1, <1>2, EverythingRestored

\* Replay keeps the learner at the reference of its updates.
LEMMA ReplayTrains ==
  ASSUME LearnerInv, CountInv, GraphInv, CapturedInv, Replay
  PROVE  training' = Reference(updates + 1)
<1>1. /\ pc = "replay" /\ training' = Advanced(Launched(Head(graph), Refilled, training))
  BY DEF Replay
<1>2. training = Reference(updates) /\ updates \in Nat /\ algo \in {"sac", "flash"}
  BY <1>1 DEF LearnerInv, Consistent, InsideTry, CountInv
<1>3. /\ graph # <<>> /\ Head(graph).nodes = Cycle
      /\ algo = "sac" => \A o \in Optimizers : Head(graph).baked[o] = 0
  BY <1>1 DEF GraphInv, CapturedInv
<1>4. algo = "flash" => Refilled[Head(graph).specs] = Filled(Reference(updates))
  <2>1. ASSUME algo = "flash" PROVE Refilled[Head(graph).specs] = Filled(training)
    <3>1. Head(graph).specs = Len(tensors) /\ Len(tensors) > 0 /\ IsSequence(tensors)
      BY <1>3, <2>1 DEF GraphInv
    <3>2. Refilled = [tensors EXCEPT ![Len(tensors)] = Filled(training)]
      BY <2>1 DEF Refilled
    <3>3. QED
      BY <3>1, <3>2, SequenceReplaced
  <2>2. QED
    BY <1>2, <2>1
<1>5. Advanced(Launched(Head(graph), Refilled, Reference(updates))) = Reference(updates + 1)
  BY <1>2, <1>3, <1>4, ReplayTrainsAsTheLoop
<1>6. QED
  BY <1>1, <1>2, <1>5

\* So does every other path of UpdateCycle.
LEMMA LearnerUpdates ==
  ASSUME LearnerInv, CountInv, GraphInv, CapturedInv, UpdateSteps
  PROVE  LearnerInv'
<1> USE DEF Consistent, BeforeTry, InsideTry
<1>a. updates \in Nat
  BY DEF CountInv
<1>1. CASE GraphIsCached
  BY <1>1, LearnerStays DEF GraphIsCached, WantsGraph, learnerVars
<1>2. CASE WarmUpdateCycleGraph
  <2>1. /\ pc \in {"prepare", "update"} /\ pc' = "capture" /\ UNCHANGED <<algo, updates>>
        /\ training' = Restored(DryCycle(training), training)
    BY <1>2 DEF WarmUpdateCycleGraph, WantsGraph
  <2>2. training = Reference(updates)
    BY <2>1 DEF LearnerInv
  <2>3. UNCHANGED training
    BY <1>a, <2>1, <2>2, PreparationRestores
  <2>4. QED
    BY <2>1, <2>3, LearnerStays
<1>3. CASE CaptureGraph
  BY <1>3, LearnerStays DEF CaptureGraph
<1>4. CASE CaptureFails
  BY <1>4, LearnerStays DEF CaptureFails
<1>5. CASE PrepareByUpdates
  <2>1. /\ pc = "prepare" /\ pc' = "prepared" /\ UNCHANGED <<algo, updates>>
        /\ training' = Restored(EagerCycle(training), training)
    BY <1>5 DEF PrepareByUpdates
  <2>2. training = Reference(updates)
    BY <2>1 DEF LearnerInv
  <2>3. UNCHANGED training
    BY <1>a, <2>1, <2>2, PreparationRestores
  <2>4. QED
    BY <2>1, <2>3, LearnerStays
<1>6. CASE Replay
  <2>1. pc' = "read" /\ UNCHANGED <<algo, updates>>
    BY <1>6 DEF Replay
  <2>2. training' = Reference(updates + 1)
    BY <1>6, ReplayTrains
  <2>3. QED
    BY <2>1, <2>2, ReferenceSame DEF LearnerInv
<1>7. CASE EagerUpdates
  <2>1. pc = "update" /\ pc' = "read" /\ UNCHANGED <<algo, updates>>
        /\ training' = EagerCycle(training)
    BY <1>7 DEF EagerUpdates
  <2>2. training = Reference(updates)
    BY <2>1 DEF LearnerInv
  <2>3. training' = Reference(updates + 1)
    BY <1>a, <2>1, <2>2, EagerReference
  <2>4. QED
    BY <2>1, <2>3, ReferenceSame DEF LearnerInv
<1>8. CASE ReadMetrics
  <2>1. pc = "read" /\ pc' = "save" /\ UNCHANGED <<algo, training>> /\ updates' = updates + 1
    BY <1>8 DEF ReadMetrics
  <2>2. training = Reference(updates + 1)
    BY <2>1 DEF LearnerInv
  <2>3. QED
    BY <2>1, <2>2, ReferenceSame DEF LearnerInv
<1>9. CASE UpdateRewardStats
  BY <1>9, LearnerStays DEF UpdateRewardStats
<1>10. QED
  BY <1>1, <1>2, <1>3, <1>4, <1>5, <1>6, <1>7, <1>8, <1>9 DEF UpdateSteps

\* And so does every step of a run, restarts and resumes included.
LEMMA LearnerStep ==
  ASSUME LearnerInv, CountInv, FilesInv, GraphInv, CapturedInv, SavedInv, [Next]_vars
  PROVE  LearnerInv'
<1> USE DEF Consistent, BeforeTry, InsideTry, KeepLearner, learnerVars
<1>1. CASE LearnerSteps
  BY <1>1, LearnerUpdates DEF LearnerSteps
<1>2. CASE Resume
  <2>1. PICK n \in DOMAIN saved :
          IF saved[n] = Torn
            THEN pc' = "left" /\ UNCHANGED <<learnerVars, iteration>>
            ELSE LoadStateDict(saved[n]) /\ iteration' = updates' + 1 /\ pc' = "memory_budget"
    BY <1>2 DEF Resume
  <2>2. UNCHANGED algo
    BY <1>2 DEF Resume
  <2>3. CASE saved[n] = Torn
    BY <2>1, <2>2, <2>3 DEF LearnerInv
  <2>4. CASE saved[n] # Torn
    <3>1. training' = saved[n].training /\ updates' = saved[n].updates /\ pc' = "memory_budget"
      BY <2>1, <2>4 DEF LoadStateDict
    <3>2. saved[n].training = Reference(n) /\ saved[n].updates = n
      BY <2>4 DEF SavedInv, FilesInv
    <3>3. training' = Reference(n) /\ updates' = n
      BY <3>1, <3>2
    <3>4. QED
      BY <2>2, <3>1, <3>3, ReferenceSame DEF LearnerInv
  <2>5. QED
    BY <2>3, <2>4
<1>3. CASE Restart
  <2>1. pc' = "start" /\ training' = Fresh /\ updates' = 0 /\ UNCHANGED algo
    BY <1>3 DEF Restart
  <2>2. Fresh = Reference(0)
    BY ReferenceStarts
  <2>3. QED
    BY <2>1, <2>2, ReferenceSame DEF LearnerInv
<1>4. CASE Learn \/ CheckHostMemory \/ CheckDeviceMemory \/ OpenBuffer \/ OpenPipeline
           \/ OpenRing \/ StartLogger \/ DpInitBroadcast \/ StartCollector
  BY <1>4, LearnerStays DEF Learn, CheckHostMemory, CheckDeviceMemory, OpenBuffer, OpenPipeline,
    OpenRing, StartLogger, DpInitBroadcast, StartCollector
<1>5. CASE NextIteration \/ EndIteration \/ ShutdownCollector \/ ClosePipeline \/ Finish
  BY <1>5, LearnerStays DEF NextIteration, EndIteration, ShutdownCollector, ClosePipeline, Finish
<1>6. CASE Raise \/ CloseLogger \/ JoinCollector \/ ReleaseResource \/ CloseGroup \/ Killed
  BY <1>6, LearnerStays DEF Raise, CloseLogger, JoinCollector, ReleaseResource, CloseGroup, Killed
<1>7. CASE UNCHANGED vars
  BY <1>7, LearnerStays DEF vars, cycleVars
<1>8. QED
  BY <1>1, <1>2, <1>3, <1>4, <1>5, <1>6, <1>7 DEF Next

\* A captured graph is one of the whole cycle, at rate step 0 for SAC.
LEMMA CapturedStep ==
  ASSUME LearnerInv, CapturedInv, [Next]_vars
  PROVE  CapturedInv'
<1>a. UNCHANGED algo /\ Cycle' = Cycle
  BY AlgoStays, CycleSame
<1>b. CASE UNCHANGED graph
  BY <1>a, <1>b DEF CapturedInv
<1>c. CASE graph' = <<>>
  BY <1>c DEF CapturedInv
<1>1. CASE CaptureGraph
  <2>1. /\ graph' = << [nodes |-> Cycle, baked |-> training.lr,
                        specs |-> Len(CapturedTensors)] >>
        /\ pc = "capture"
    BY <1>1 DEF CaptureGraph
  <2>2. Head(graph').nodes = Cycle /\ Head(graph').baked = training.lr
    BY <2>1
  <2>3. training = Reference(updates)
    BY <2>1 DEF LearnerInv, Consistent, InsideTry
  <2>4. algo = "sac" => \A o \in Optimizers : training.lr[o] = 0
    BY <2>3 DEF Reference, Scheduled
  <2>5. QED
    BY <1>a, <2>2, <2>4 DEF CapturedInv
<1>2. CASE LearnerSteps
  BY <1>1, <1>2, <1>b, <1>c DEF LearnerSteps, UpdateSteps, GraphIsCached, WarmUpdateCycleGraph,
    CaptureFails, PrepareByUpdates, Replay, EagerUpdates, ReadMetrics, UpdateRewardStats,
    learnerVars
<1>3. CASE Resume \/ Restart
  BY <1>3, <1>b, <1>c DEF Resume, LoadStateDict, Restart, learnerVars
<1>4. CASE UNCHANGED vars
  BY <1>4, <1>b DEF vars, cycleVars, learnerVars
<1>5. CASE Next /\ ~(LearnerSteps \/ Resume \/ Restart)
  <2>1. UNCHANGED graph
    BY <1>5 DEF Next, Learn, CheckHostMemory, CheckDeviceMemory, OpenBuffer, OpenPipeline,
      OpenRing, StartLogger, DpInitBroadcast, StartCollector, NextIteration, EndIteration,
      ShutdownCollector, ClosePipeline, Finish, Raise, CloseLogger, JoinCollector,
      ReleaseResource, CloseGroup, Killed, KeepLearner, learnerVars
  <2>2. QED
    BY <2>1, <1>b
<1>6. QED
  BY <1>2, <1>3, <1>4, <1>5

\* A readable checkpoint stays the reference of its number.
LEMMA SavedStep ==
  ASSUME LearnerInv, CountInv, SavedInv, [Next]_vars
  PROVE  SavedInv'
<1>a. MaxIterations \in Nat \ {0}
  BY StartupAssumption DEF StartupAssumption
<1>b. UNCHANGED algo /\ \A n : Reference(n)' = Reference(n)
  BY AlgoStays, ReferenceSame
<1>c. CASE UNCHANGED saved
  BY <1>b, <1>c DEF SavedInv
<1>d. ASSUME NEW n, NEW state, state = Torn \/ state.training = Reference(n),
             saved' = [m \in DOMAIN saved \cup {n} |-> IF m = n THEN state ELSE saved[m]]
      PROVE  SavedInv'
  <2>1. ASSUME NEW m \in DOMAIN saved', saved'[m] # Torn
        PROVE  saved'[m].training = Reference(m)
    BY <1>d, <2>1 DEF SavedInv
  <2>2. QED
    BY <1>b, <2>1 DEF SavedInv, Torn
<1>e. ASSUME NEW n, n = updates, pc \in Consistent, WriteCheckpoint(n)
      PROVE  SavedInv'
  <2>1. Checkpoint.training = Reference(n)
    BY <1>e DEF Checkpoint, LearnerInv
  <2>2. QED
    BY <2>1, <1>d, <1>e DEF WriteCheckpoint
<1>1. CASE EndIteration /\ ~UNCHANGED saved
  <2>1. pc = "save" /\ WriteCheckpoint(iteration)
    BY <1>1 DEF EndIteration
  <2>2. iteration = updates /\ pc \in Consistent
    BY <2>1 DEF CountInv, Consistent, InsideTry
  <2>3. QED
    BY <2>1, <2>2, <1>e
<1>2. CASE Finish /\ ~UNCHANGED saved
  <2>1. pc = "final" /\ WriteCheckpoint(MaxIterations)
    BY <1>2 DEF Finish
  <2>2. MaxIterations = updates /\ pc \in Consistent
    BY <2>1, <1>a DEF CountInv, Ahead, BeforeTry, InsideTry, Consistent
  <2>3. QED
    BY <2>1, <2>2, <1>e
<1>3. CASE LeavesFiles
  BY <1>3, <1>c, <1>d DEF LeavesFiles
<1>4. CASE Raise \/ Killed
  BY <1>3, <1>4 DEF Raise, Killed
<1>5. CASE UNCHANGED vars
  BY <1>5, <1>c DEF vars
<1>6. CASE Next /\ ~(EndIteration \/ Finish \/ Raise \/ Killed)
  <2>1. UNCHANGED saved
    BY <1>6 DEF Next, Learn, Resume, CheckHostMemory, CheckDeviceMemory, OpenBuffer, OpenPipeline,
      OpenRing, StartLogger, DpInitBroadcast, LearnerSteps, StartCollector, NextIteration,
      ShutdownCollector, ClosePipeline, CloseLogger, JoinCollector, ReleaseResource, CloseGroup,
      Restart, KeepSaved
  <2>2. QED
    BY <2>1, <1>c
<1>7. QED
  BY <1>c, <1>1, <1>2, <1>4, <1>5, <1>6

\* Whatever path the updates take, for every length of the cycle and every frequency of its
\* updates: a replayed graph, one captured anew, the eager fallback, the updates of a DP rank
\* and a checkpoint loaded into a new process all leave the learner where the plain loop of
\* updates would, and a checkpoint model_n that can be read holds the state of n updates
\* (update_cycle, _warm_update_cycle_graph, prepare_for_collection, load_state_dict).
THEOREM EveryPathTrainsAlike == Spec => []TrainingFollowsReference
<1> DEFINE AllInv == /\ CountInv /\ FilesInv /\ GraphInv
                     /\ LearnerInv /\ CapturedInv /\ SavedInv
<1>1. Init => AllInv
  <2> SUFFICES ASSUME Init PROVE AllInv
    OBVIOUS
  <2>1. /\ pc = "start" /\ updates = 0 /\ iteration = 0 /\ saved = << >>
        /\ graph = <<>> /\ tensors = <<>> /\ training = Fresh /\ algo \in {"sac", "flash"}
    BY DEF Init, NewLearner
  <2>2. DOMAIN saved = {} /\ tensors \in Seq({})
    BY <2>1
  <2>3. CountInv /\ FilesInv
    BY <2>1, <2>2 DEF CountInv, FilesInv, Ahead, Working, BeforeTry, InsideTry
  <2>4. GraphInv /\ CapturedInv /\ SavedInv
    BY <2>1, <2>2 DEF GraphInv, CapturedInv, SavedInv, IsSequence
  <2>5. LearnerInv
    BY <2>1, ReferenceStarts DEF LearnerInv
  <2>6. QED
    BY <2>3, <2>4, <2>5
<1>2. AllInv /\ [Next]_vars => AllInv'
  BY CountStep, FilesStep, GraphStep, LearnerStep, CapturedStep, SavedStep
<1>3. AllInv => TrainingFollowsReference
  BY DEF CountInv, FilesInv, LearnerInv, SavedInv, TrainingFollowsReference, UpdatesAreCounted,
    Consistent, Ahead, BeforeTry, InsideTry
<1>4. QED
  BY <1>1, <1>2, <1>3, PTL DEF Spec
=============================================================================
