---------------------------- MODULE RankTopology ----------------------------
(***************************************************************************)
(* What a rank of a data-parallel run owns (ipc/dp_launcher.py): one entry *)
(* of CUDA_VISIBLE_DEVICES, a share of the CPUs for its collector, and     *)
(* seeds (utils/seed.py); and the threads its processes start              *)
(* (offpolicy/thread_budget.py).  Pure functions of the configuration,     *)
(* called once before training.                                            *)
(*                                                                         *)
(* A visibility mask is the sequence of its entries, which are opaque; one *)
(* that is unset or empty is <<>>.  A set of CPUs is a set of numbers, and *)
(* {} stands for a configuration that is refused with a ValueError.        *)
(***************************************************************************)
EXTENDS Integers, SequencesExt

VisibleCudaEntries(mask) == IF mask = <<"-1">> THEN <<>> ELSE mask

\* The device of a rank: it owns one entry, or the only device of its host.
RankLocalCudaDevice(mask, devices) ==
  LET entries == VisibleCudaEntries(mask)
  IN CASE Len(entries) > 1 -> "refused"
       [] Len(entries) = 1 -> "cuda:0"
       [] OTHER -> IF devices = 1 THEN "cuda:0" ELSE "none"

\* The entries of a launch, in the order of the ranks; <<>> if they are refused.
SelectedVisibleEntries(worldSize, mask) ==
  LET entries == VisibleCudaEntries(mask)
  IN IF Len(entries) = worldSize /\ IsInjective(entries) THEN entries ELSE <<>>

\* The mask of a rank that the supervisor spawns.
ChildMask(worldSize, mask, rank) == <<SelectedVisibleEntries(worldSize, mask)[rank + 1]>>
-----------------------------------------------------------------------------
\* Physical cores among the given CPUs, in the order of their first one: by package and
\* core ...
PhysicalCpuGroups(ids, coreOf) ==
  LET cores == {{id \in ids : coreOf[id] = core} : core \in {coreOf[id] : id \in ids}}
  IN SetToSortSeq(cores, LAMBDA a, b : Min(a) < Min(b))

\* ... or by their number alone, on a system that tells no more
CountedCpuGroups(ids, physical) ==
  LET sorted == SetToSortSeq(ids, <)
      count == IF physical > Len(sorted) THEN Len(sorted) ELSE physical
      group(core) == {sorted[i] : i \in {j \in 1..Len(sorted) :
                                          ((j - 1) * count) \div Len(sorted) = core}}
  IN [core \in 1..count |-> group(core - 1)]

\* Where a rank's run of groups starts; the next rank's starts where it ends.
FirstGroup(cores, worldSize, rank) == (rank * Len(cores)) \div worldSize

GroupShare(cores, worldSize, rank) ==
  UNION {cores[i] : i \in (FirstGroup(cores, worldSize, rank) + 1)..
                           FirstGroup(cores, worldSize, rank + 1)}

\* Without groups, a run of equal length.
EvenShare(cpuCount, worldSize, rank) ==
  LET size == cpuCount \div worldSize IN (rank * size)..(rank * size + size - 1)

\* Segments given in the configuration: one for each rank, none empty, no CPU twice.
ValidSegments(segments, worldSize) ==
  /\ Len(segments) = worldSize
  /\ \A r \in 1..Len(segments) : segments[r] # <<>> /\ IsInjective(segments[r])
  /\ \A r \in 1..Len(segments) : \A q \in 1..Len(segments) :
       r # q => ToSet(segments[r]) \cap ToSet(segments[q]) = {}

\* The CPUs of a rank's collector, for worldSize > 1: a single rank's is not bound.
ResolveCollectorCpuIds(worldSize, rank, cores, cpuCount, segments) ==
  IF cpuCount < worldSize THEN {}
  ELSE IF segments # <<>>
  THEN IF ValidSegments(segments, worldSize) THEN ToSet(segments[rank + 1]) ELSE {}
  ELSE IF cores # <<>>
  THEN IF Len(cores) >= worldSize THEN GroupShare(cores, worldSize, rank) ELSE {}
  ELSE EvenShare(cpuCount, worldSize, rank)
-----------------------------------------------------------------------------
\* The seed of a rank's learner, and of its collector.  A run of one process keeps the
\* configured seed.
RankSeed(seed, rank) == seed + rank
DeriveWorkerSeed(seed, worker) == seed + worker + 1

\* Threads of the two processes of a rank when the configuration says "auto".
Smaller(a, b) == IF a < b THEN a ELSE b
Larger(a, b) == IF a < b THEN b ELSE a
CollectorThreads(cpuCount) == Smaller(4, Larger(1, cpuCount \div 16))
LearnerThreads(cpuCount) ==
  Smaller(8, Larger(IF cpuCount < 4 THEN 1 ELSE 2, cpuCount \div 8))
CompileThreads(cpuCount) == Smaller(2, Larger(1, cpuCount \div 32))
=============================================================================
