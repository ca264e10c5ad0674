-------------------------------- MODULE MCDp --------------------------------
(***************************************************************************)
(* The instance of DpSupervisor that TLC checks, and the rank topology it  *)
(* starts from evaluated on small hosts.                                   *)
(***************************************************************************)
EXTENDS DpSupervisor, RankTopology

Hosts == SUBSET (0..5) \ {{}}
WorldSizes == 2..4

\* Every core goes to one rank, whole, and every rank of a run that is not refused has one
\* (resolve_collector_cpu_ids with _discover_physical_cpu_groups).
ASSUME CoresArePartitioned ==
  \A ids \in Hosts, coreOf \in [0..5 -> 0..2], worldSize \in WorldSizes :
    LET cores == PhysicalCpuGroups(ids, coreOf)
        share(r) == ResolveCollectorCpuIds(worldSize, r, cores, Cardinality(ids), <<>>)
        ranks == 0..(worldSize - 1)
    IN IF Len(cores) < worldSize THEN \A r \in ranks : share(r) = {}
       ELSE /\ UNION {share(r) : r \in ranks} = ids
            /\ \A r \in ranks : share(r) # {}
            /\ \A r \in ranks : \A a \in share(r), b \in ids :
                 coreOf[a] = coreOf[b] => b \in share(r)

\* The same for cores that are only counted: runs of CPUs, every CPU in one.
ASSUME CountedCoresArePartitioned ==
  \A ids \in Hosts, physical \in 1..8 :
    LET cores == CountedCpuGroups(ids, physical)
    IN /\ UNION ToSet(cores) = ids
       /\ \A i \in 1..Len(cores) : cores[i] # {}
       /\ \A i, j \in 1..Len(cores) : i < j => \A a \in cores[i], b \in cores[j] : a < b

\* No two processes of a run that draw from the same generators have one seed: learners
\* among themselves, collectors among themselves.
ASSUME SeedsDiffer ==
  \A worldSize \in WorldSizes : \A r, q \in 0..(worldSize - 1) :
    r # q => /\ RankSeed(7, r) # RankSeed(7, q)
             /\ DeriveWorkerSeed(RankSeed(7, r), 0) # DeriveWorkerSeed(RankSeed(7, q), 0)

\* A process is never given more threads than its host has CPUs.
ASSUME ThreadsFit ==
  \A cpuCount \in 1..300 :
    {CollectorThreads(cpuCount), LearnerThreads(cpuCount), CompileThreads(cpuCount)}
      \subseteq 1..cpuCount

\* A child of a launch that is not refused owns its device by itself.
ASSUME ChildrenOwnOneDevice ==
  \A mask \in UNION {[1..n -> {"a", "b", "c"}] : n \in 0..3} : \A rank \in 1..2 :
    SelectedVisibleEntries(3, mask) # <<>> =>
      RankLocalCudaDevice(ChildMask(3, mask, rank), 3) = "cuda:0"
=============================================================================
