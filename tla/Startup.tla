------------------------------- MODULE Startup -------------------------------
(* One run of DoubleBufferOffPolicyRunner.learn and close in the learner's   *)
(* process: restoring a checkpoint, the memory checks, the resources in the  *)
(* order they are made, the preparation of the learner, the collector, the   *)
(* iterations with their checkpoints, and every way out.  The process may    *)
(* raise at any step or be killed, and is started again from any checkpoint  *)
(* it has left.  UpdateCycle has the learner's steps, LockStep and the       *)
(* replay modules what collector and learner do between them.                *)
EXTENDS UpdateCycle, MemoryBudget, FiniteSets

CONSTANTS
    Configurations,     \* the dimensions a runner may be built with
    FreeBytes, ShmBytes,\* what the device and /dev/shm may have free
    MaxIterations,      \* of a run: max_iterations
    SaveInterval,
    MaxRuns,            \* bounds the runs: processes started one after another
    MaxFaults           \* bounds the exceptions and kills over all runs

ASSUME StartupAssumption ==
    /\ Configurations \subseteq Dims
    /\ FreeBytes \subseteq Nat /\ ShmBytes \subseteq Nat
    /\ {MaxIterations, SaveInterval, MaxRuns} \subseteq Nat \ {0}
    /\ MaxFaults \in Nat

VARIABLES
    dp,         \* whether a DP synchronizer is attached
    d,          \* the runner's dimensions
    free, shm,  \* bytes free when a process starts
    used,       \* bytes of the device the startup has taken
    hostUsed,   \* bytes of /dev/shm it has taken
    resources,  \* _shared_resources
    live,       \* what has been opened and not closed
    iteration,
    ckptPath,   \* the iteration of the last checkpoint of this run, or 0
    saved,      \* the checkpoint files: iteration -> state, or Torn
    runs, faults

processVars == << used, hostUsed, resources, live, iteration, ckptPath >>
vars == << cycleVars, dp, d, free, shm, processVars, saved, runs, faults >>

Torn == [torn |-> TRUE]

\* Where an exception ends learn() outside and inside its try.
BeforeTry == {"memory_budget", "cuda_preflight", "replay_resources", "pipeline",
              "inference_resources", "logger"}
InsideTry == {"dp_init", "prepare", "capture", "prepared", "loop", "stats", "update",
              "replay", "read", "save", "quiesce", "close_pipeline", "final"}

Init ==
    /\ pc = "start"
    /\ dp \in BOOLEAN
    /\ \E a \in {"sac", "flash"}, normalized \in BOOLEAN :
          NewLearner(a, normalized /\ a = "flash", dp)
    /\ d \in Configurations /\ free \in FreeBytes /\ shm \in ShmBytes
    /\ used = 0 /\ hostUsed = 0
    /\ resources = <<>> /\ live = {}
    /\ iteration = 0 /\ ckptPath = 0
    /\ saved = << >>
    /\ runs = 1 /\ faults = 0

KeepLearner == UNCHANGED << algo, rewards, caller, logged, learnerVars, dp, d, free, shm >>
KeepSaved == UNCHANGED << saved, runs, faults >>

-----------------------------------------------------------------------------
(* learn: the checkpoint.                                                    *)

\* A run from the beginning.
Learn ==
    /\ pc = "start"
    /\ iteration' = 1
    /\ pc' = "memory_budget"
    /\ KeepLearner /\ KeepSaved
    /\ UNCHANGED << used, hostUsed, resources, live, ckptPath >>

\* _restore_resume_checkpoint, which refuses a file it cannot read.
Resume ==
    /\ pc = "start"
    /\ \E n \in DOMAIN saved :
          IF saved[n] = Torn
            THEN /\ pc' = "left"
                 /\ UNCHANGED << learnerVars, iteration >>
            ELSE /\ LoadStateDict(saved[n])
                 /\ iteration' = updates' + 1
                 /\ pc' = "memory_budget"
    /\ UNCHANGED << algo, rewards, caller, logged, dp, d, free, shm, used, hostUsed,
                    resources, live, ckptPath >>
    /\ KeepSaved

-----------------------------------------------------------------------------
(* _learn_impl: budgets and resources.                                       *)

CheckHostMemory ==
    /\ pc = "memory_budget"
    /\ pc' = IF HostAccepts(HostEstimate(d), shm) THEN "cuda_preflight" ELSE "left"
    /\ KeepLearner /\ KeepSaved
    /\ UNCHANGED processVars

\* The preflight, and the timing events when it is passed.
CheckDeviceMemory ==
    /\ pc = "cuda_preflight"
    /\ IF DeviceAccepts(RuntimeEstimate(d), free)
         THEN pc' = "replay_resources" /\ used' = used + TimingEvents
         ELSE pc' = "left" /\ used' = used
    /\ KeepLearner /\ KeepSaved
    /\ UNCHANGED << hostUsed, resources, live, iteration, ckptPath >>

OpenBuffer ==
    /\ pc = "replay_resources"
    /\ used' = used + DeviceBuffer(d)
    /\ hostUsed' = hostUsed + HostBuffer(d)
    /\ resources' = Append(resources, "buffer")
    /\ live' = live \cup {"buffer"}
    /\ pc' = "pipeline"
    /\ KeepLearner /\ KeepSaved
    /\ UNCHANGED << iteration, ckptPath >>

\* A slip: the pipeline at the end of the list, like the others.
RegisteredLast(r, list) == Append(list, r)

\* The pipeline goes to the head of the list, to be closed before the buffer
\* its thread uses.
RegisteredFirst(r, list) == <<r>> \o list

\* GPUResidentReplayPipeline checks the device itself before it allocates.
OpenPipeline ==
    /\ pc = "pipeline"
    /\ IF PipelineAccepts(d, free - used)
         THEN /\ used' = used + RequiredBytes(d)
              /\ resources' = RegisteredFirst("pipeline", resources)
              /\ live' = live \cup {"pipeline"}
              /\ pc' = "inference_resources"
         ELSE /\ pc' = "left"
              /\ UNCHANGED << used, resources, live >>
    /\ KeepLearner /\ KeepSaved
    /\ UNCHANGED << hostUsed, iteration, ckptPath >>

\* The inference ring and the learner's scratch.
OpenRing ==
    /\ pc = "inference_resources"
    /\ used' = used + DeviceRing(d) + ScratchBytes(d) + ActionBytes(d)
    /\ hostUsed' = hostUsed + HostRing(d)
    /\ resources' = Append(resources, "ring")
    /\ live' = live \cup {"ring"}
    /\ pc' = "logger"
    /\ KeepLearner /\ KeepSaved
    /\ UNCHANGED << iteration, ckptPath >>

StartLogger ==
    /\ pc = "logger"
    /\ live' = live \cup {"logger"}
    /\ pc' = "dp_init"
    /\ KeepLearner /\ KeepSaved
    /\ UNCHANGED << used, hostUsed, resources, iteration, ckptPath >>

DpInitBroadcast ==
    /\ pc = "dp_init"
    /\ live' = IF dp THEN live \cup {"group"} ELSE live
    /\ pc' = "prepare"
    /\ KeepLearner /\ KeepSaved
    /\ UNCHANGED << used, hostUsed, resources, iteration, ckptPath >>

\* The steps of UpdateCycle: preparation, and the update of an iteration.
LearnerSteps ==
    /\ UpdateSteps
    /\ used' = used + (batches' - batches) * StaticBatch(d)
    /\ UNCHANGED << dp, d, free, shm, hostUsed, resources, live, iteration, ckptPath >>
    /\ KeepSaved

StartCollector ==
    /\ pc = "prepared"
    /\ live' = live \cup {"collector"}
    /\ pc' = "loop"
    /\ KeepLearner /\ KeepSaved
    /\ UNCHANGED << used, hostUsed, resources, iteration, ckptPath >>

-----------------------------------------------------------------------------
(* _learn_impl: the iterations and the end.                                  *)

NextIteration ==
    /\ pc = "loop"
    /\ pc' = IF iteration <= MaxIterations THEN "stats" ELSE "quiesce"
    /\ KeepLearner /\ KeepSaved
    /\ UNCHANGED processVars

\* _save_checkpoint of rank 0.
WriteCheckpoint(n) ==
    /\ saved' = [m \in DOMAIN saved \cup {n} |-> IF m = n THEN Checkpoint ELSE saved[m]]
    /\ ckptPath' = n

EndIteration ==
    /\ pc = "save"
    /\ IF iteration % SaveInterval = 0
         THEN WriteCheckpoint(iteration)
         ELSE UNCHANGED << saved, ckptPath >>
    /\ iteration' = iteration + 1
    /\ pc' = "loop"
    /\ KeepLearner
    /\ UNCHANGED << used, hostUsed, resources, live, runs, faults >>

ShutdownCollector ==
    /\ pc = "quiesce"
    /\ live' = live \ {"collector"}
    /\ pc' = "close_pipeline"
    /\ KeepLearner /\ KeepSaved
    /\ UNCHANGED << used, hostUsed, resources, iteration, ckptPath >>

ClosePipeline ==
    /\ pc = "close_pipeline"
    /\ live' = live \ {"pipeline"}
    /\ pc' = "final"
    /\ KeepLearner /\ KeepSaved
    /\ UNCHANGED << used, hostUsed, resources, iteration, ckptPath >>

\* The last checkpoint, unless the loop has just written it, and the logger.
Finish ==
    /\ pc = "final"
    /\ IF ckptPath = MaxIterations
         THEN UNCHANGED << saved, ckptPath >>
         ELSE WriteCheckpoint(MaxIterations)
    /\ live' = live \ {"logger"}
    /\ pc' = "left"
    /\ KeepLearner
    /\ UNCHANGED << used, hostUsed, resources, iteration, runs, faults >>

-----------------------------------------------------------------------------
(* Exceptions, close and death.                                              *)

\* torch.save interrupted leaves half a file, over a whole one if need be.
WritesFile ==
    \/ pc = "save" /\ iteration % SaveInterval = 0
    \/ pc = "final" /\ ckptPath # MaxIterations

LeavesFiles ==
    \/ saved' = saved
    \/ /\ WritesFile
       /\ LET n == IF pc = "save" THEN iteration ELSE MaxIterations
          IN  saved' = [m \in DOMAIN saved \cup {n} |-> IF m = n THEN Torn ELSE saved[m]]

\* Inside the try, `finally` shuts the collector down.
Raise ==
    /\ faults < MaxFaults
    /\ pc \in BeforeTry \cup InsideTry
    /\ live' = IF pc \in InsideTry THEN live \ {"collector"} ELSE live
    /\ LeavesFiles
    /\ pc' = "left"
    /\ faults' = faults + 1
    /\ KeepLearner
    /\ UNCHANGED << used, hostUsed, resources, iteration, ckptPath, runs >>

\* runner.close(): the logger, the collector, each resource in turn, the
\* process group after the learner has let go of it.
CloseLogger ==
    /\ pc = "left"
    /\ live' = live \ {"logger"}
    /\ pc' = "close"
    /\ KeepLearner /\ KeepSaved
    /\ UNCHANGED << used, hostUsed, resources, iteration, ckptPath >>

JoinCollector ==
    /\ pc = "close"
    /\ live' = live \ {"collector"}
    /\ pc' = "release"
    /\ KeepLearner /\ KeepSaved
    /\ UNCHANGED << used, hostUsed, resources, iteration, ckptPath >>

ReleaseResource ==
    /\ pc = "release" /\ resources # <<>>
    /\ live' = live \ {Head(resources)}
    /\ resources' = Tail(resources)
    /\ KeepLearner /\ KeepSaved
    /\ UNCHANGED << pc, used, hostUsed, iteration, ckptPath >>

CloseGroup ==
    /\ pc = "release" /\ resources = <<>>
    /\ live' = live \ {"group"}
    /\ pc' = "closed"
    /\ KeepLearner /\ KeepSaved
    /\ UNCHANGED << used, hostUsed, resources, iteration, ckptPath >>

Killed ==
    /\ faults < MaxFaults
    /\ pc \notin {"start", "closed", "dead"}
    /\ pc' = "dead" /\ live' = {}
    /\ LeavesFiles
    /\ faults' = faults + 1
    /\ KeepLearner
    /\ UNCHANGED << used, hostUsed, resources, iteration, ckptPath, runs >>

\* Another process with a learner of its own and the same files.
Restart ==
    /\ pc \in {"closed", "dead"} /\ runs < MaxRuns
    /\ runs' = runs + 1
    /\ pc' = "start"
    /\ training' = Fresh /\ updates' = 0
    /\ gr' = IF rewards THEN "unsized" ELSE None
    /\ whole' = ~dp
    /\ key' = None /\ graph' = <<>> /\ tensors' = <<>> /\ failed' = FALSE
    /\ batches' = 0
    /\ pending' = None /\ caller' = "prepare" /\ logged' = 0
    /\ used' = 0 /\ hostUsed' = 0 /\ resources' = <<>> /\ live' = {}
    /\ iteration' = 0 /\ ckptPath' = 0
    /\ UNCHANGED << algo, rewards, dp, d, free, shm, saved, faults >>

Next ==
    \/ Learn \/ Resume
    \/ CheckHostMemory \/ CheckDeviceMemory
    \/ OpenBuffer \/ OpenPipeline \/ OpenRing
    \/ StartLogger \/ DpInitBroadcast
    \/ LearnerSteps
    \/ StartCollector \/ NextIteration \/ EndIteration
    \/ ShutdownCollector \/ ClosePipeline \/ Finish
    \/ Raise \/ CloseLogger \/ JoinCollector \/ ReleaseResource \/ CloseGroup
    \/ Killed \/ Restart

Spec == Init /\ [][Next]_vars

-----------------------------------------------------------------------------
(* Properties.                                                               *)

\* Iterations and updates stay in step, on every path through the update and
\* across resumes: when an iteration is saved its metrics have been read and
\* its update counted, and a checkpoint model_n that can be read holds exactly
\* n updates (_save_checkpoint, _restore_resume_checkpoint).
UpdatesAreCounted ==
    /\ pc = "loop" => updates = iteration - 1
    /\ pc = "save" => updates = iteration /\ logged = iteration
    /\ \A n \in DOMAIN saved : saved[n] # Torn => saved[n].updates = n

\* Whatever path the updates take - the graph, a graph captured anew when the
\* reward normalizer got its shape, the eager fallback, the updates of a DP
\* rank, a checkpoint loaded into a new process - the learner is between
\* updates where the plain loop would be: the same updates at the same rates
\* of the schedule, the same moments and statistics.  The metrics read are of
\* the update just made, and a checkpoint model_n that can be read holds
\* exactly the state of n updates.
TrainingFollowsReference ==
    /\ pc \in InsideTry \ {"read"} => training = Reference(updates)
    /\ UpdatesAreCounted
    /\ \A n \in DOMAIN saved : saved[n] # Torn => saved[n].training = Reference(n)

\* A configuration the preflight lets pass is not refused half way: the
\* pipeline's own guard, made when timing events and ingress are allocated,
\* accepts it, and the runner's resources with the batches cloned for the
\* graphs fit into what was free.  No estimate counts the clones: they have to
\* come out of the fifth of the device the checks leave, which is sure as long
\* as they are at most a fifth of what is taken.  Nothing is said of a batch
\* that is larger against the ring, which may exceed what was free, nor of
\* networks and activations (_validate_device_memory_budget,
\* raise_if_cuda_memory_over_budget).
PreflightCovers ==
    /\ pc = "pipeline" => PipelineAccepts(d, free - used)
    /\ 5 * (batches * StaticBatch(d)) <= used => used <= free
    /\ hostUsed <= shm

\* Whatever step failed, nothing outlives what it uses: the pipeline's thread
\* and the collector never run beside a closed buffer or ring, and a closed
\* runner has left nothing open.
ResourceLifetimes ==
    /\ "pipeline" \in live => "buffer" \in live
    /\ "collector" \in live => {"buffer", "pipeline", "ring"} \subseteq live
    /\ pc = "closed" => live = {}

=============================================================================
