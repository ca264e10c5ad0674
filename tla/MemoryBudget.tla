---------------------------- MODULE MemoryBudget ----------------------------
(* The arithmetic of memory_budget.py beside that of the allocations it      *)
(* stands for.  A configuration of the off-policy runner is a record d of    *)
(* positive dimensions: envs, replay_n, obs, action, critic, input (what     *)
(* inference reads), samples (rows of a learner batch), capacity (slots of   *)
(* the inference ring), depth and rows (of the ingress), scratch (of the     *)
(* exploration, may be 0), and native: whether the collector writes tensors  *)
(* on the learner's device.  Every element is a float32.                     *)
EXTENDS Integers

CONSTANTS
    EventReserve,   \* CUDA_INFERENCE_EVENT_RESERVE_BYTES
    MinOverhead     \* the two ..._MIN_OVERHEAD_BYTES, which are equal

ASSUME BudgetAssumption == EventReserve \in Nat /\ MinOverhead \in Nat

Dims == [envs : Nat \ {0}, replay_n : Nat \ {0}, obs : Nat \ {0},
         action : Nat \ {0}, critic : Nat \ {0}, input : Nat \ {0},
         samples : Nat \ {0}, capacity : Nat \ {0}, depth : Nat \ {0},
         rows : Nat \ {0}, scratch : Nat, native : BOOLEAN]

-----------------------------------------------------------------------------
(* What the constructors allocate.                                           *)

StorageWidth(d) == 2 * d.obs + d.action + 3 + 2 * d.critic

\* The slots of ReplayBuffer, on the device or in shared host memory.
IngressSlots(d) == d.depth * d.rows * StorageWidth(d) * 4

\* The ring and the two batches of GPUResidentReplayPipeline.
StorageBytes(d) == d.replay_n * d.envs * StorageWidth(d) * 4
SlotBytes(d) == 2 * d.samples * StorageWidth(d) * 4
RequiredBytes(d) == StorageBytes(d) + SlotBytes(d)

\* A learner batch cloned for a CUDA graph, which no estimate counts.
StaticBatch(d) == d.samples * StorageWidth(d) * 4

\* Observations, dones and actions of SharedInferenceRing.
RingBytes(d) ==
    ( d.capacity * d.envs * d.input + d.capacity * d.envs
        + d.capacity * d.envs * d.action ) * 4

\* The observations and dones the learner's actor reads, and its actions.
ScratchBytes(d) == d.envs * d.input * 4 + d.envs * 4
ActionBytes(d) == d.envs * d.action * 4

\* Two timing events, and three for each slot of a ring on the device.
Events(d) == 2 + IF d.native THEN 3 * d.capacity ELSE 0

OnDevice(d, bytes) == IF d.native THEN bytes ELSE 0
OnHost(d, bytes) == IF d.native THEN 0 ELSE bytes

-----------------------------------------------------------------------------
(* What the estimates count, and the checks made with them.  The fractions   *)
(* of the code are tenths.                                                   *)

Overhead(exact) ==
    IF exact \div 10 > MinOverhead THEN exact \div 10 ELSE MinOverhead

RingEstimate(d) == d.envs * d.capacity * (d.input + 1 + d.action) * 4

InferenceExact(d) ==
    OnDevice(d, RingEstimate(d)) + ScratchBytes(d) + ActionBytes(d) + d.scratch

\* estimate_cuda_inference_ipc_bytes(...)["total"]
InferenceEstimate(d) ==
    InferenceExact(d) + Events(d) * EventReserve + Overhead(InferenceExact(d))

\* A slip: the slots of the ingress are not counted.
ReplayWithoutIngress(d) == StorageBytes(d) + SlotBytes(d)

ReplayExact(d) == StorageBytes(d) + SlotBytes(d) + OnDevice(d, IngressSlots(d))

\* estimate_cuda_tensor_runtime_bytes(...)["total"]
RuntimeEstimate(d) ==
    InferenceEstimate(d) + ReplayExact(d) + Overhead(ReplayExact(d))

\* estimate_offpolicy_bytes(...)["total"]: shared host memory.
HostEstimate(d) == OnHost(d, IngressSlots(d)) + OnHost(d, RingEstimate(d))

Limit(free) == (8 * free) \div 10

\* raise_if_cuda_memory_over_budget and raise_if_shared_memory_over_budget.
DeviceAccepts(total, free) == total <= Limit(free)
HostAccepts(total, available) == 10 * total <= 8 * available

\* The pipeline's own guard, made with what is free when it is constructed.
PipelineAccepts(d, free) == RequiredBytes(d) <= Limit(free)

-----------------------------------------------------------------------------
(* What the startup has taken once each resource exists.                     *)

TimingEvents == 2 * EventReserve
DeviceBuffer(d) == OnDevice(d, IngressSlots(d))
DeviceRing(d) == OnDevice(d, RingBytes(d)) + (Events(d) - 2) * EventReserve
HostBuffer(d) == OnHost(d, IngressSlots(d))
HostRing(d) == OnHost(d, RingBytes(d))

-----------------------------------------------------------------------------
(* APPO's ring: the estimate and the field-by-field allocation, for a record *)
(* of envs, steps, obs, action, critic and slots.                            *)

RolloutDims == [envs : Nat \ {0}, steps : Nat \ {0}, obs : Nat \ {0},
                action : Nat \ {0}, critic : Nat, slots : Nat \ {0}]

\* obs, critic, actions, four scalars, last_obs and last_critic.  A field
\* without columns is left out, as are the critic's when it has none.
RolloutRingBytes(r) ==
    4 * r.slots * ( r.envs * r.steps * r.obs + r.envs * r.steps * r.critic
                    + r.envs * r.steps * r.action + 4 * (r.envs * r.steps)
                    + r.envs * r.obs + r.envs * r.critic )

PerStep(r) == r.obs + r.action + 1 + 1 + 1 + 1 + r.critic

\* estimate_appo_bytes(...)["total"]
AppoEstimate(r) ==
    ( r.envs * r.steps * PerStep(r) * 4 + r.envs * (r.obs + r.critic) * 4 )
        * r.slots

=============================================================================
