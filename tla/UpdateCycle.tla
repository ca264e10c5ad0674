----------------------------- MODULE UpdateCycle -----------------------------
(* The whole-cycle update of the SAC and FlashSAC learners and the eager     *)
(* updates it replaces.  A learner prepares before collection by a dry run   *)
(* at learning rate zero, restores what the run changed, captures one CUDA   *)
(* graph of the cycle and replays it; a changed reward normalizer, a         *)
(* checkpoint or a failed capture send it through other paths, all of which  *)
(* must train as the plain loop does.                                        *)
(*                                                                           *)
(* Tensors are abstracted to what produced them: weights to the sequence of  *)
(* updates that moved them with the rate of each, an optimizer's moments to  *)
(* the number of gradients they have absorbed.  A rate is the step of the    *)
(* schedule it belongs to, Zero the rate of a dry run.  The random number    *)
(* generators are not modelled, and losses are finite (see DpSync).          *)
EXTENDS Integers, Sequences, SequencesExt, FiniteSets

CONSTANTS
    UpdatesPerStep, PolicyFrequency, TargetFrequency,  \* of one cycle
    PolicyBeforeCritic                                  \* a BOOLEAN

ASSUME CycleAssumption ==
    /\ UpdatesPerStep \in Nat \ {0}
    /\ PolicyFrequency \in Nat \ {0}
    /\ TargetFrequency \in Nat \ {0}
    /\ PolicyBeforeCritic \in BOOLEAN

VARIABLES
    pc,         \* where the learner thread is; this module has the steps of
                \* "prepare", "update", "capture", "replay" and "read"
    algo,       \* "sac" or "flash"
    rewards,    \* whether FlashSAC normalizes rewards
    training,   \* parameters, optimizers, schedulers and running statistics
    gr,         \* the shape of the reward normalizer's g_r
    updates,    \* update_count
    whole,      \* _compile_full_update_cycle, cleared by a gradient sync
    caller,     \* "prepare" or "update": what the capture is for
    key,        \* _update_cycle_graph_cache_key
    graph,      \* _update_cycle_graph: at most one, in a sequence
    tensors,    \* the LR tensors of every capture; _update_cycle_lr_specs is
                \* the last of them
    failed,     \* _update_cycle_capture_failed
    batches,    \* copies of a learner batch the device holds memory for, in
                \* _update_cycle_static_batch or in the allocator behind it
    pending,    \* _pending_cycle_metric_values: the cycle they are of
    logged      \* the cycle whose metrics the runner read last

learnerVars == << training, gr, updates, whole, key, graph, tensors, failed,
                  batches, pending >>
cycleVars == << pc, algo, rewards, caller, logged, learnerVars >>

Optimizers == {"critic", "actor", "temperature"}
None == "none"
Zero == -1

-----------------------------------------------------------------------------
(* One cycle as the updates it makes.                                        *)

UpdateCritic == IF algo = "sac" THEN <<"critic", "temperature">> ELSE <<"critic">>
UpdateActor == IF algo = "sac" THEN <<"actor">> ELSE <<"actor", "temperature">>
SoftUpdateTarget == <<"target">>

Every(frequency, i, block) == IF i % frequency = 0 THEN block ELSE <<>>

\* Update i of the cycle, from 0.
Update(i) ==
    LET actor == Every(PolicyFrequency, i, UpdateActor)
    IN  (IF PolicyBeforeCritic THEN actor \o UpdateCritic ELSE UpdateCritic \o actor)
            \o Every(TargetFrequency, i, SoftUpdateTarget)

Cycle == FlattenSeq([i \in 1 .. UpdatesPerStep |-> Update(i - 1)])

\* How often s has op at or before place i.
Occurrences(s, op, i) == Cardinality({j \in 1 .. i : s[j] = op})

-----------------------------------------------------------------------------
(* The learner's state and what an update does to it.                        *)

\* SAC has no schedule: every step has the rate of step 0.
Scheduled(step) == IF algo = "flash" THEN step ELSE 0

Fresh ==
    [ weights |-> <<>>,
      moments |-> [o \in Optimizers |-> 0],
      passes |-> 0,
      epoch |-> [o \in Optimizers |-> 0],
      lr |-> [o \in Optimizers |-> Scheduled(0)] ]

\* An optimizer step: the moments absorb the gradient at any rate, FlashSAC's
\* normalizers count the batch of a critic update.
Stepped(t, op, rate) ==
    [ t EXCEPT !.weights = IF rate = Zero THEN @ ELSE Append(@, <<op, rate>>),
               !.moments[op] = @ + 1,
               !.passes = IF op = "critic" /\ algo = "flash" THEN @ + 1 ELSE @ ]

SoftUpdated(t) == [t EXCEPT !.weights = Append(@, <<"target", 0>>)]

\* LambdaLR.step: the group's rate follows the epoch.
Scheduling(t, op) ==
    IF algo = "flash"
      THEN [t EXCEPT !.epoch[op] = @ + 1, !.lr[op] = Scheduled(t.epoch[op] + 1)]
      ELSE t

\* update_critic, update_actor and soft_update_target outside a capture.
EagerUpdate(t, op) ==
    IF op = "target" THEN SoftUpdated(t)
                     ELSE Scheduling(Stepped(t, op, t.lr[op]), op)

EagerCycle(t) == FoldLeft(EagerUpdate, t, Cycle)

\* The dry run: no rate, and no scheduler steps.
DryUpdate(t, op) == IF op = "target" THEN SoftUpdated(t) ELSE Stepped(t, op, Zero)

DryCycle(t) == [FoldLeft(DryUpdate, t, Cycle) EXCEPT !.lr = [o \in Optimizers |-> Zero]]

\* A slip the restoration invites: the optimizers keep what the dry run left.
RestoredModels(dirty, saved) ==
    [ dirty EXCEPT !.lr = saved.lr, !.weights = saved.weights,
                   !.epoch = saved.epoch, !.passes = saved.passes ]

\* The `finally` of _warm_update_cycle_graph: group rates, modules, optimizers,
\* schedulers and normalizers get back what they had.
Restored(dirty, saved) ==
    [ dirty EXCEPT !.lr = saved.lr, !.weights = saved.weights,
                   !.moments = saved.moments, !.epoch = saved.epoch,
                   !.passes = saved.passes ]

-----------------------------------------------------------------------------
(* The graph.                                                                *)

GraphKey == gr

\* _prepare_update_cycle_lr_specs: how many rates a cycle needs of each
\* optimizer.
LrSpecs(op) ==
    IF op = "critic" THEN UpdatesPerStep
                     ELSE (UpdatesPerStep + PolicyFrequency - 1) \div PolicyFrequency

\* _fill_update_cycle_lr_specs: the schedule from the scheduler's epoch on.
Filled(t) ==
    [o \in Optimizers |-> [offset \in 1 .. LrSpecs(o) |-> Scheduled(t.epoch[o] + offset - 1)]]

Zeros == [o \in Optimizers |-> [offset \in 1 .. LrSpecs(o) |-> Zero]]

\* SAC's graph holds the rates of its capture, FlashSAC's the LR tensors bound
\* one after the other (_stage_update_cycle_lr), whose values it reads when it
\* is launched.
NodeRate(g, rates, i) ==
    LET op == g.nodes[i]
    IN  IF algo = "sac" THEN g.baked[op] ELSE rates[g.specs][op][Occurrences(g.nodes, op, i)]

Launched(g, rates, t) ==
    FoldLeft(LAMBDA u, i : IF g.nodes[i] = "target"
                             THEN SoftUpdated(u)
                             ELSE Stepped(u, g.nodes[i], NodeRate(g, rates, i)),
             t, [i \in 1 .. Len(g.nodes) |-> i])

\* The LR tensors a replay reads: those of the last preparation, filled anew.
Refilled ==
    IF algo = "flash" THEN [tensors EXCEPT ![Len(tensors)] = Filled(training)] ELSE tensors

\* _advance_update_cycle_schedulers: each scheduler as often as it has specs.
Advanced(t) ==
    IF algo = "flash"
      THEN [ t EXCEPT !.epoch = [o \in Optimizers |-> @[o] + LrSpecs(o)],
                      !.lr = [o \in Optimizers |-> Scheduled(t.epoch[o] + LrSpecs(o))] ]
      ELSE t

-----------------------------------------------------------------------------
(* The steps.                                                                *)

UseUpdateCycle == whole

\* update_cycle stops asking for a graph once a capture has failed;
\* prepare_for_collection asks whatever happened before.
WantsGraph == pc \in {"prepare", "update"} /\ UseUpdateCycle /\ (pc = "update" => ~failed)

HasGraph == graph # <<>> /\ key = GraphKey

\* _ensure_update_cycle_graph with a graph for this key.
GraphIsCached ==
    /\ WantsGraph /\ HasGraph
    /\ pc' = IF pc = "prepare" THEN "prepared" ELSE "replay"
    /\ UNCHANGED << algo, rewards, caller, logged, learnerVars >>

\* Without one: the static batch, a dry run of the cycle, then everything back
\* as it was.  The batch is cloned before the one it replaces is let go.
WarmUpdateCycleGraph ==
    /\ WantsGraph /\ ~HasGraph
    /\ caller' = pc
    /\ key' = GraphKey
    /\ graph' = <<>>
    /\ tensors' = IF algo = "flash" THEN Append(tensors, Zeros) ELSE tensors
    /\ training' = Restored(DryCycle(training), training)
    /\ batches' = IF batches < 2 THEN batches + 1 ELSE batches
    /\ pending' = None
    /\ pc' = "capture"
    /\ UNCHANGED << algo, rewards, logged, gr, updates, whole, failed >>

CapturedTensors ==
    IF algo = "flash" THEN Append(tensors, Filled(training)) ELSE tensors

\* The capture records the cycle and executes nothing of it.
CaptureGraph ==
    /\ pc = "capture"
    /\ tensors' = CapturedTensors
    /\ graph' = << [nodes |-> Cycle, baked |-> training.lr, specs |-> Len(CapturedTensors)] >>
    /\ pc' = IF caller = "prepare" THEN "prepared" ELSE "replay"
    /\ UNCHANGED << algo, rewards, caller, logged, training, gr, updates, whole,
                    key, failed, batches, pending >>

\* FlashSAC survives a failed capture; SAC lets the error out.
CaptureFails ==
    /\ pc = "capture" /\ algo = "flash"
    /\ failed' = TRUE
    /\ tensors' = CapturedTensors
    /\ pc' = IF caller = "prepare" THEN "prepared" ELSE "update"
    /\ UNCHANGED << algo, rewards, caller, logged, training, gr, updates, whole,
                    key, graph, batches, pending >>

\* prepare_for_collection without the whole cycle: the eager cycle on synthetic
\* rows, then load_state_dict with what was saved before.
PrepareByUpdates ==
    /\ pc = "prepare" /\ ~UseUpdateCycle
    /\ training' = Restored(EagerCycle(training), training)
    /\ graph' = <<>> /\ key' = None /\ tensors' = <<>>
    /\ pending' = None
    /\ pc' = "prepared"
    /\ UNCHANGED << algo, rewards, caller, logged, gr, updates, whole, failed, batches >>

\* update_cycle with a graph: fill the LR tensors, replay, advance the
\* schedulers.
Replay ==
    /\ pc = "replay"
    /\ tensors' = Refilled
    /\ training' = Advanced(Launched(Head(graph), Refilled, training))
    /\ pending' = updates + 1
    /\ pc' = "read"
    /\ UNCHANGED << algo, rewards, caller, logged, gr, updates, whole, key, graph, failed,
                    batches >>

\* update_cycle after a failed capture, and the runner's own loop of updates.
EagerUpdates ==
    /\ pc = "update"
    /\ ~UseUpdateCycle \/ failed
    /\ training' = EagerCycle(training)
    /\ pending' = updates + 1
    /\ pc' = "read"
    /\ UNCHANGED << algo, rewards, caller, logged, gr, updates, whole, key, graph, tensors,
                    failed, batches >>

\* The deferred metrics are read once, and the update is counted.
ReadMetrics ==
    /\ pc = "read"
    /\ logged' = pending
    /\ pending' = None
    /\ updates' = updates + 1
    /\ pc' = "save"
    /\ UNCHANGED << algo, rewards, caller, training, gr, whole, key, graph, tensors, failed,
                    batches >>

\* update_reward_stats_from_replay before an update: the first rows give g_r
\* its shape.
UpdateRewardStats ==
    /\ pc = "stats"
    /\ gr' = IF rewards THEN "sized" ELSE gr
    /\ pc' = "update"
    /\ UNCHANGED << algo, rewards, caller, logged, training, updates, whole, key,
                    graph, tensors, failed, batches, pending >>

UpdateSteps ==
    \/ GraphIsCached
    \/ WarmUpdateCycleGraph
    \/ CaptureGraph
    \/ CaptureFails
    \/ PrepareByUpdates
    \/ Replay
    \/ EagerUpdates
    \/ ReadMetrics
    \/ UpdateRewardStats

-----------------------------------------------------------------------------
(* Checkpoints, resets and the gradient synchronization.                     *)

Checkpoint == [training |-> training, gr |-> gr, updates |-> updates]

\* load_state_dict ends with _reset_update_cycle_graph, which forgets the
\* graph and its LR tensors but not that a capture has failed.
LoadStateDict(state) ==
    /\ training' = state.training
    /\ gr' = state.gr
    /\ updates' = state.updates
    /\ graph' = <<>> /\ key' = None /\ tensors' = <<>>
    /\ pending' = None
    /\ UNCHANGED << whole, failed, batches >>

\* A learner as it is constructed, with dp a gradient sync attached at once.
NewLearner(a, normalized, dp) ==
    /\ algo = a
    /\ rewards = normalized
    /\ training = Fresh
    /\ gr = IF normalized THEN "unsized" ELSE None
    /\ updates = 0
    /\ whole = ~dp
    /\ caller = "prepare"
    /\ key = None /\ graph = <<>> /\ tensors = <<>>
    /\ failed = FALSE /\ batches = 0
    /\ pending = None /\ logged = 0

-----------------------------------------------------------------------------
(* The reference, independent of the operators above: after n cycles the     *)
(* state is that of n passes over the cycle, each update at the rate its     *)
(* number among the updates of its optimizer has in the schedule.            *)

Unrolled(n) == FlattenSeq([i \in 1 .. n |-> Cycle])

Reference(n) ==
    LET all == Unrolled(n)
        count(o) == Occurrences(all, o, Len(all))
        rate(i) == IF all[i] = "target" THEN 0 ELSE Scheduled(Occurrences(all, all[i], i) - 1)
        flash(x) == IF algo = "flash" THEN x ELSE 0
    IN  [ weights |-> [i \in 1 .. Len(all) |-> << all[i], rate(i) >>],
          moments |-> [o \in Optimizers |-> count(o)],
          passes |-> flash(n * UpdatesPerStep),
          epoch |-> [o \in Optimizers |-> flash(count(o))],
          lr |-> [o \in Optimizers |-> Scheduled(flash(count(o)))] ]

=============================================================================
