-------------------------------- MODULE Appo ---------------------------------
(***************************************************************************)
(* APPO as a whole: the rollout ring, and the weights that go the other    *)
(* way through ipc/weight_sync.py.  After an update the learner writes     *)
(* actor and then critic weights, parameter by parameter, and counts the   *)
(* version up; at the top of a rollout the collector looks at the version  *)
(* and reads the parameters if it is new.  The learner holds the lock of   *)
(* SharedWeightSync; the collector attached without one (worker.py:131),   *)
(* so its reads exclude nothing.                                           *)
(*                                                                         *)
(* A parameter is the version of the weights it was written for.           *)
(***************************************************************************)
EXTENDS RolloutRing

CONSTANTS
  ActorParams,  \* parameters of the actor, of the critic
  CriticParams

ASSUME WeightAssumption == ActorParams \in Nat \ {0} /\ CriticParams \in Nat \ {0}

Syncs == {"actor", "critic"}
Params(sync) == 1..(IF sync = "actor" THEN ActorParams ELSE CriticParams)

VARIABLES
  shared,    \* _buffer of each sync
  version,   \* _version_arr of each sync
  held,      \* the parameters the collector's actor and critic have
  local,     \* local_actor_weight_version, local_critic_weight_version
  pulling,   \* [sync, at]: the collector's next read; at = 0 is the look at the version
  pushing,   \* [sync, at]: the learner's next write
  behaviour  \* history: the actor version each rollout was collected under

weights == <<shared, version, held, local, pulling, pushing, behaviour>>

At(sync, at) == [sync |-> sync, at |-> at]
Finished == At("none", 0)

AppoInit ==
  /\ Init
  /\ shared = [s \in Syncs |-> [p \in Params(s) |-> 1]]
  /\ version = [s \in Syncs |-> 1]
  /\ held = shared /\ local = version
  /\ pulling = At("actor", 0) /\ pushing = At("actor", 1)
  /\ behaviour = [r \in 0..(MaxRollouts - 1) |-> 0]

\* the sync after this one, from its first step
Following(sync, first) == IF sync = "actor" THEN At("critic", first) ELSE Finished
-----------------------------------------------------------------------------
(***************************************************************************)
(* The collector at the top of its loop: read_weights_into without a lock. *)
(***************************************************************************)
\* mutant: the version is looked at and the weights stay
CheckVersionOnly(s) ==
  /\ cpc = "pull" /\ pulling = At(s, 0)
  /\ pulling' = Following(s, 0)
  /\ UNCHANGED <<vars, shared, version, held, local, pushing, behaviour>>

CheckVersion(s) ==
  /\ cpc = "pull" /\ pulling = At(s, 0)
  /\ pulling' = IF version[s] > local[s] THEN At(s, 1) ELSE Following(s, 0)
  /\ UNCHANGED <<vars, shared, version, held, local, pushing, behaviour>>

ReadParam(s, p) ==
  /\ cpc = "pull" /\ pulling = At(s, p)
  /\ held' = [held EXCEPT ![s][p] = shared[s][p]]
  /\ pulling' = At(s, p + 1)
  /\ UNCHANGED <<vars, shared, version, local, pushing, behaviour>>

\* the version that is kept is read behind the parameters
ReadVersion(s) ==
  /\ cpc = "pull" /\ pulling.sync = s /\ pulling.at > 0 /\ pulling.at \notin Params(s)
  /\ local' = [local EXCEPT ![s] = version[s]]
  /\ pulling' = Following(s, 0)
  /\ UNCHANGED <<vars, shared, version, held, pushing, behaviour>>

CollectRollout ==
  /\ pulling = Finished
  /\ StartRollout
  /\ pulling' = At("actor", 0)
  /\ behaviour' = [behaviour EXCEPT ![writePtr] = local["actor"]]
  /\ UNCHANGED <<shared, version, held, local, pushing>>
-----------------------------------------------------------------------------
(***************************************************************************)
(* The learner behind an update: write_weights of actor and critic.        *)
(***************************************************************************)
WriteParam(s, p) ==
  /\ lpc = "sync" /\ pushing = At(s, p)
  /\ shared' = [shared EXCEPT ![s][p] = version[s] + 1]
  /\ pushing' = At(s, p + 1)
  /\ UNCHANGED <<vars, version, held, local, pulling, behaviour>>

CountVersion(s) ==
  /\ lpc = "sync" /\ pushing.sync = s /\ pushing.at \notin Params(s)
  /\ version' = [version EXCEPT ![s] = @ + 1]
  /\ pushing' = Following(s, 1)
  /\ UNCHANGED <<vars, shared, held, local, pulling, behaviour>>

WeightsWritten ==
  /\ pushing = Finished
  /\ EndIteration
  /\ pushing' = At("actor", 1)
  /\ UNCHANGED <<shared, version, held, local, pulling, behaviour>>
-----------------------------------------------------------------------------
Pull == \E s \in Syncs : CheckVersion(s) \/ ReadVersion(s) \/ \E p \in Params(s) : ReadParam(s, p)
Push == \E s \in Syncs : CountVersion(s) \/ \E p \in Params(s) : WriteParam(s, p)

\* the steps of the ring that touch no weights
RingCollector ==
  (LoopTop \/ WriteActing \/ WriteOutcome \/ SignalWriteDone) /\ UNCHANGED weights
RingFaults == (CollectorRaises \/ CollectorKilled \/ UpdateRaises) /\ UNCHANGED weights
RingLearner ==
  /\ \/ NextIteration \/ WaitForData \/ LookAgain \/ SliceEnds \/ BudgetEnds
     \/ ClampToCount \/ CountNew \/ OpenSlot \/ AllStaged \/ CopyCell \/ Stage
     \/ AdvanceRead \/ Update \/ Close \/ Join
  /\ UNCHANGED weights

AppoCollector == RingCollector \/ Pull \/ CollectRollout
AppoLearner == RingLearner \/ Push \/ WeightsWritten

AppoNext == AppoCollector \/ AppoLearner \/ RingFaults \/ (Closed /\ UNCHANGED weights)

allvars == <<vars, weights>>
AppoSpec == AppoInit /\ [][AppoNext]_allvars
-----------------------------------------------------------------------------
\* Each wait of the learner ends: wait_for_data returns after its slice, the loop around
\* it after its budget.  The rest of the loop needs nobody.  Nothing forces the collector
\* to take a step, or a fault to happen.
Fairness ==
  /\ WF_allvars(AppoLearner)
  /\ SF_allvars(SliceEnds /\ UNCHANGED weights) /\ SF_allvars(BudgetEnds /\ UNCHANGED weights)

FairAppoSpec == AppoSpec /\ Fairness
-----------------------------------------------------------------------------
\* The weights the collector runs are at most two versions behind the version it takes
\* them for.  Its read takes no lock and reads the version last, so that it can keep a
\* version whose parameters it missed, and does not read again before the next one
\* (read_weights_into, worker.py "version > local").  That it is two and not more is the
\* ring's doing: no rollout is published during a read, and the learner, which drains
\* the ring every time, runs out of rollouts after the second update.
HeldLag == \A s \in Syncs : \A p \in Params(s) : local[s] - held[s][p] <= 2

\* A rollout enters its first update at most two versions after the one its collector
\* took its actor for: while it was collected the learner finished one update and could
\* begin one more (what the V-trace ratios of process_batch have to correct).
CollectedLag ==
  lpc = "train" => \A r \in 0..newest : r > trained => version["actor"] - behaviour[r] <= 2

\* learn ends and the runner closes, although the collector may stall, die or never
\* produce a rollout (the chunked wait with its liveness check, runner.py:327).
AppoEnds == <>(lpc = "closed")
=============================================================================
