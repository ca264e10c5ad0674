----------------------------- MODULE RolloutRing -----------------------------
(***************************************************************************)
(* The rollout ring of APPO: ipc/tensor_rollout_ring_buffer.py with the    *)
(* collector loop that fills it (algos/appo/worker.py), the learner loop   *)
(* that empties it (algos/appo/runner.py) and the learner's staging pool   *)
(* (algos/appo/staging.py).                                                *)
(*                                                                         *)
(* The collector never waits: it writes rollout after rollout into slot    *)
(* writePtr % NumSlots, over whatever is there.  The learner moves its     *)
(* read pointer up to the oldest rollout of the last NumSlots and copies   *)
(* slots out while the collector goes on.  Nothing but the two pointers is *)
(* shared, and nothing tells the collector which slot is being read.       *)
(*                                                                         *)
(* A rollout is its number.  Of its fields the model keeps the cells the   *)
(* collector fills at different moments: for each step what the policy saw *)
(* and did, then what the environment answered, and the observation after  *)
(* the last step.                                                          *)
(***************************************************************************)
EXTENDS Integers

CONSTANTS
  NumSlots,       \* num_slots
  StepsPerEnv,    \* steps_per_env
  PoolSize,       \* staging_pool_size
  MaxIterations,  \* max_iterations
  MaxRollouts,    \* bound: rollouts the collector starts
  Faults          \* what may fail: "raise" and "kill" of the collector, "update"

ASSUME RolloutAssumption ==
  /\ NumSlots \in Nat \ {0} /\ StepsPerEnv \in Nat \ {0} /\ PoolSize \in Nat \ {0}
  /\ MaxIterations \in Nat /\ MaxRollouts \in Nat

Slots == 0..(NumSlots - 1)
None == -1

\* the cells of a rollout, in the order in which stage_tensor_views copies them:
\* obs, critic, actions and log_probs of each step; rewards, dones and truncated of each
\* step; last_obs and last_critic
Acting(t) == t
Outcome(t) == StepsPerEnv + t
LastObs == 2 * StepsPerEnv + 1
Cells == 1..LastObs
StepCells == 1..(2 * StepsPerEnv)

VARIABLES
  writePtr,   \* _write_ptr, stored by the collector
  readPtr,    \* _read_ptr, stored by the learner
  slots,      \* the rollout each cell of each slot was written for
  stop,       \* stop_event
  cpc, step,  \* next step of the collector, environment step of its rollout
  lpc,        \* next step of the learner
  iteration,
  remaining,  \* rollouts of num_new still to stage
  copied,     \* cells of the current slot copied
  pool,       \* TensorRolloutStagingPool._buffers
  staged,     \* TensorRolloutStagingPool._writes
  newest,     \* history: the rollout staged last
  trained     \* history: the newest rollout at the last update

collector == <<writePtr, slots, cpc, step>>
staging == <<pool, staged, newest>>
learner == <<readPtr, lpc, iteration, remaining, copied, staging, trained>>
vars == <<collector, learner, stop>>

Init ==
  /\ writePtr = 0 /\ readPtr = 0
  /\ slots = [s \in Slots |-> [c \in Cells |-> None]]
  /\ stop = FALSE
  /\ cpc = "top" /\ step = 1
  /\ lpc = "next" /\ iteration = 0 /\ remaining = 0 /\ copied = 0
  /\ pool = [p \in 0..(PoolSize - 1) |-> [c \in Cells |-> None]]
  /\ staged = 0 /\ newest = None /\ trained = None
-----------------------------------------------------------------------------
(***************************************************************************)
(* The ring's arithmetic.                                                  *)
(***************************************************************************)
Oldest == IF writePtr > NumSlots THEN writePtr - NumSlots ELSE 0

\* _clamp_read_ptr_to_valid_window: only the learner stores the read pointer
Clamped == IF readPtr < Oldest THEN Oldest ELSE readPtr

\* available, behind its clamp
Available == IF writePtr - readPtr < NumSlots THEN writePtr - readPtr ELSE NumSlots

WriteSlot == writePtr % NumSlots
ReadSlot == readPtr % NumSlots
NextSlot == staged % PoolSize
ActiveCount == IF staged < PoolSize THEN staged ELSE PoolSize

\* mutant: the pointer stays where it is unless the collector has overtaken it
AdvancedNowhere == Clamped

\* advance_read
AdvancedRead ==
  LET next == IF readPtr < writePtr THEN readPtr + 1 ELSE writePtr
  IN  IF next < Oldest THEN Oldest ELSE next
-----------------------------------------------------------------------------
(***************************************************************************)
(* The collector.                                                          *)
(***************************************************************************)
CollectorAlive == cpc \notin {"exited", "dead"}

LoopTop ==
  /\ cpc = "top"
  /\ cpc' = IF stop THEN "exited" ELSE "pull"
  /\ UNCHANGED <<writePtr, slots, step, learner, stop>>

\* the weights are up to date (module Appo): write_buffer is bound to the write slot
StartRollout ==
  /\ cpc = "pull" /\ writePtr < MaxRollouts
  /\ cpc' = "act" /\ step' = 1
  /\ UNCHANGED <<writePtr, slots, learner, stop>>

Write(cell) == slots' = [slots EXCEPT ![WriteSlot][cell] = writePtr]

WriteActing ==
  /\ cpc = "act"
  /\ Write(Acting(step))
  /\ cpc' = "env"
  /\ UNCHANGED <<writePtr, step, learner, stop>>

\* mutant: the outcome of the last step is left out
WriteOutcomeButLast ==
  /\ cpc = "env"
  /\ IF step < StepsPerEnv
     THEN Write(Outcome(step)) /\ step' = step + 1 /\ cpc' = "act"
     ELSE cpc' = "signal" /\ UNCHANGED <<slots, step>>
  /\ UNCHANGED <<writePtr, learner, stop>>

WriteOutcome ==
  /\ cpc = "env"
  /\ Write(Outcome(step))
  /\ IF step < StepsPerEnv
     THEN step' = step + 1 /\ cpc' = "act"
     ELSE cpc' = "signal" /\ UNCHANGED step
  /\ UNCHANGED <<writePtr, learner, stop>>

SignalWriteDone ==
  /\ cpc = "signal"
  /\ writePtr' = writePtr + 1
  /\ cpc' = "top"
  /\ UNCHANGED <<slots, step, learner, stop>>

\* the policy or the environment raises: stop_event is set on the way out
CollectorRaises ==
  /\ "raise" \in Faults
  /\ cpc \in {"pull", "act", "env"}
  /\ cpc' = "dead" /\ stop' = TRUE
  /\ UNCHANGED <<writePtr, slots, step, learner>>

CollectorKilled ==
  /\ "kill" \in Faults
  /\ CollectorAlive
  /\ cpc' = "dead"
  /\ UNCHANGED <<writePtr, slots, step, learner, stop>>

Collector == LoopTop \/ StartRollout \/ WriteActing \/ WriteOutcome \/ SignalWriteDone
-----------------------------------------------------------------------------
(***************************************************************************)
(* The learner.                                                            *)
(***************************************************************************)
NextIteration ==
  /\ lpc = "next"
  /\ IF iteration < MaxIterations
     THEN iteration' = iteration + 1 /\ lpc' = "wait"
     ELSE lpc' = "done" /\ UNCHANGED iteration
  /\ UNCHANGED <<collector, readPtr, remaining, copied, staging, trained, stop>>

\* one look of wait_for_data, which clamps first
WaitForData ==
  /\ lpc = "wait"
  /\ readPtr' = Clamped
  /\ lpc' = IF Clamped < writePtr THEN "clamp" ELSE "empty"
  /\ UNCHANGED <<collector, iteration, remaining, copied, staging, trained, stop>>

\* nothing there yet: wait_for_data looks again a millisecond later ...
LookAgain ==
  /\ lpc = "empty"
  /\ lpc' = "wait"
  /\ UNCHANGED <<collector, readPtr, iteration, remaining, copied, staging, trained, stop>>

\* ... or its slice is over, and the collector is looked at ...
SliceEnds ==
  /\ lpc = "empty"
  /\ lpc' = IF CollectorAlive THEN "wait" ELSE "raised"
  /\ UNCHANGED <<collector, readPtr, iteration, remaining, copied, staging, trained, stop>>

\* mutant: an iteration without data is waited for again
BudgetNever ==
  /\ lpc = "empty" /\ CollectorAlive
  /\ lpc' = "wait"
  /\ UNCHANGED <<collector, readPtr, iteration, remaining, copied, staging, trained, stop>>

\* mutant: an iteration without data trains on the pool as it is
BudgetTrains ==
  /\ lpc = "empty" /\ CollectorAlive
  /\ lpc' = "train"
  /\ UNCHANGED <<collector, readPtr, iteration, remaining, copied, staging, trained, stop>>

\* ... or the budget of the iteration is used up with the last slice, and the iteration
\* is given up
BudgetEnds ==
  /\ lpc = "empty" /\ CollectorAlive
  /\ lpc' = "next"
  /\ UNCHANGED <<collector, readPtr, iteration, remaining, copied, staging, trained, stop>>

\* available clamps, and counts what the collector may have added to in the meantime
ClampToCount ==
  /\ lpc = "clamp"
  /\ readPtr' = Clamped
  /\ lpc' = "count"
  /\ UNCHANGED <<collector, iteration, remaining, copied, staging, trained, stop>>

\* mutant: num_new is not limited to the slots
CountUnlimited ==
  /\ lpc = "count"
  /\ remaining' = writePtr - readPtr
  /\ lpc' = "open"
  /\ UNCHANGED <<collector, readPtr, iteration, copied, staging, trained, stop>>

\* mutant: one rollout per iteration
CountOne ==
  /\ lpc = "count"
  /\ remaining' = 1
  /\ lpc' = "open"
  /\ UNCHANGED <<collector, readPtr, iteration, copied, staging, trained, stop>>

CountNew ==
  /\ lpc = "count"
  /\ remaining' = Available
  /\ lpc' = "open"
  /\ UNCHANGED <<collector, readPtr, iteration, copied, staging, trained, stop>>

\* read_tensor_views
OpenSlot ==
  /\ lpc = "open" /\ remaining > 0
  /\ readPtr' = Clamped
  /\ copied' = 0
  /\ lpc' = "copy"
  /\ UNCHANGED <<collector, iteration, remaining, staging, trained, stop>>

AllStaged ==
  /\ lpc = "open" /\ remaining = 0
  /\ lpc' = "train"
  /\ UNCHANGED <<collector, readPtr, iteration, remaining, copied, staging, trained, stop>>

CopyCell ==
  /\ lpc = "copy" /\ copied < LastObs
  /\ pool' = [pool EXCEPT ![NextSlot][copied + 1] = slots[ReadSlot][copied + 1]]
  /\ copied' = copied + 1
  /\ UNCHANGED <<collector, readPtr, lpc, iteration, remaining, staged, newest, trained, stop>>

\* the end of stage_tensor_views
Stage ==
  /\ lpc = "copy" /\ copied = LastObs
  /\ staged' = staged + 1
  /\ newest' = readPtr
  /\ lpc' = "advance"
  /\ UNCHANGED <<collector, readPtr, iteration, remaining, copied, pool, trained, stop>>

AdvanceRead ==
  /\ lpc = "advance"
  /\ readPtr' = AdvancedRead
  /\ remaining' = remaining - 1
  /\ lpc' = "open"
  /\ UNCHANGED <<collector, iteration, copied, staging, trained, stop>>

\* process_batch and update read every active slot of the pool
Update ==
  /\ lpc = "train"
  /\ trained' = newest
  /\ lpc' = "sync"
  /\ UNCHANGED <<collector, readPtr, iteration, remaining, copied, staging, stop>>

\* both sets of weights are written (module Appo)
EndIteration ==
  /\ lpc = "sync"
  /\ lpc' = "next"
  /\ UNCHANGED <<collector, readPtr, iteration, remaining, copied, staging, trained, stop>>

UpdateRaises ==
  /\ "update" \in Faults
  /\ lpc = "train"
  /\ lpc' = "raised"
  /\ UNCHANGED <<collector, readPtr, iteration, remaining, copied, staging, trained, stop>>

\* learn has returned or raised: close sets the event ...
Close ==
  /\ lpc \in {"done", "raised"}
  /\ stop' = TRUE
  /\ lpc' = "join"
  /\ UNCHANGED <<collector, readPtr, iteration, remaining, copied, staging, trained>>

\* ... joins the collector, terminates it if it does not come, and frees the memory
Join ==
  /\ lpc = "join"
  /\ cpc' = IF CollectorAlive THEN "dead" ELSE cpc
  /\ lpc' = "closed"
  /\ UNCHANGED <<writePtr, slots, step, readPtr, iteration, remaining, copied, staging,
                 trained, stop>>

Learner ==
  \/ NextIteration \/ WaitForData \/ LookAgain \/ SliceEnds \/ BudgetEnds
  \/ ClampToCount \/ CountNew \/ OpenSlot \/ AllStaged \/ CopyCell \/ Stage
  \/ AdvanceRead \/ Update \/ EndIteration \/ Close \/ Join

Closed == lpc = "closed" /\ UNCHANGED vars

Next ==
  \/ Collector \/ CollectorRaises \/ CollectorKilled
  \/ Learner \/ UpdateRaises
  \/ Closed

Spec == Init /\ [][Next]_vars
-----------------------------------------------------------------------------
TypeOK ==
  /\ writePtr \in Nat /\ readPtr \in Nat
  /\ slots \in [Slots -> [Cells -> Nat \cup {None}]]
  /\ stop \in BOOLEAN
  /\ cpc \in {"top", "pull", "act", "env", "signal", "exited", "dead"}
  /\ step \in 1..StepsPerEnv
  /\ lpc \in {"next", "wait", "empty", "clamp", "count", "open", "copy", "advance", "train",
              "sync", "done", "raised", "join", "closed"}
  /\ iteration \in 0..MaxIterations
  /\ remaining \in 0..NumSlots /\ copied \in 0..LastObs
  /\ pool \in [0..(PoolSize - 1) -> [Cells -> Nat \cup {None}]]
  /\ staged \in Nat /\ newest \in Nat \cup {None} /\ trained \in Nat \cup {None}

\* The learner never opens a slot that holds no published rollout, although num_new is
\* counted once and the collector keeps moving the window under the loop that uses it
\* (available, read_slot and advance_read clamp independently).
ReadsPublished ==
  /\ lpc = "open" => remaining <= writePtr - Clamped
  /\ lpc \in {"copy", "advance"} => readPtr < writePtr

\* A staged rollout is whole, every step of it from that rollout, unless the collector
\* was NumSlots rollouts ahead of it, and so on its slot again, by the end of the copy.
IntactUnlessLapped ==
  lpc = "copy" /\ writePtr - readPtr < NumSlots =>
    \A c \in StepCells : c <= copied => pool[NextSlot][c] = readPtr

\* No rollout is staged twice and none after a later one: clamping and advancing never
\* move the read pointer back over what was staged (each rollout enters the V-trace
\* targets with the log-probabilities of its own time).
StagedOnceInOrder == [][staged' # staged => newest' > newest]_vars

\* Every update trains on at least one rollout no update has seen: an iteration without
\* data is given up and does not reuse the pool (learn, "if not data_ready: continue").
TrainsOnNewRollout == [][lpc = "train" /\ lpc' = "sync" => trained' > trained]_vars

\* What read_slot hands out is the oldest slot that is not overwritten
\* (tests/ipc/test_tensor_rollout_ring_buffer.py:110-112 reads it back whole, and
\* test_rollout_ring_buffer.py:90 names it so): all its cells are of one rollout.
OpensWholeRollout ==
  lpc = "open" /\ remaining > 0 =>
    \A c \in StepCells : slots[Clamped % NumSlots][c] = Clamped
=============================================================================
