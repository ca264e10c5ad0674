------------------------------- MODULE DpSync -------------------------------
(***************************************************************************)
(* Data-parallel training (ipc/dp_sync.py, the data-parallel parts of      *)
(* offpolicy/double_buffer_runner.py and the update steps of the SAC and   *)
(* FlashSAC learners).                                                     *)
(*                                                                         *)
(* Every rank runs its own learner loop.  The ranks meet in collectives:   *)
(* one startup broadcast, one all-reduce for each optimizer step, and the  *)
(* exchange of the log statistics at the end of an iteration.  Nothing but *)
(* the order of its own calls tells a rank which collective it is in, and  *)
(* a rank that does not come leaves the others blocked until the process   *)
(* group times out.                                                        *)
(*                                                                         *)
(* A loss or a gradient is only finite or not; a network is the number of  *)
(* optimizer steps that reached it.  The collective library is external:   *)
(* it completes a call when every rank has made the same one.              *)
(***************************************************************************)
EXTENDS Integers, Sequences, SequencesExt, FiniteSets, Functions

CONSTANTS
  WorldSize,       \* ranks
  MaxIterations,   \* learner iterations of a run
  UpdatesPerStep,  \* updates of an iteration
  PolicyFrequency, \* critic updates per actor update
  TargetFrequency, \* critic updates per target update
  Gate,            \* what decides whether an optimizer steps
  MaxBad,          \* bound: non-finite losses or gradients in a run
  MaxFaults,       \* bound: failures of ranks in a run
  Faults           \* which: "raise" an exception, "kill" a rank, a "slow" peer

ASSUME DpAssumption ==
  /\ WorldSize \in Nat \ {0, 1}
  /\ MaxIterations \in Nat /\ MaxBad \in Nat /\ MaxFaults \in Nat
  /\ UpdatesPerStep \in Nat \ {0}
  /\ PolicyFrequency \in Nat \ {0} /\ TargetFrequency \in Nat \ {0}
  /\ Gate \in {"sac", "flash", "host"}
  /\ Faults \subseteq {"raise", "kill", "slow"}

Ranks == 0..(WorldSize - 1)
Optimizers == {"critic", "temperature", "actor"}
Fields == {"steps", "episode"}

VARIABLES
  pc,        \* next step of a rank's learner, "unborn" before its process
  iteration, \* iteration, 0 while the learner warms up
  cursor,    \* position in the updates of the iteration
  call,      \* the collective a rank is blocked in
  origin,    \* rank whose initial parameters the networks have
  applied,   \* steps taken by each optimizer
  target,    \* target updates that moved the target network
  finite,    \* _q_update_finite
  own,       \* whether this rank's loss and gradients are non-finite
  mean,      \* what the gradient all-reduce returned
  schema,    \* _statistics_schema
  gathered,  \* fields received by _gather_statistics_schemas
  source,    \* rank it receives from next
  shown,     \* the logger's statistics: steps, and an episode length
  saved,     \* _local_logger_statistics
  latest,    \* the last episode length the rank's own collector reported
  code,      \* exit code, -1 while the process runs
  bad,       \* non-finite values so far
  failures   \* failures so far

networks == <<origin, applied, target, finite>>
statistics == <<schema, gathered, source, shown, saved, latest>>
progress == <<iteration, cursor>>
outcome == <<code, failures>>
vars == <<pc, progress, call, networks, own, mean, statistics, outcome, bad>>

NoCall == [kind |-> "none", of |-> "none", width |-> 0]
Finite == [loss |-> FALSE, gradients |-> FALSE]
NoEpisode == [sum |-> 0, count |-> 0]
NoStatistics == [steps |-> 0, episode |-> NoEpisode]
NotSaved == [steps |-> -1, episode |-> NoEpisode]
Untrained == [o \in Optimizers |-> 0]
Gone == {"closing", "ended"}

\* The steps of one update, in the order the learner takes them.
Update(idx) ==
  (IF Gate = "flash" THEN <<"critic">> ELSE <<"critic", "temperature">>)
    \o (IF idx % PolicyFrequency # 0 THEN <<>>
        ELSE IF Gate = "flash" THEN <<"actor", "temperature">> ELSE <<"actor">>)
    \o (IF idx % TargetFrequency = 0 THEN <<"target">> ELSE <<>>)
Updates == FlattenSeq([i \in 1..UpdatesPerStep |-> Update(i - 1)])

SumOver(f) == FoldFunction(+, 0, f)


LearnersInit ==
  /\ iteration = [r \in Ranks |-> 0] /\ cursor = [r \in Ranks |-> 1]
  /\ call = [r \in Ranks |-> NoCall]
  /\ origin = [r \in Ranks |-> r]
  /\ applied = [r \in Ranks |-> Untrained]
  /\ target = [r \in Ranks |-> 0] /\ finite = [r \in Ranks |-> TRUE]
  /\ own = [r \in Ranks |-> Finite] /\ mean = [r \in Ranks |-> Finite]
  /\ schema = [r \in Ranks |-> {}] /\ gathered = [r \in Ranks |-> {}]
  /\ source = [r \in Ranks |-> 0]
  /\ shown = [r \in Ranks |-> NoStatistics] /\ saved = [r \in Ranks |-> NotSaved]
  /\ latest = [r \in Ranks |-> NoEpisode]
  /\ code = [r \in Ranks |-> -1] /\ bad = 0 /\ failures = 0
Init == pc = [r \in Ranks |-> "start"] /\ LearnersInit
-----------------------------------------------------------------------------
(***************************************************************************)
(* Collectives.  Enter posts a rank's call; the call completes for all the *)
(* ranks at once when they have all made it.                               *)
(***************************************************************************)
At(r, label) == pc[r] = label /\ call[r] = NoCall
Goto(r, label) == pc' = [pc EXCEPT ![r] = label]
Enter(r, kind, of, width) ==
  call' = [call EXCEPT ![r] = [kind |-> kind, of |-> of, width |-> width]]
AllIn(kind) == \A r \in Ranks : call[r] = call[0] /\ call[r].kind = kind
Leave(label) ==
  /\ call' = [r \in Ranks |-> NoCall]
  /\ pc' = [r \in Ranks |-> label]

EnterInit(r) ==
  /\ At(r, "start")
  /\ Enter(r, "init", "none", 0)
  /\ UNCHANGED <<pc, progress, networks, own, mean, statistics, outcome, bad>>

BroadcastFromRank0 ==
  /\ AllIn("init") /\ Leave("update")
  /\ origin' = [r \in Ranks |-> origin[0]]
  /\ UNCHANGED <<progress, applied, target, finite, own, mean, statistics, outcome, bad>>
-----------------------------------------------------------------------------
(***************************************************************************)
(* One optimizer step: the loss and its gradients, the all-reduce, and the *)
(* decision to apply it.                                                   *)
(***************************************************************************)
Step(r) == Updates[cursor[r]]
Updating(r) == At(r, "update") /\ cursor[r] \in DOMAIN Updates
Updated(r) == At(r, "update") /\ cursor[r] \notin DOMAIN Updates

\* The rank's loss and gradients, and the call it makes.  With host checks a rank
\* whose loss is not finite makes none.
Backward(r) ==
  \E l, g \in BOOLEAN :
    /\ Updating(r) /\ Step(r) # "target"
    /\ (l \/ g) => bad < MaxBad
    /\ bad' = IF l \/ g THEN bad + 1 ELSE bad
    /\ own' = [own EXCEPT ![r] = [loss |-> l, gradients |-> g]]
    /\ IF Gate = "host" /\ l
       THEN cursor' = [cursor EXCEPT ![r] = @ + 1] /\ UNCHANGED call
       ELSE Enter(r, "gradients", Step(r), 0) /\ UNCHANGED cursor
    /\ UNCHANGED <<pc, iteration, networks, mean, statistics, outcome>>

\* mutant: the validity of the losses is not part of the payload
ReduceGradientsOnly ==
  /\ AllIn("gradients") /\ Leave("step")
  /\ mean' = [r \in Ranks |-> [loss |-> own[r].loss,
                               gradients |-> \E s \in Ranks : own[s].gradients]]
  /\ UNCHANGED <<progress, networks, own, statistics, outcome, bad>>

AllreduceGradients ==
  /\ AllIn("gradients") /\ Leave("step")
  /\ mean' = [r \in Ranks |-> [loss |-> \E s \in Ranks : own[s].loss,
                               gradients |-> \E s \in Ranks : own[s].gradients]]
  /\ UNCHANGED <<progress, networks, own, statistics, outcome, bad>>

FoundInf(r) ==
  CASE Gate = "sac"   -> mean[r].loss \/ mean[r].gradients
    [] Gate = "flash" -> own[r].loss \/ mean[r].gradients
    [] Gate = "host"  -> FALSE

StepOptimizer(r) ==
  /\ At(r, "step") /\ Goto(r, "update")
  /\ applied' = [applied EXCEPT ![r][Step(r)] = IF FoundInf(r) THEN @ ELSE @ + 1]
  /\ finite' = IF Step(r) = "critic" THEN [finite EXCEPT ![r] = ~FoundInf(r)] ELSE finite
  /\ cursor' = [cursor EXCEPT ![r] = @ + 1]
  /\ UNCHANGED <<iteration, call, origin, target, own, mean, statistics, outcome, bad>>

SoftUpdateTarget(r) ==
  /\ Updating(r) /\ Step(r) = "target"
  /\ target' = [target EXCEPT ![r] = IF finite[r] THEN @ + 1 ELSE @]
  /\ cursor' = [cursor EXCEPT ![r] = @ + 1]
  /\ UNCHANGED <<pc, iteration, call, origin, applied, finite, own, mean, statistics,
                 outcome, bad>>

\* The learner warms up with one iteration of updates and restores what it was.
FinishWarmup(r) ==
  /\ Updated(r) /\ iteration[r] = 0
  /\ Goto(r, "top")
  /\ applied' = [applied EXCEPT ![r] = Untrained]
  /\ target' = [target EXCEPT ![r] = 0] /\ finite' = [finite EXCEPT ![r] = TRUE]
  /\ UNCHANGED <<progress, call, origin, own, mean, statistics, outcome, bad>>
-----------------------------------------------------------------------------
(***************************************************************************)
(* The statistics of an iteration: _aggregate_log_statistics and           *)
(* allreduce_statistics.                                                   *)
(***************************************************************************)
FieldsOf(s) == IF s.episode.count > 0 THEN Fields ELSE {"steps"}

\* The logger's counters are synchronised with the replay, then kept aside.
Snapshot(r) ==
  LET now == [shown[r] EXCEPT !.steps = iteration[r]] IN
  /\ shown' = [shown EXCEPT ![r] = now]
  /\ saved' = [saved EXCEPT ![r] = now]

EnterChanged(r) ==
  /\ Updated(r) /\ iteration[r] > 0
  /\ Goto(r, "report")
  /\ Snapshot(r)
  /\ Enter(r, "changed", "none", 0)
  /\ UNCHANGED <<progress, networks, own, mean, schema, gathered, source, latest,
                 outcome, bad>>

SchemaChanged(r) == FieldsOf(saved[r]) \ schema[r] # {}

\* mutant: a rank whose own fields are all known skips the exchange
ReduceChangedLocally ==
  /\ AllIn("changed")
  /\ call' = [r \in Ranks |-> NoCall]
  /\ pc' = [r \in Ranks |-> IF SchemaChanged(r) THEN "schema" ELSE "pack"]
  /\ source' = [r \in Ranks |-> 0] /\ gathered' = [r \in Ranks |-> {}]
  /\ UNCHANGED <<progress, networks, own, mean, schema, shown, saved, latest, outcome, bad>>

ReduceChanged ==
  /\ AllIn("changed")
  /\ Leave(IF \E r \in Ranks : SchemaChanged(r) THEN "schema" ELSE "pack")
  /\ source' = [r \in Ranks |-> 0] /\ gathered' = [r \in Ranks |-> {}]
  /\ UNCHANGED <<progress, networks, own, mean, schema, shown, saved, latest, outcome, bad>>

\* One broadcast stands for the size and the bytes of a rank's fields.
EnterSchema(r) ==
  /\ At(r, "schema")
  /\ Enter(r, "schema", "none", source[r])
  /\ UNCHANGED <<pc, progress, networks, own, mean, statistics, outcome, bad>>

BroadcastSchema ==
  LET s == call[0].width
      received == [r \in Ranks |-> gathered[r] \cup FieldsOf(saved[s])] IN
  /\ AllIn("schema")
  /\ gathered' = received
  /\ source' = [r \in Ranks |-> s + 1]
  /\ IF s + 1 < WorldSize
     THEN Leave("schema") /\ UNCHANGED schema
     ELSE Leave("pack") /\ schema' = [r \in Ranks |-> schema[r] \cup received[r]]
  /\ UNCHANGED <<progress, networks, own, mean, shown, saved, latest, outcome, bad>>

EnterPacked(r) ==
  /\ At(r, "pack")
  /\ Enter(r, "packed", "none", Cardinality(schema[r]))
  /\ UNCHANGED <<pc, progress, networks, own, mean, statistics, outcome, bad>>

\* Sums and means over the ranks that supplied the field.
Aggregate ==
  [steps |-> SumOver([r \in Ranks |-> shown[r].steps]),
   episode |-> [sum |-> SumOver([r \in Ranks |-> shown[r].episode.sum]),
                count |-> Cardinality({r \in Ranks : shown[r].episode.count > 0})]]

ReducePacked ==
  /\ AllIn("packed") /\ Leave("top")
  /\ shown' = [r \in Ranks |-> Aggregate]
  /\ UNCHANGED <<progress, networks, own, mean, schema, gathered, source, saved, latest,
                 outcome, bad>>
-----------------------------------------------------------------------------
(***************************************************************************)
(* The learner loop around them, and the ends of a rank.                   *)
(***************************************************************************)
\* mutant: the aggregate stays in the logger
RestoreNothing(r) == shown[r]

RestoreLocal(r) == IF saved[r] = NotSaved THEN shown[r] ELSE saved[r]

\* A report of the collector that is drained now: its own episode length.
Report(r) == [sum |-> r + iteration[r] + 1, count |-> 1]
Drain(r, before) ==
  \/ /\ shown' = [shown EXCEPT ![r] = before] /\ UNCHANGED latest
  \/ /\ shown' = [shown EXCEPT ![r] = [before EXCEPT !.episode = Report(r)]]
     /\ latest' = [latest EXCEPT ![r] = Report(r)]

Iterate(r) ==
  /\ At(r, "top") /\ iteration[r] < MaxIterations
  /\ Goto(r, "update")
  /\ iteration' = [iteration EXCEPT ![r] = @ + 1] /\ cursor' = [cursor EXCEPT ![r] = 1]
  /\ Drain(r, RestoreLocal(r))
  /\ saved' = [saved EXCEPT ![r] = NotSaved]
  /\ UNCHANGED <<call, networks, own, mean, schema, gathered, source, outcome, bad>>

\* What a process that leaves the loop held in memory is of no more account.
Forget(gone) ==
  LET Reset(f, value) == [r \in Ranks |-> IF r \in gone THEN value ELSE f[r]] IN
  /\ iteration' = Reset(iteration, 0) /\ cursor' = Reset(cursor, 1)
  /\ call' = Reset(call, NoCall)
  /\ origin' = Reset(origin, 0) /\ applied' = Reset(applied, Untrained)
  /\ target' = Reset(target, 0) /\ finite' = Reset(finite, TRUE)
  /\ own' = Reset(own, Finite) /\ mean' = Reset(mean, Finite)
  /\ schema' = Reset(schema, {}) /\ gathered' = Reset(gathered, {})
  /\ source' = Reset(source, 0)
  /\ shown' = Reset(shown, NoStatistics) /\ saved' = Reset(saved, NotSaved)
  /\ latest' = Reset(latest, NoEpisode)

Leaves(r, label, status) ==
  /\ Goto(r, label) /\ code' = [code EXCEPT ![r] = status]
  /\ Forget({r}) /\ UNCHANGED bad

Finalize(r) ==
  /\ At(r, "top") /\ iteration[r] = MaxIterations
  /\ Leaves(r, "closing", 0) /\ UNCHANGED failures

Raise(r) ==
  /\ "raise" \in Faults /\ failures < MaxFaults
  /\ pc[r] \notin Gone \cup {"unborn"} /\ call[r] = NoCall
  /\ Leaves(r, "closing", 1) /\ failures' = failures + 1

\* mutant: a peer that has ended is waited for without limit
Disagree(r) == \E s \in Ranks : call[s] # NoCall /\ call[s] # call[r]

\* A peer has left the group, is in another collective, or is late.
Hopeless(r) ==
  \/ "slow" \in Faults
  \/ \E s \in Ranks : pc[s] \in Gone \/ (call[s] # NoCall /\ call[s] # call[r])

\* The process group gives a blocked call up after timeout_s.
TimesOut(r) ==
  /\ call[r] # NoCall /\ Hopeless(r)
  /\ Leaves(r, "closing", 1) /\ UNCHANGED failures

Kill(r) ==
  /\ "kill" \in Faults /\ failures < MaxFaults
  /\ pc[r] \notin {"unborn", "ended"}
  /\ Leaves(r, "ended", -9) /\ failures' = failures + 1

Close(r) ==
  /\ pc[r] = "closing" /\ Goto(r, "ended")
  /\ UNCHANGED <<progress, call, networks, own, mean, statistics, outcome, bad>>

Collectives ==
  \/ BroadcastFromRank0 \/ AllreduceGradients
  \/ ReduceChanged \/ BroadcastSchema \/ ReducePacked

Learner(r) ==
  \/ EnterInit(r) \/ Backward(r) \/ StepOptimizer(r) \/ SoftUpdateTarget(r)
  \/ FinishWarmup(r) \/ EnterChanged(r) \/ EnterSchema(r) \/ EnterPacked(r)
  \/ Iterate(r) \/ Finalize(r) \/ Close(r)

Failures(r) == Raise(r) \/ TimesOut(r) \/ Kill(r)

Ended == \A r \in Ranks : pc[r] = "ended"
Next ==
  \/ Collectives
  \/ \E r \in Ranks : Learner(r) \/ Failures(r)
  \/ Ended /\ UNCHANGED vars

Spec == Init /\ [][Next]_vars
-----------------------------------------------------------------------------
\* A rank's place, its iteration and its position in the updates.
TypeOK ==
  \A r \in Ranks :
    /\ pc[r] \in {"unborn", "start", "update", "step", "report", "schema", "pack", "top"}
                   \cup Gone
    /\ iteration[r] \in 0..MaxIterations /\ cursor[r] \in Nat \ {0}

\* Two ranks that wait in a collective wait in the same one: no rank's data, loss or
\* schema makes it take another way through the calls than its peers
\* (allreduce_gradients, allreduce_statistics and their callers).
CollectivesMatch ==
  \A r, s \in Ranks : call[r] # NoCall /\ call[s] # NoCall => call[r] = call[s]

\* After the warm-up ranks that have finished the same number of steps have the same networks: an
\* optimizer step is applied by all or by none, whatever one rank's loss was
\* (_sync_loss_gradients, _arm_optimizer_finite_gate, soft_update_target).
SamePlace(r, s) ==
  /\ pc[r] = pc[s] /\ pc[r] \notin Gone \cup {"unborn", "start"}
  /\ iteration[r] = iteration[s] /\ cursor[r] = cursor[s] /\ iteration[r] > 0
ReplicasAgree ==
  \A r, s \in Ranks :
    SamePlace(r, s) =>
      origin[r] = origin[s] /\ applied[r] = applied[s] /\ target[r] = target[s]

\* What every rank's logger shows after the exchange is made of each rank's own
\* counters and last report, each once, however rarely reports come
\* (_aggregate_log_statistics, _restore_local_logger_statistics).
StatisticsAreGlobal ==
  [][\A r \in Ranks :
       call[r].kind = "packed" /\ call'[r] = NoCall /\ pc'[r] = "top" =>
         /\ shown'[r].steps = SumOver(iteration)
         /\ shown'[r].episode.sum = SumOver([s \in Ranks |-> latest[s].sum])
         /\ shown'[r].episode.count = Cardinality({s \in Ranks : latest[s].count > 0})]_vars
=============================================================================
