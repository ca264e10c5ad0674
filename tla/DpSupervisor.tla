---------------------------- MODULE DpSupervisor ----------------------------
(***************************************************************************)
(* The processes of a data-parallel run (ipc/dp_launcher.py) around the    *)
(* learners of DpSync.                                                     *)
(*                                                                         *)
(* Rank 0 is started by the user.  DpRankSupervisor.__enter__ spawns the   *)
(* other ranks, each the leader of a process group that holds its          *)
(* collector; rank 0 then trains like the others, watched over by a        *)
(* thread that polls the children and sends SIGTERM to rank 0 itself when  *)
(* one fails; __exit__ waits for the children, or asks them to stop, and   *)
(* at last ends their groups.                                              *)
(*                                                                         *)
(* A Python signal handler runs between two bytecodes, so a signal waits   *)
(* as long as its rank is blocked in a collective and comes before         *)
(* anything else once it is not.  Time is not modelled: a wait with a      *)
(* timeout may give up whenever what it waits for has not happened.        *)
(***************************************************************************)
EXTENDS DpSync

CONSTANT MaxSignals   \* bound: interrupts by the user

ASSUME SignalAssumption == MaxSignals \in Nat

VARIABLES
  sup,       \* what rank 0's main thread does as a supervisor
  children,  \* _children
  reaped,    \* children whose exit code a poll has seen
  watchdog,  \* the watchdog thread
  stop,      \* _watchdog_stop
  requested, \* _shutdown_requested
  signals,   \* signals a rank has not handled
  groups,    \* children whose group still holds a collector
  failed,    \* ranks __exit__ reports
  sent       \* interrupts so far

processes == <<sup, children, reaped, watchdog, stop, requested, signals, groups, failed, sent>>
dpVars == <<vars, processes>>
learners == <<call, progress, networks, own, mean, statistics, bad>>

Spawned == Ranks \ {0}
Out == {"done", "dead"}   \* the supervisor's end, "dead" without its teardown
GroupExists(r) == pc[r] # "ended" \/ r \in groups
EndedChildren == {r \in children : pc[r] = "ended"}
Failing(s) == {r \in s : code[r] # 0}

DpInit ==
  /\ pc = [r \in Ranks |-> IF r = 0 THEN "start" ELSE "unborn"] /\ LearnersInit
  /\ sup = "spawn" /\ children = {} /\ reaped = {} /\ watchdog = "off" /\ stop = FALSE
  /\ requested = FALSE /\ signals = [r \in Ranks |-> {}] /\ groups = {} /\ failed = {}
  /\ sent = 0

\* Nothing but a signal is next for a rank that has one and can handle it.
Free(r) == signals[r] = {}
Main(label) == sup = label /\ Free(0)
-----------------------------------------------------------------------------
(***************************************************************************)
(* __enter__.  A child exists from Popen on and is known from append on.   *)
(***************************************************************************)
Popen(r) ==
  /\ Main("spawn") /\ pc[r] = "unborn" /\ Ranks \cap (1..(r - 1)) \subseteq children
  /\ Goto(r, "start") /\ groups' = groups \cup {r} /\ sup' = "append"
  /\ UNCHANGED <<learners, outcome, children, reaped, watchdog, stop, requested, signals,
                 failed, sent>>

AppendChild(r) ==
  /\ Main("append") /\ r \notin children /\ pc[r] # "unborn"
  /\ children' = children \cup {r}
  /\ IF children' = Spawned
     THEN sup' = "run" /\ watchdog' = "watching"
     ELSE sup' = "spawn" /\ UNCHANGED watchdog
  /\ UNCHANGED <<vars, reaped, stop, requested, signals, groups, failed, sent>>

\* _request_children_shutdown
RequestChildrenShutdown ==
  /\ requested' = TRUE
  /\ IF requested
     THEN UNCHANGED reaped
     ELSE reaped' = reaped \cup EndedChildren
SignalsAfterRequest ==
  [r \in Ranks |-> IF ~requested /\ r \in children /\ GroupExists(r) /\ pc[r] # "ended"
                   THEN signals[r] \cup {"int"} ELSE signals[r]]

\* Popen raises: what has been spawned is taken down.
PopenFails ==
  /\ "raise" \in Faults /\ failures < MaxFaults /\ Main("spawn")
  /\ failures' = failures + 1
  /\ Goto(0, "ended") /\ code' = [code EXCEPT ![0] = 1]
  /\ RequestChildrenShutdown /\ signals' = SignalsAfterRequest
  /\ sup' = "grace"
  /\ UNCHANGED <<learners, children, watchdog, stop, groups, failed, sent>>
-----------------------------------------------------------------------------
(***************************************************************************)
(* _watchdog_loop.  A pass that has begun polls on when stop is set.       *)
(***************************************************************************)
WatchdogPoll(r) ==
  /\ watchdog = "watching" /\ sup \notin Out
  /\ r \in EndedChildren \ reaped
  /\ reaped' = reaped \cup {r}
  /\ IF code[r] = 0
     THEN UNCHANGED <<watchdog, signals>>
     ELSE /\ signals' = [signals EXCEPT ![0] = @ \cup {"term"}]
          /\ watchdog' = "stopped"
  /\ UNCHANGED <<vars, sup, children, stop, requested, groups, failed, sent>>

WatchdogStops ==
  /\ watchdog = "watching" /\ stop
  /\ watchdog' = "stopped"
  /\ UNCHANGED <<vars, sup, children, reaped, stop, requested, signals, groups, failed, sent>>
-----------------------------------------------------------------------------
(***************************************************************************)
(* __exit__.                                                               *)
(***************************************************************************)
LeaveBody ==
  /\ Main("run") /\ pc[0] = "ended"
  /\ sup' = "exit"
  /\ UNCHANGED <<vars, children, reaped, watchdog, stop, requested, signals, groups, failed,
                 sent>>

StopWatchdog ==
  /\ Main("exit")
  /\ stop' = TRUE /\ sup' = "join"
  /\ UNCHANGED <<vars, children, reaped, watchdog, requested, signals, groups, failed, sent>>

JoinWatchdog ==
  /\ Main("join") /\ watchdog = "stopped"
  /\ failed' = Failing(reaped)
  /\ IF code[0] = 0 /\ failed' = {}
     THEN sup' = "finish" /\ UNCHANGED <<reaped, requested, signals>>
     ELSE /\ RequestChildrenShutdown /\ signals' = SignalsAfterRequest
          /\ sup' = "grace"
  /\ UNCHANGED <<vars, children, watchdog, stop, groups, sent>>

\* mutant: only the exit codes known before the wait are looked at
FailedBeforeWait == failed \cup (children \ EndedChildren)
FailedAfterWait == failed \cup (children \ EndedChildren) \cup Failing(EndedChildren)

\* Rank 0 is done: the children have a long time to finish too.
WaitForFinish ==
  /\ Main("finish")
  /\ reaped' = reaped \cup EndedChildren
  /\ failed' = FailedAfterWait
  /\ sup' = "terminate"
  /\ UNCHANGED <<vars, children, watchdog, stop, requested, signals, groups, sent>>

\* Rank 0 or a child failed: a short time to unwind.
WaitForGrace ==
  /\ Main("grace")
  /\ reaped' = reaped \cup EndedChildren
  /\ sup' = "terminate"
  /\ UNCHANGED <<vars, children, watchdog, stop, requested, signals, groups, failed, sent>>

\* mutant: a child that has been reaped is not signalled any more
LiveLeaders == {r \in children : pc[r] # "ended"}
LiveGroups == {r \in children : GroupExists(r)}

\* _terminate_children: SIGTERM to the groups that are left ...
TerminateGroups ==
  /\ Main("terminate")
  /\ signals' = [r \in Ranks |-> IF r \in LiveGroups THEN signals[r] \cup {"term"} ELSE signals[r]]
  /\ sup' = "stopping"
  /\ UNCHANGED <<vars, children, reaped, watchdog, stop, requested, groups, failed, sent>>

\* ... and SIGKILL to those that outlive the wait; every child is reaped.
KillGroups ==
  /\ Main("stopping")
  /\ LET left == LiveGroups IN
       /\ pc' = [r \in Ranks |-> IF r \in left THEN "ended" ELSE pc[r]]
       /\ code' = [r \in Ranks |-> IF r \in left /\ pc[r] # "ended" THEN -9 ELSE code[r]]
       /\ Forget(left) /\ groups' = groups \ left
  /\ reaped' = children
  /\ sup' = "restore"
  /\ UNCHANGED <<bad, failures, children, watchdog, stop, requested, signals, failed, sent>>

RaiseIfFailed ==
  /\ Main("restore")
  /\ code' = [code EXCEPT ![0] = IF failed = {} THEN @ ELSE 1]
  /\ sup' = "done"
  /\ UNCHANGED <<pc, learners, failures, children, reaped, watchdog, stop, requested, signals,
                 groups, failed, sent>>
-----------------------------------------------------------------------------
(***************************************************************************)
(* Signals.                                                                *)
(***************************************************************************)
Interrupt ==
  /\ sent < MaxSignals /\ sup \notin Out
  /\ sent' = sent + 1
  /\ signals' = [signals EXCEPT ![0] = @ \cup {"int"}]
  /\ UNCHANGED <<vars, sup, children, reaped, watchdog, stop, requested, groups, failed>>

\* Where an exception raised by a handler takes rank 0's main thread.
Unwound ==
  CASE sup \in {"spawn", "append"}         -> "grace"
    [] sup = "run" /\ pc[0] # "ended"      -> "run"
    [] sup \in {"join", "finish", "grace"} -> "terminate"
    [] OTHER                               -> "dead"

\* _handle_sigint, _handle_sigterm: the children are told, then the exception unwinds.
HandleSignal(s) ==
  /\ s \in signals[0] /\ call[0] = NoCall /\ sup \notin Out
  /\ RequestChildrenShutdown
  /\ signals' = [SignalsAfterRequest EXCEPT ![0] = @ \ {s}]
  /\ sup' = Unwound
  /\ Leaves(0, IF sup = "run" /\ pc[0] \notin Gone THEN "closing" ELSE "ended", 1)
  /\ UNCHANGED <<failures, children, watchdog, stop, groups, failed, sent>>

\* A child unwinds through its runner.close(); a signal during that cuts it short.
HandleInt(r) ==
  /\ r # 0 /\ "int" \in signals[r] /\ call[r] = NoCall /\ pc[r] # "ended"
  /\ signals' = [signals EXCEPT ![r] = @ \ {"int"}]
  /\ Leaves(r, IF pc[r] = "closing" THEN "ended" ELSE "closing", 1)
  /\ groups' = IF pc[r] = "closing" THEN groups \ {r} ELSE groups
  /\ UNCHANGED <<failures, sup, children, reaped, watchdog, stop, requested, failed, sent>>

\* The children leave SIGTERM to its default, which ends a group wherever it is.
HandleTerm(r) ==
  /\ r # 0 /\ "term" \in signals[r] /\ GroupExists(r)
  /\ signals' = [signals EXCEPT ![r] = {}]
  /\ Leaves(r, "ended", IF pc[r] = "ended" THEN code[r] ELSE -15)
  /\ groups' = groups \ {r}
  /\ UNCHANGED <<failures, sup, children, reaped, watchdog, stop, requested, failed, sent>>

\* A collector that lost its learner ends by its parent watchdog.
OrphanEnds(r) ==
  /\ r \in groups /\ pc[r] = "ended"
  /\ groups' = groups \ {r}
  /\ UNCHANGED <<vars, sup, children, reaped, watchdog, stop, requested, signals, failed, sent>>
-----------------------------------------------------------------------------
\* The learners of DpSync in their processes.
Trains(r) ==
  /\ Learner(r)
  /\ Free(r) /\ (r = 0 => sup = "run")
  /\ groups' = IF pc'[r] = "ended" THEN groups \ {r} ELSE groups
  /\ UNCHANGED <<sup, children, reaped, watchdog, stop, requested, signals, failed, sent>>

Breaks(r) ==
  /\ Raise(r)
  /\ Free(r) /\ (r = 0 => sup = "run")
  /\ UNCHANGED processes

GivesUp(r) == TimesOut(r) /\ UNCHANGED processes

Dies(r) ==
  /\ Kill(r)
  /\ sup \notin Out
  /\ sup' = IF r = 0 THEN "dead" ELSE sup
  /\ UNCHANGED <<children, reaped, watchdog, stop, requested, signals, groups, failed, sent>>

Meets == Collectives /\ UNCHANGED processes

Supervises ==
  \/ \E r \in Spawned : Popen(r) \/ AppendChild(r)
  \/ LeaveBody \/ StopWatchdog \/ JoinWatchdog
  \/ WaitForFinish \/ WaitForGrace \/ TerminateGroups \/ KillGroups \/ RaiseIfFailed
  \/ \E s \in {"int", "term"} : HandleSignal(s)

Process(r) == Trains(r) \/ HandleInt(r) \/ HandleTerm(r) \/ OrphanEnds(r)

AllEnded ==
  /\ sup \in Out /\ groups = {}
  /\ \A r \in Ranks : pc[r] \in {"unborn", "ended"}

\* A rank blocked in a collective spends its time there: that this ends is for
\* EverythingEnds to say.
Waits == (AllEnded \/ \E r \in Ranks : call[r] # NoCall) /\ UNCHANGED dpVars

DpNext ==
  \/ Meets \/ Supervises \/ PopenFails
  \/ WatchdogStops \/ \E r \in Ranks : WatchdogPoll(r)
  \/ Interrupt
  \/ \E r \in Ranks : Process(r) \/ Breaks(r) \/ GivesUp(r) \/ Dies(r)
  \/ Waits

DpSpec == DpInit /\ [][DpNext]_dpVars

\* Threads and processes that can go on do; the process group gives up a call that
\* cannot complete.
DpFairSpec ==
  /\ DpSpec
  /\ WF_dpVars(Meets) /\ WF_dpVars(Supervises)
  /\ WF_dpVars(WatchdogStops) /\ \A r \in Ranks : WF_dpVars(WatchdogPoll(r))
  /\ \A r \in Ranks : WF_dpVars(Process(r)) /\ WF_dpVars(GivesUp(r))
-----------------------------------------------------------------------------
\* When the supervisor has gone through its teardown no process it knows of is left:
\* no rank, and no collector of a rank that died before it could close it
\* (_terminate_children over process groups).
NothingSurvives == sup = "done" => \A r \in children : ~GroupExists(r)

\* Rank 0 exits with 0 only if every rank did, whenever the failing one failed
\* (__exit__ against the watchdog and the polls).
FailureReported == sup = "done" /\ code[0] = 0 => \A r \in Ranks : code[r] = 0

\* However ranks fail, signals arrive or collectives hang, every process ends.
EverythingEnds == <>AllEnded
=============================================================================
