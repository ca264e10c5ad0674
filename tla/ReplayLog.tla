------------------------------ MODULE ReplayLog ------------------------------
(***************************************************************************)
(* What the bounded replay ingress promises its two users, with no slot,   *)
(* semaphore, thread or stream in sight.  The collector publishes chunks   *)
(* of transition rows, at most Depth of which are outstanding; the learner *)
(* commits them, whole, once each, in the order of their publication.      *)
(* ReplayIngress is shown to implement it.                                 *)
(***************************************************************************)
EXTENDS Naturals, Sequences

CONSTANTS
  Depth,      \* chunks that may be published and not yet committed
  SlotRows    \* rows a chunk holds at most

VARIABLES
  pending,    \* row counts of the published, uncommitted chunks, oldest first
  committed   \* rows of the replay the learner may use

logVars == <<pending, committed>>

Init ==
  /\ pending = <<>>
  /\ committed = 0

Publish(rows) ==
  /\ Len(pending) < Depth
  /\ pending' = Append(pending, rows)
  /\ UNCHANGED committed

Commit ==
  /\ pending # <<>>
  /\ committed' = committed + Head(pending)
  /\ pending' = Tail(pending)

Next ==
  \/ \E rows \in 1..SlotRows : Publish(rows)
  \/ Commit

Spec == Init /\ [][Next]_logVars
=============================================================================
