--------------------------- MODULE IngressReceipts ---------------------------
(***************************************************************************)
(* CUDA ingress: how a slot's publication event travels from the collector *)
(* to the learner's copy (ipc/replay_buffer.py, ipc/completion.py,         *)
(* ipc/replay_pipelines/gpu_resident.py).                                  *)
(*                                                                         *)
(* The collector enqueues a chunk's slot writes on its CUDA stream and     *)
(* records an interprocess event after them; the host publishes the chunk  *)
(* while the device may still be writing it.  What keeps the learner's     *)
(* side-stream copy behind those writes is the event, exported through ONE *)
(* shared metadata record that every chunk overwrites, field by field, and *)
(* that the learner imports when it sees a new version.  Chunks, events    *)
(* and versions are all numbered 1, 2, ... in order of publication; ring   *)
(* storage, counts and the two-thread submission are in ReplayIngress.     *)
(***************************************************************************)
EXTENDS Integers, Sequences

CONSTANTS
  Depth,      \* ingress slots
  MaxChunks   \* bound: chunks the collector publishes

VARIABLES
  free, ready,   \* the ingress semaphores
  cpc,           \* the collector's next step
  enqueued,      \* chunks whose slot writes are on the collector's stream
  written,       \* chunks whose slot writes the device has completed
  handle,        \* metadata record: the exported event, 0 while it is being rewritten
  version,       \* metadata record: its version
  spc,           \* the submitting thread's next step
  seen,          \* the version it read
  localVersion,  \* _completion_metadata_local_version
  receipt,       \* _last_completion on the learner's side, 0 for None
  taken,         \* chunks taken by the learner
  copies,        \* side stream: the event each submitted copy waits for
  copied         \* copies the side stream has executed

vars == <<free, ready, cpc, enqueued, written, handle, version, spc, seen,
          localVersion, receipt, taken, copies, copied>>
learnerVars == <<spc, seen, localVersion, receipt, taken, copies, copied>>
collectorVars == <<cpc, enqueued, handle, version>>

Init ==
  /\ free = Depth /\ ready = 0
  /\ cpc = "idle" /\ enqueued = 0 /\ written = 0 /\ handle = 0 /\ version = 0
  /\ spc = "version" /\ seen = 0 /\ localVersion = 0 /\ receipt = 0 /\ taken = 0
  /\ copies = <<>> /\ copied = 0
-----------------------------------------------------------------------------
\* Slot writes and event record are enqueued; nothing waits for the device.
EnqueueSlotWrites ==
  /\ cpc = "idle" /\ free > 0 /\ enqueued < MaxChunks
  /\ free' = free - 1
  /\ enqueued' = enqueued + 1
  /\ cpc' = "clear"
  /\ UNCHANGED <<ready, written, handle, version, learnerVars>>

\* _publish_completion_metadata zeroes the handle bytes, writes them, and
\* increments the version last.
ClearHandle ==
  /\ cpc = "clear"
  /\ handle' = 0
  /\ cpc' = "store"
  /\ UNCHANGED <<free, ready, enqueued, written, version, learnerVars>>

StoreHandle ==
  /\ cpc = "store"
  /\ handle' = enqueued
  /\ cpc' = "bump"
  /\ UNCHANGED <<free, ready, enqueued, written, version, learnerVars>>

BumpVersion ==
  /\ cpc = "bump"
  /\ version' = version + 1
  /\ cpc' = "signal"
  /\ UNCHANGED <<free, ready, enqueued, written, handle, learnerVars>>

SignalReady ==
  /\ cpc = "signal"
  /\ ready' = ready + 1
  /\ cpc' = "idle"
  /\ UNCHANGED <<free, enqueued, written, handle, version, learnerVars>>

DeviceWrites ==
  /\ written < enqueued
  /\ written' = written + 1
  /\ UNCHANGED <<free, ready, collectorVars, learnerVars>>
-----------------------------------------------------------------------------
\* _submit_new_spans: import_ingress_publication comes first ...
ReadVersion ==
  /\ spc = "version"
  /\ seen' = version
  /\ spc' = IF version = localVersion THEN "take" ELSE "handle"
  /\ UNCHANGED <<free, ready, written, collectorVars, localVersion, receipt, taken,
                 copies, copied>>

\* from_ipc_handle rejects a record that is being rewritten: the daemon ends
ImportHandle ==
  /\ spc = "handle"
  /\ IF handle = 0
     THEN spc' = "failed" /\ UNCHANGED <<localVersion, receipt>>
     ELSE spc' = "take" /\ localVersion' = seen /\ receipt' = handle
  /\ UNCHANGED <<free, ready, written, collectorVars, seen, taken, copies, copied>>

\* ... and take_published_ingress second
TakePublishedIngress ==
  /\ spc = "take" /\ ready > 0
  /\ ready' = ready - 1
  /\ taken' = taken + 1
  /\ spc' = "submit"
  /\ UNCHANGED <<free, written, collectorVars, seen, localVersion, receipt, copies, copied>>

NothingPublished ==
  /\ spc = "take" /\ ready = 0
  /\ spc' = "version"
  /\ UNCHANGED <<free, ready, written, collectorVars, seen, localVersion, receipt,
                 taken, copies, copied>>

\* the side stream waits for last_completion, then copies
SubmitSpanCopy ==
  /\ spc = "submit"
  /\ copies' = Append(copies, receipt)
  /\ spc' = "version"
  /\ UNCHANGED <<free, ready, written, collectorVars, seen, localVersion, receipt,
                 taken, copied>>

\* the copy at the head of the side stream runs once its event has fired; the
\* slot is committed and released
DeviceCopy ==
  /\ copied < Len(copies) /\ written >= copies[copied + 1]
  /\ copied' = copied + 1
  /\ free' = free + 1
  /\ UNCHANGED <<ready, written, collectorVars, spc, seen, localVersion, receipt,
                 taken, copies>>

Next ==
  \/ EnqueueSlotWrites \/ ClearHandle \/ StoreHandle \/ BumpVersion \/ SignalReady
  \/ DeviceWrites
  \/ ReadVersion \/ ImportHandle \/ TakePublishedIngress \/ NothingPublished
  \/ SubmitSpanCopy \/ DeviceCopy

Spec == Init /\ [][Next]_vars
-----------------------------------------------------------------------------
\* No copy reads a slot before the collector's stream has finished writing it: "a
\* CUDA slot is unreadable without a negotiated completion receipt" (_add_to_ingress).
CopyAfterPublication == [][copied' > copied => written >= copied']_vars

\* The receipt is stale by one publication at most: a chunk's copy waits at least for
\* the chunk before it, which was published before its own token was taken
\* (import_ingress_publication ahead of every take_published_ingress).
StaleByOneAtMost == [][copied' > copied => written >= copied' - 1]_vars
=============================================================================
