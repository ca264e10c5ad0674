---------------------------- MODULE ReplayIngress ----------------------------
(***************************************************************************)
(* The bounded replay ingress (ipc/replay_buffer.py) and the device copies *)
(* that consume it (ipc/replay_pipelines/gpu_resident.py).                 *)
(*                                                                         *)
(* The collector process packs each vector of NumEnvs transition rows into *)
(* chunks of at most SlotRows rows and writes each chunk into one of Depth *)
(* shared slots.  The learner process owns two threads that consume slots, *)
(* the sync daemon and the learner thread itself, under one submission     *)
(* lock: a published slot is copied on a side stream into a device ring of *)
(* Capacity rows, and the slot is released when that copy is observed      *)
(* complete.  Two semaphores (free, ready) and a handful of shared         *)
(* integers, stored one at a time, are all the processes have in common.   *)
(*                                                                         *)
(* A row is represented by its position in the stream of rows the          *)
(* collector produced.                                                     *)
(***************************************************************************)
EXTENDS Integers, Sequences

CONSTANTS
  Depth,        \* ingress slots
  SlotRows,     \* rows of a slot
  Capacity,     \* rows of the device ring
  NumEnvs,      \* rows of a collector vector
  MaxVectors,   \* bound: vectors the collector offers
  Faults        \* which failures may happen: "kill" the collector, fail the "daemon"

ASSUME IngressAssumption ==
  /\ Depth \in Nat \ {0}
  /\ SlotRows \in Nat \ {0}
  /\ Capacity \in Nat \ {0}
  /\ SlotRows <= Capacity
  /\ NumEnvs \in Nat \ {0}
  /\ MaxVectors \in Nat
  /\ Faults \subseteq {"kill", "daemon"}

Threads == {"daemon", "learner"}
Slots == 0..(Depth - 1)

VARIABLES
  \* shared between the processes
  free,          \* _ingress_free
  ready,         \* _ingress_ready
  closed,        \* _ingress_closed
  stop,          \* the runner's stop event
  slots,         \* _ingress_slots: [first, rows, patched]
  starts,        \* _ingress_starts
  counts,        \* _ingress_counts
  publishedPtr,  \* _published_ptr
  publishSeq,    \* _ingress_publish_seq
  releaseSeq,    \* _ingress_release_seq and its shared copy
  highWater,     \* _ingress_high_water
  \* the collector
  cpc,           \* its next step inside add_batch
  vectors,       \* vectors started
  left,          \* rows of the current vector not yet published
  \* the learner process
  tpc,           \* next step of each thread
  op,            \* what the learner thread is doing: "none", "read" or "close"
  lock,          \* _submission_lock
  consumeSeq,    \* _ingress_consume_seq
  taken,         \* the slot the lock's holder took and has not submitted
  spans,         \* _span_events, with the sequence number of each span's chunk
  copied,        \* how many of them the side stream has completed
  submittedPtr,  \* _submitted_ptr
  visiblePtr,    \* _visible_ptr
  ptr,           \* ReplayBuffer.ptr
  size,          \* ReplayBuffer.size
  storage,       \* _gpu_storage, one row per element
  snapshot,      \* published_snapshot of the last read_committed_fields
  pipelineClosed,\* _closed of the pipeline
  wakeups,       \* tokens close() has still to release
  quiesced,      \* the collector had returned when the pipeline was closed
  fault          \* the error a thread raised, or "none"

collectorVars == <<cpc, vectors, left>>
publication == <<slots, starts, counts, publishedPtr, publishSeq, highWater>>
threadVars == <<tpc, op, lock>>
pipeline == <<consumeSeq, taken, spans, submittedPtr>>
committed == <<visiblePtr, ptr, size, releaseSeq>>
lifecycle == <<pipelineClosed, wakeups, quiesced, fault>>
vars == <<free, ready, closed, stop, collectorVars, publication, threadVars,
          pipeline, copied, committed, storage, snapshot, lifecycle>>

NoSpan == [seq |-> -1, slot |-> 0, start |-> 0, count |-> 0]
Least(a, b) == IF a <= b THEN a ELSE b
Chunk == Least(left, SlotRows)
\* rows the collector has produced before the current chunk
Produced == vectors * NumEnvs - left
WriteSlot == publishSeq % Depth

Init ==
  /\ free = Depth /\ ready = 0 /\ closed = FALSE /\ stop = FALSE
  /\ slots = [s \in Slots |-> [first |-> 0, rows |-> 0, patched |-> TRUE]]
  /\ starts = [s \in Slots |-> 0] /\ counts = [s \in Slots |-> 0]
  /\ publishedPtr = 0 /\ publishSeq = 0 /\ releaseSeq = 0 /\ highWater = 0
  /\ cpc = "idle" /\ vectors = 0 /\ left = 0
  /\ tpc = [t \in Threads |-> IF t = "daemon" THEN "top" ELSE "idle"]
  /\ op = "none" /\ lock = "none"
  /\ consumeSeq = 0 /\ taken = NoSpan /\ spans = <<>> /\ copied = 0
  /\ submittedPtr = 0 /\ visiblePtr = 0 /\ ptr = 0 /\ size = 0
  /\ storage = [i \in 0..(Capacity - 1) |-> -1]
  /\ snapshot = 0
  /\ pipelineClosed = FALSE /\ wakeups = 0 /\ quiesced = FALSE /\ fault = "none"
-----------------------------------------------------------------------------
(***************************************************************************)
(* The collector: ReplayBuffer.add_batch and _add_to_ingress.              *)
(***************************************************************************)
learnerSide == <<threadVars, pipeline, copied, committed, storage, snapshot, lifecycle>>

AddBatch ==
  /\ cpc = "idle" /\ vectors < MaxVectors
  /\ cpc' = "acquire" /\ vectors' = vectors + 1 /\ left' = NumEnvs
  /\ UNCHANGED <<free, ready, closed, stop, publication, learnerSide>>

\* mutant: the token is looked at, not taken
AcquireFreeKept ==
  /\ cpc = "acquire" /\ free > 0
  /\ cpc' = "recheck"
  /\ UNCHANGED <<free, ready, closed, stop, vectors, left, publication, learnerSide>>

AcquireFree ==
  /\ cpc = "acquire" /\ free > 0
  /\ free' = free - 1 /\ cpc' = "recheck"
  /\ UNCHANGED <<ready, closed, stop, vectors, left, publication, learnerSide>>

\* acquire(timeout=0.05) gave up; closed and stop are looked at afterwards
AcquireTimesOut ==
  /\ cpc = "acquire" /\ free = 0
  /\ cpc' = "polled"
  /\ UNCHANGED <<free, ready, closed, stop, vectors, left, publication, learnerSide>>

\* mutant: the polling loop looks at neither flag
PollAgainForever ==
  /\ cpc = "polled"
  /\ cpc' = "acquire"
  /\ UNCHANGED <<free, ready, closed, stop, vectors, left, publication, learnerSide>>

PollAgain ==
  /\ cpc = "polled"
  /\ cpc' = IF closed \/ stop THEN "rejected" ELSE "acquire"
  /\ UNCHANGED <<free, ready, closed, stop, vectors, left, publication, learnerSide>>

\* mutant: the second look at _ingress_closed is missing
RecheckNothing ==
  /\ cpc = "recheck"
  /\ cpc' = "write"
  /\ UNCHANGED <<free, ready, closed, stop, vectors, left, publication, learnerSide>>

\* a token of close() must not be mistaken for a free slot
RecheckClosed ==
  /\ cpc = "recheck"
  /\ cpc' = IF closed THEN "rejected" ELSE "write"
  /\ UNCHANGED <<free, ready, closed, stop, vectors, left, publication, learnerSide>>

\* a rejected or unusable completion receipt raises before anything is published
WriteFails ==
  /\ cpc \in {"write", "patch", "publish"}
  /\ free' = free + 1 /\ cpc' = "raised"
  /\ UNCHANGED <<ready, closed, stop, vectors, left, publication, learnerSide>>

WriteTransitionRows ==
  /\ cpc = "write"
  /\ slots' = [slots EXCEPT ![WriteSlot] =
                 [first |-> Produced, rows |-> Chunk, patched |-> FALSE]]
  /\ cpc' = "patch"
  /\ UNCHANGED <<free, ready, closed, stop, vectors, left, starts, counts,
                 publishedPtr, publishSeq, highWater, learnerSide>>

PatchTerminalNextObservations ==
  /\ cpc = "patch"
  /\ slots' = [slots EXCEPT ![WriteSlot].patched = TRUE]
  /\ cpc' = "publish"
  /\ UNCHANGED <<free, ready, closed, stop, vectors, left, starts, counts,
                 publishedPtr, publishSeq, highWater, learnerSide>>

PublishSpan ==
  /\ cpc = "publish"
  /\ starts' = [starts EXCEPT ![WriteSlot] = publishedPtr]
  /\ counts' = [counts EXCEPT ![WriteSlot] = Chunk]
  /\ publishedPtr' = publishedPtr + Chunk
  /\ cpc' = "sequence"
  /\ UNCHANGED <<free, ready, closed, stop, vectors, left, slots, publishSeq,
                 highWater, learnerSide>>

PublishSequence ==
  /\ cpc = "sequence"
  /\ publishSeq' = publishSeq + 1
  /\ LET occupancy == publishSeq + 1 - releaseSeq
     IN  highWater' = IF occupancy > highWater THEN occupancy ELSE highWater
  /\ cpc' = "signal"
  /\ UNCHANGED <<free, ready, closed, stop, vectors, left, slots, starts, counts,
                 publishedPtr, learnerSide>>

\* mutant: the chunk is published and its consumer is not told
SignalForgotten ==
  /\ cpc = "signal"
  /\ left' = left - Chunk
  /\ cpc' = IF left = Chunk THEN "idle" ELSE "acquire"
  /\ UNCHANGED <<free, ready, closed, stop, vectors, publication, learnerSide>>

SignalReady ==
  /\ cpc = "signal"
  /\ ready' = ready + 1
  /\ left' = left - Chunk
  /\ cpc' = IF left = Chunk THEN "idle" ELSE "acquire"
  /\ UNCHANGED <<free, closed, stop, vectors, publication, learnerSide>>

\* the worker's loop ends on the stop event, or because add_batch returned False
CollectorExits ==
  /\ (cpc = "idle" /\ stop) \/ cpc = "rejected"
  /\ cpc' = "exited"
  /\ UNCHANGED <<free, ready, closed, stop, vectors, left, publication, learnerSide>>

\* SIGTERM after a join timeout, SIGKILL, an OOM kill: between any two steps
CollectorKilled ==
  /\ "kill" \in Faults
  /\ cpc \notin {"exited", "raised", "killed"}
  /\ cpc' = "killed"
  /\ UNCHANGED <<free, ready, closed, stop, vectors, left, publication, learnerSide>>

Collector ==
  \/ AcquireFree \/ AcquireTimesOut \/ PollAgain \/ RecheckClosed
  \/ WriteTransitionRows \/ PatchTerminalNextObservations
  \/ PublishSpan \/ PublishSequence \/ SignalReady \/ CollectorExits
-----------------------------------------------------------------------------
(***************************************************************************)
(* The consumers, under the submission lock: _submit_new_spans,            *)
(* _submit_span_copy, _drain_completed_spans and commit_ingress.           *)
(***************************************************************************)
collectorSide == <<closed, stop, collectorVars, publication>>

Lock(t, from, to) ==
  /\ tpc[t] = from /\ lock = "none"
  /\ lock' = t
  /\ tpc' = [tpc EXCEPT ![t] = to]

Unlock(t, from, to) ==
  /\ tpc[t] = from
  /\ lock' = "none"
  /\ tpc' = [tpc EXCEPT ![t] = to]

\* an exception ends the daemon and propagates from the learner's call, except that
\* the pipeline's close() swallows it
AfterRaise(t) ==
  IF t = "daemon" THEN "exit" ELSE IF op = "close" THEN "closeBuffer" ELSE "raised"

TakePublishedIngress(t) ==
  /\ tpc[t] = "submit" /\ ready > 0
  /\ ready' = ready - 1
  /\ LET slot == consumeSeq % Depth
     IN  taken' = [seq |-> consumeSeq, slot |-> slot,
                   start |-> starts[slot], count |-> counts[slot]]
  /\ consumeSeq' = consumeSeq + 1
  /\ tpc' = [tpc EXCEPT ![t] = "copy"]
  /\ UNCHANGED <<free, collectorSide, op, lock, spans, submittedPtr, copied,
                 committed, storage, snapshot, lifecycle>>

SubmitSpanCopy(t) ==
  /\ tpc[t] = "copy" /\ taken.start = submittedPtr
  /\ spans' = Append(spans, taken)
  /\ submittedPtr' = taken.start + taken.count
  /\ taken' = NoSpan
  /\ tpc' = [tpc EXCEPT ![t] = "submit"]
  /\ UNCHANGED <<free, ready, collectorSide, op, lock, consumeSeq, copied,
                 committed, storage, snapshot, lifecycle>>

\* an exception inside _submit_new_spans: the token is gone, the span is not recorded
Raise(t, error) ==
  /\ Unlock(t, "copy", AfterRaise(t))
  /\ taken' = NoSpan
  /\ fault' = error
  /\ UNCHANGED <<free, ready, collectorSide, op, consumeSeq, spans, submittedPtr,
                 copied, committed, storage, snapshot, pipelineClosed, wakeups, quiesced>>

RejectGap(t) == taken.start # submittedPtr /\ Raise(t, "gap")
\* an import, a wait or a copy raised (after ReplayBuffer.close also: the slots are gone)
DaemonFails == ("daemon" \in Faults \/ closed) /\ Raise("daemon", "daemon")

\* mutant: returns from _submit_new_spans with the lock held
NothingPublishedLocked(t) ==
  /\ ready = 0 /\ tpc[t] = "submit"
  /\ tpc' = [tpc EXCEPT ![t] = IF t = "daemon" THEN "top"
                               ELSE IF op = "read" THEN "read" ELSE "closeSync"]
  /\ UNCHANGED <<free, ready, collectorSide, op, lock, pipeline, copied, committed,
                 storage, snapshot, lifecycle>>

NothingPublished(t) ==
  /\ ready = 0
  /\ Unlock(t, "submit", IF t = "daemon" THEN "top"
                         ELSE IF op = "read" THEN "read" ELSE "closeSync")
  /\ UNCHANGED <<free, ready, collectorSide, op, pipeline, copied, committed,
                 storage, snapshot, lifecycle>>

\* _ring_spans: which of the span's rows belongs at offset i of the ring, if below count
\* (the mutant drops the part that wraps around)
RowAtUnwrapped(span, i) ==
  IF i >= span.start % Capacity THEN i - (span.start % Capacity) ELSE Capacity
RowAt(span, i) == (i - span.start) % Capacity

\* the side stream finishes the oldest incomplete copy
DeviceCopy ==
  /\ copied < Len(spans)
  /\ LET span == spans[copied + 1]
         source == slots[span.slot]
     IN  storage' = [i \in DOMAIN storage |->
                       LET k == RowAt(span, i)
                       IN  IF k >= span.count THEN storage[i]
                           ELSE IF source.patched /\ k < source.rows
                                THEN source.first + k ELSE -1]
  /\ copied' = copied + 1
  /\ UNCHANGED <<free, ready, collectorSide, threadVars, pipeline, committed,
                 snapshot, lifecycle>>

\* the buffer's size once it holds the rows before end
CommittedSize(end) == Least(end, Capacity)

\* commit_ingress up to its last statement; a span out of order raises instead
CommitIngress(t) ==
  /\ tpc[t] = "drain" /\ copied > 0
  /\ spans' = Tail(spans) /\ copied' = copied - 1
  /\ LET span == Head(spans)
     IN  IF span.slot = releaseSeq % Depth /\ span.start = ptr
         THEN /\ ptr' = span.start + span.count
              /\ size' = CommittedSize(span.start + span.count)
              /\ releaseSeq' = releaseSeq + 1
              /\ tpc' = [tpc EXCEPT ![t] = "release"]
              /\ UNCHANGED <<lock, fault>>
         ELSE /\ Unlock(t, "drain", AfterRaise(t))
              /\ fault' = "order"
              /\ UNCHANGED <<ptr, size, releaseSeq>>
  /\ UNCHANGED <<free, ready, collectorSide, op, consumeSeq, taken, submittedPtr,
                 visiblePtr, storage, snapshot, pipelineClosed, wakeups, quiesced>>

\* ... its last statement, and _visible_ptr
ReleaseSlot(t) ==
  /\ tpc[t] = "release"
  /\ free' = free + 1
  /\ visiblePtr' = ptr
  /\ tpc' = [tpc EXCEPT ![t] = "drain"]
  /\ UNCHANGED <<ready, collectorSide, op, lock, pipeline, copied, ptr, size,
                 releaseSeq, storage, snapshot, lifecycle>>

Drained(t) ==
  /\ copied = 0
  /\ Unlock(t, "drain", IF t = "daemon" THEN "between"
                        ELSE IF op = "read" THEN "idle" ELSE "closeBuffer")
  /\ op' = IF t = "learner" /\ op = "read" THEN "none" ELSE op
  /\ UNCHANGED <<free, ready, collectorSide, pipeline, copied, committed,
                 storage, snapshot, lifecycle>>

SubmitOrDrain(t) ==
  \/ TakePublishedIngress(t) \/ SubmitSpanCopy(t) \/ RejectGap(t)
  \/ NothingPublished(t) \/ CommitIngress(t) \/ ReleaseSlot(t) \/ Drained(t)
-----------------------------------------------------------------------------
(***************************************************************************)
(* The sync daemon's loop (_sync_worker; preparing a batch is in           *)
(* ReplayPrepare).                                                         *)
(***************************************************************************)
otherThanThreads == <<free, ready, collectorSide, pipeline, copied, committed, storage,
                      snapshot>>

DaemonDrains ==
  /\ ~pipelineClosed
  /\ Lock("daemon", "top", "drain")
  /\ UNCHANGED <<otherThanThreads, op, lifecycle>>

DaemonSubmits ==
  /\ Lock("daemon", "between", "submit")
  /\ UNCHANGED <<otherThanThreads, op, lifecycle>>

DaemonExits ==
  /\ tpc["daemon"] = "top" /\ pipelineClosed
  /\ tpc' = [tpc EXCEPT !["daemon"] = "exit"]
  /\ UNCHANGED <<otherThanThreads, op, lock, lifecycle>>

(***************************************************************************)
(* The learner thread: read_committed_fields, then the shutdown, which     *)
(* closes the pipeline first and the buffer last.                          *)
(***************************************************************************)
ReadCommittedFields ==
  /\ tpc["learner"] = "idle" /\ ~pipelineClosed
  /\ snapshot' = publishedPtr
  /\ op' = "read"
  /\ tpc' = [tpc EXCEPT !["learner"] = "read"]
  /\ UNCHANGED <<free, ready, collectorSide, lock, pipeline, copied, committed,
                 storage, lifecycle>>

\* mutant: submits without the lock
ReaderSubmitsUnlocked ==
  /\ submittedPtr < snapshot /\ tpc["learner"] = "read"
  /\ tpc' = [tpc EXCEPT !["learner"] = "submit"]
  /\ UNCHANGED <<otherThanThreads, op, lock, lifecycle>>

ReaderSubmits ==
  /\ submittedPtr < snapshot
  /\ Lock("learner", "read", "submit")
  /\ UNCHANGED <<otherThanThreads, op, lifecycle>>

ReaderLocks ==
  /\ submittedPtr >= snapshot
  /\ Lock("learner", "read", "sync")
  /\ UNCHANGED <<otherThanThreads, op, lifecycle>>

\* event.synchronize() on every pending span
Synchronize ==
  /\ tpc["learner"] = "sync" /\ copied = Len(spans)
  /\ tpc' = [tpc EXCEPT !["learner"] = "drain"]
  /\ UNCHANGED <<otherThanThreads, op, lock, lifecycle>>

SetStop ==
  /\ ~stop /\ stop' = TRUE
  /\ UNCHANGED <<free, ready, closed, collectorVars, publication, learnerSide>>

ClosePipeline ==
  /\ tpc["learner"] \in {"idle", "raised"} /\ ~pipelineClosed
  /\ pipelineClosed' = TRUE
  /\ quiesced' = (cpc \in {"exited", "raised"})
  /\ op' = "close"
  /\ tpc' = [tpc EXCEPT !["learner"] = "join"]
  /\ UNCHANGED <<otherThanThreads, lock, wakeups, fault>>

\* mutant: closes with what is submitted already
JoinReturnsLate ==
  /\ Lock("learner", "join", "sync")
  /\ UNCHANGED <<otherThanThreads, op, lifecycle>>

\* join(timeout=2.0) returns whether or not the daemon has ended
JoinReturns ==
  /\ Lock("learner", "join", "submit")
  /\ UNCHANGED <<otherThanThreads, op, lifecycle>>

CloserLocks ==
  /\ Lock("learner", "closeSync", "sync")
  /\ UNCHANGED <<otherThanThreads, op, lifecycle>>

\* ReplayBuffer.close: the flag, then one token per slot
CloseBuffer ==
  /\ tpc["learner"] = "closeBuffer"
  /\ closed' = TRUE /\ wakeups' = Depth
  /\ tpc' = [tpc EXCEPT !["learner"] = "wake"]
  /\ UNCHANGED <<free, ready, stop, collectorVars, publication, op, lock, pipeline,
                 copied, committed, storage, snapshot, pipelineClosed, quiesced, fault>>

WakeProducer ==
  /\ tpc["learner"] = "wake" /\ wakeups > 0
  /\ free' = free + 1 /\ wakeups' = wakeups - 1
  /\ UNCHANGED <<ready, collectorSide, threadVars, pipeline, copied, committed,
                 storage, snapshot, pipelineClosed, quiesced, fault>>

Daemon == DaemonDrains \/ DaemonSubmits \/ DaemonExits \/ SubmitOrDrain("daemon")

Learner ==
  \/ ReaderSubmits \/ ReaderLocks \/ Synchronize
  \/ JoinReturns \/ CloserLocks \/ CloseBuffer \/ WakeProducer
  \/ SubmitOrDrain("learner")

Terminated ==
  /\ tpc["learner"] = "wake" /\ wakeups = 0 /\ tpc["daemon"] = "exit"
  /\ cpc \in {"idle", "exited", "raised", "killed"}
  /\ UNCHANGED vars

Next ==
  \/ AddBatch \/ Collector \/ WriteFails \/ CollectorKilled
  \/ Daemon \/ DaemonFails \/ DeviceCopy
  \/ ReadCommittedFields \/ ClosePipeline \/ SetStop \/ Learner
  \/ Terminated

Spec == Init /\ [][Next]_vars

(***************************************************************************)
(* Processes and threads that are not killed and have not raised keep      *)
(* running, and the side stream keeps executing what it was given.  A      *)
(* thread waiting for the submission lock gets it: the daemon sleeps       *)
(* between loops, so the lock is free again and again for long enough.     *)
(* Nothing forces the learner to read, to stop or to close.                *)
(***************************************************************************)
Fairness ==
  /\ WF_vars(Collector) /\ WF_vars(DeviceCopy)
  /\ WF_vars(Daemon) /\ WF_vars(Learner)
  /\ SF_vars(DaemonDrains \/ DaemonSubmits)
  /\ SF_vars(ReaderSubmits \/ ReaderLocks \/ JoinReturns \/ CloserLocks)

FairSpec == Spec /\ Fairness
-----------------------------------------------------------------------------
Span == [seq : Nat, slot : Slots, start : Nat, count : 0..SlotRows]

TypeOK ==
  /\ free \in Nat /\ ready \in Nat
  /\ closed \in BOOLEAN /\ stop \in BOOLEAN
  /\ slots \in [Slots -> [first : Int, rows : 0..SlotRows, patched : BOOLEAN]]
  /\ starts \in [Slots -> Nat] /\ counts \in [Slots -> 0..SlotRows]
  /\ publishedPtr \in Nat /\ publishSeq \in Nat /\ releaseSeq \in Nat
  /\ highWater \in Nat
  /\ cpc \in {"idle", "acquire", "polled", "recheck", "write", "patch", "publish",
              "sequence", "signal", "rejected", "exited", "raised", "killed"}
  /\ vectors \in 0..MaxVectors /\ left \in 0..NumEnvs
  /\ tpc["daemon"] \in {"top", "drain", "release", "between", "submit", "copy", "exit"}
  /\ tpc["learner"] \in {"idle", "read", "submit", "copy", "sync", "drain", "release",
                         "raised", "join", "closeSync", "closeBuffer", "wake"}
  /\ DOMAIN tpc = Threads
  /\ op \in {"none", "read", "close"} /\ lock \in Threads \cup {"none"}
  /\ consumeSeq \in Nat
  /\ taken \in Span \cup {NoSpan}
  /\ spans \in Seq(Span)
  /\ copied \in 0..Len(spans)
  /\ submittedPtr \in Nat /\ visiblePtr \in Nat /\ ptr \in Nat /\ size \in 0..Capacity
  /\ storage \in [0..(Capacity - 1) -> Int]
  /\ snapshot \in Nat
  /\ pipelineClosed \in BOOLEAN /\ wakeups \in Nat /\ quiesced \in BOOLEAN
  /\ fault \in {"none", "gap", "order", "daemon"}

\* The slot the collector is writing is neither taken by a consumer nor read by a
\* copy in flight, whatever tokens close() has handed out (_add_to_ingress's second
\* look at _ingress_closed, commit_ingress's release after the copy's event).
SlotExclusion ==
  cpc \in {"write", "patch", "publish", "sequence"} =>
    /\ taken # NoSpan => taken.slot # WriteSlot
    /\ \A i \in 1..Len(spans) : spans[i].slot # WriteSlot

\* Rows the side stream has copied: everything submitted but the incomplete spans.
CopiedPtr == IF copied < Len(spans) THEN spans[copied + 1].start ELSE submittedPtr

\* The device ring holds the last Capacity rows that were copied, each at its place
\* and as the collector finished it, across wrap-around and slot reuse
\* (_submit_span_copy, _ring_spans, _patch_terminal_next_observations).
DeviceRingHoldsLog ==
  \A row \in 0..(CopiedPtr - 1) :
    row >= CopiedPtr - Capacity => storage[row % Capacity] = row

\* The checks on contiguity and commit order never fire by themselves: an ingress
\* without a failed thread neither skips a chunk nor commits two in the wrong order
\* (_submit_new_spans, commit_ingress).
OrderChecksNeverFire ==
  [][fault' # fault => fault' = "daemon" \/ (fault' = "gap" /\ fault = "daemon")]_vars

\* The occupancy the diagnostics report never exceeds the ingress depth, although the
\* two sequences are read at different moments (_add_to_ingress, ingress_diagnostics).
HighWaterBounded == highWater <= Depth

\* A pipeline closed after the collector has returned leaves no published chunk
\* behind (the runner's "finalize" order, GPUResidentReplayPipeline.close).
QuiescedCloseDrains ==
  quiesced /\ fault = "none" /\ tpc["learner"] \in {"closeBuffer", "wake"} =>
    ptr = publishedPtr

\* A collector blocked on a full ingress returns once the buffer is closed or a stop
\* is requested (_add_to_ingress's polling loop, ReplayBuffer.close).
BlockedAddReturns ==
  (cpc \in {"acquire", "polled"} /\ (closed \/ stop))
    ~> cpc \in {"idle", "exited", "raised", "killed"}

\* A learner whose ring is behind the published rows catches up with them, unless the
\* pipeline is closed or a party fails (_sync_worker).
PublishedIsCommitted ==
  (ptr < publishedPtr)
    ~> (ptr = publishedPtr \/ pipelineClosed \/ cpc = "killed" \/ fault # "none")

\* read_committed_fields returns, unless the collector is killed or the daemon fails.
ReadCommittedReturns ==
  (op = "read") ~> (op # "read" \/ cpc = "killed" \/ fault # "none")

\* The ingress is an ordered log with at most Depth chunks outstanding.
Log == INSTANCE ReplayLog WITH
  pending <- [i \in 1..(publishSeq - releaseSeq) |-> counts[(releaseSeq + i - 1) % Depth]],
  committed <- ptr
ImplementsLog == Log!Spec
=============================================================================
