------------------------- MODULE ReplayPrepareProofs -------------------------
(***************************************************************************)
(* Proofs about ReplayPrepare, for every depth, capacity, number of        *)
(* iterations and of steps between updates, with reward statistics and     *)
(* without: the update loop is never refused a batch, prefetched batches   *)
(* are fresh, kernels read the batch they were launched for, and without   *)
(* statistics a gather meets committed rows only.                          *)
(***************************************************************************)
EXTENDS ReplayPrepare, TLAPS

\* Ticks that t updates need.
Due == [t \in Int |-> t * StepsPerSync]

Batch == [tick : Int, slot : Batches, visible : Int, upto : Int]
StreamOp == [op : {"copy", "gather"}, batch : Batch]

\* What the gather of a batch owes: the lag of a prefetch, and committed rows.
Fresh(batch) == batch.tick > 1 => batch.visible >= Due[batch.tick] - 1
Committed(batch) == ~stats => batch.upto = batch.visible

\* A batch is asked for and not consumed; a gather of it is on the side stream.
Outstanding == prepareState # "idle"
Gathering == \E i \in 1..Len(stream) : stream[i].op = "gather"
Gathered == dpc = "metadata" \/ prepared # NoBatch
-----------------------------------------------------------------------------
Types ==
  /\ cpc \in {"observe", "wait", "add"} /\ published \in Nat
  /\ request \in BOOLEAN /\ response \in BOOLEAN
  /\ lpc \in {"wait", "progress", "stats", "read", "batch", "ask", "poll", "sample",
              "prefetch", "update", "done"}
  /\ stats \in BOOLEAN /\ iteration \in Nat \ {0} /\ sinceUpdate \in Nat
  /\ boundary \in Int /\ preparedTick \in Int
  /\ submitted \in Nat /\ visible \in Int /\ copied \in Int
  /\ prepareState \in {"idle", "preparing", "gather_submitted", "ready"}
  /\ prepareTick \in Int /\ requiredPtr \in Int /\ prepared \in Batch /\ hot \in Batches
  /\ dpc \in {"drain", "prepare", "submit", "latch", "size", "gather", "metadata", "state"}
  /\ latched \in Batch /\ condition \in {"free", "daemon"}
  /\ stream \in Seq(StreamOp)
  /\ content \in [Batches -> Batch] /\ kernels \in Seq(Batch)

\* An answer in flight is one transition that is not published yet.
InFlight == IF response \/ cpc = "add" THEN 1 ELSE 0
TicksServed ==
  /\ request => cpc = "wait" /\ ~response
  /\ response => cpc = "wait"
  /\ published + InFlight >= Due[iteration - 1] + sinceUpdate

Updating == {"stats", "read", "batch", "ask", "poll", "sample", "prefetch", "update"}
BoundaryFrozen ==
  /\ boundary # None => boundary >= Due[iteration + 1] - 1
  /\ sinceUpdate >= StepsPerSync => boundary # None
  /\ lpc \in Updating => sinceUpdate >= StepsPerSync

\* Which batch the update loop has asked for, at each of its steps.
RequestInTurn ==
  /\ lpc \in {"wait", "progress"} =>
       IF preparedTick = iteration THEN Outstanding /\ prepareTick = iteration
       ELSE ~Outstanding /\ iteration = 1
  /\ lpc \in {"stats", "read", "batch", "ask", "poll", "sample"} =>
       preparedTick = iteration /\ Outstanding /\ prepareTick = iteration
  /\ lpc = "sample" => prepared # NoBatch /\ ~Gathering
  /\ lpc = "prefetch" => ~Outstanding
  /\ lpc = "update" =>
       IF MoreIterations
       THEN preparedTick = iteration + 1 /\ Outstanding /\ prepareTick = iteration + 1
       ELSE ~Outstanding

\* How far the daemon is with it.
JobStage ==
  /\ ~Outstanding => prepared = NoBatch /\ dpc \notin {"size", "gather", "metadata", "state"}
  /\ Outstanding => prepareTick >= 1
                    /\ (prepareTick > 1 => requiredPtr >= Due[prepareTick] - 1)
  /\ dpc \in {"size", "gather", "metadata"} =>
       /\ prepareState = "preparing" /\ prepared = NoBatch
       /\ latched.tick = prepareTick /\ latched.slot = cold
  /\ dpc \in {"gather", "metadata", "state"} => latched.visible >= requiredPtr
  /\ dpc = "state" =>
       /\ prepared = latched /\ prepared # NoBatch
       /\ prepareState \in {"preparing", "ready"}
  /\ dpc = "state" <=> condition = "daemon"
  /\ prepareState = "preparing" /\ dpc # "state" => prepared = NoBatch
  /\ prepareState \in {"gather_submitted", "ready"} => prepared # NoBatch
  /\ prepareState = "ready" => ~Gathering
  /\ prepared # NoBatch => prepared.tick = prepareTick /\ prepared.slot = cold

\* What is on the side stream for it, and what has reached the cold slot.
GatherOfRequest ==
  /\ \A i \in 1..Len(stream) : stream[i].op = "gather" =>
       /\ Gathered /\ stream[i].batch.tick = prepareTick /\ stream[i].batch.slot = cold
       /\ Fresh(stream[i].batch) /\ Committed(stream[i].batch)
  /\ Gathered => Gathering \/ content[cold].tick = prepareTick
  /\ \A slot \in Batches : Fresh(content[slot]) /\ Committed(content[slot])

\* The kernels of the update read the hot slot, which no gather is for.
KernelsOfUpdate ==
  /\ Len(kernels) <= 1
  /\ kernels # <<>> => /\ lpc \in {"prefetch", "update"} /\ kernels[1].slot = hot
                       /\ content[hot].tick = kernels[1].tick

\* Without statistics only the daemon moves the two pointers.
DaemonAlone ==
  ~stats => /\ lpc # "read"
            /\ dpc \in {"latch", "size", "gather"} => submitted = visible
            /\ dpc = "gather" => latched.visible = visible

IInv ==
  /\ Types /\ TicksServed /\ BoundaryFrozen /\ RequestInTurn /\ JobStage
  /\ GatherOfRequest /\ KernelsOfUpdate /\ DaemonAlone
-----------------------------------------------------------------------------
LEMMA Dues ==
  /\ Due[0] = 0 /\ StepsPerSync \in Nat /\ StepsPerSync >= 1
  /\ \A t \in Int : Due[t] \in Int /\ Due[t + 1] = Due[t] + StepsPerSync
<1>1. StepsPerSync \in Nat /\ StepsPerSync >= 1
  BY PrepareAssumption
<1>2. ASSUME NEW t \in Int
      PROVE  t * StepsPerSync \in Int /\ (t + 1) * StepsPerSync = t * StepsPerSync + StepsPerSync
  BY <1>1
<1>3. 0 * StepsPerSync = 0
  BY <1>1
<1> QED
  BY <1>1, <1>2, <1>3 DEF Due

\* What the counts of the current iteration are in terms of the next one's.
LEMMA DuesHere ==
  ASSUME Types
  PROVE  /\ Due[iteration - 1] \in Int /\ Due[iteration] = Due[iteration - 1] + StepsPerSync
         /\ Due[iteration + 1] = Due[iteration] + StepsPerSync
         /\ Due[(iteration + 1) + 1] = Due[iteration + 1] + StepsPerSync
         /\ (iteration + 1) - 1 = iteration
<1>1. iteration \in Int /\ (iteration - 1) + 1 = iteration /\ iteration - 1 \in Int
      /\ iteration + 1 \in Int /\ (iteration + 1) - 1 = iteration
  BY DEF Types
<1> QED
  BY <1>1, Dues

LEMMA Pops ==
  ASSUME NEW S, NEW s \in Seq(S), s # <<>>
  PROVE  /\ Head(s) = s[1] /\ Len(s) \in Nat /\ Len(s) >= 1 /\ s[1] \in S
         /\ Tail(s) \in Seq(S) /\ Len(Tail(s)) = Len(s) - 1
         /\ \A i \in 1..(Len(s) - 1) : Tail(s)[i] = s[i + 1]
OBVIOUS

LEMMA Pushes ==
  ASSUME NEW S, NEW s \in Seq(S), NEW x \in S
  PROVE  /\ Append(s, x) \in Seq(S) /\ Len(s) \in Nat /\ Len(Append(s, x)) = Len(s) + 1
         /\ \A i \in 1..Len(s) : Append(s, x)[i] = s[i]
         /\ Append(s, x)[Len(s) + 1] = x
OBVIOUS

\* The daemon fills its batch field by field.
LEMMA BatchFields ==
  ASSUME NEW b \in Batch, NEW t \in Int, NEW s \in Batches
  PROVE  /\ [b EXCEPT !.tick = t, !.slot = s] \in Batch
         /\ [b EXCEPT !.visible = t] \in Batch /\ [b EXCEPT !.upto = t] \in Batch
         /\ [b EXCEPT !.upto = t].tick = b.tick /\ [b EXCEPT !.upto = t].slot = b.slot
         /\ [b EXCEPT !.upto = t].visible = b.visible /\ [b EXCEPT !.upto = t].upto = t
<1>1. [b EXCEPT !.tick = t, !.slot = s] \in Batch
  BY DEF Batch
<1>2. [b EXCEPT !.visible = t] \in Batch
  BY DEF Batch
<1>3. [b EXCEPT !.upto = t] \in Batch
  BY DEF Batch
<1>4. [b EXCEPT !.upto = t].tick = b.tick /\ [b EXCEPT !.upto = t].slot = b.slot
  BY DEF Batch
<1>5. [b EXCEPT !.upto = t].visible = b.visible /\ [b EXCEPT !.upto = t].upto = t
  BY DEF Batch
<1> QED
  BY <1>1, <1>2, <1>3, <1>4, <1>5

LEMMA NoBatchIsBatch == NoBatch \in Batch /\ 0 \in Batches
BY DEF Batch, NoBatch, None, Batches

LEMMA InitInv == Init => IInv
<1> SUFFICES ASSUME Init PROVE IInv
  OBVIOUS
<1> USE DEF Init
<1>1. Types
  <2>1. stream = <<>> /\ kernels = <<>>
    OBVIOUS
  <2>2. stream \in Seq(StreamOp) /\ kernels \in Seq(Batch)
    BY <2>1 DEF StreamOp
  <2>3. NoBatch \in Batch /\ stats \in BOOLEAN /\ None \in Int /\ hot \in Batches
    BY PrepareAssumption DEF Batch, Batches, NoBatch, None
  <2> QED
    BY <2>2, <2>3 DEF Types
<1>2. TicksServed
  BY Dues DEF TicksServed, InFlight
<1>3. BoundaryFrozen /\ RequestInTurn /\ JobStage
  BY Dues DEF BoundaryFrozen, Updating, RequestInTurn, JobStage, Outstanding, None
<1>4. GatherOfRequest
  <2>1. Len(stream) = 0
    OBVIOUS
  <2> QED
    BY <2>1 DEF GatherOfRequest, Gathered, Fresh, Committed, NoBatch, None
<1>5. KernelsOfUpdate /\ DaemonAlone
  <2>1. Len(kernels) = 0
    OBVIOUS
  <2> QED
    BY <2>1 DEF KernelsOfUpdate, DaemonAlone
<1> QED
  BY <1>1, <1>2, <1>3, <1>4, <1>5 DEF IInv
-----------------------------------------------------------------------------
\* The collector's steps and those of the daemon that leave the streams alone.
LEMMA CollectorStep == ASSUME IInv, Collector PROVE IInv'
<1>1. /\ UNCHANGED <<learnerVars, visible, pipelineVars, stream, deviceVars>>
      /\ TicksServed' /\ cpc' \in {"observe", "wait", "add"} /\ published' \in Nat
      /\ request' \in BOOLEAN /\ response' \in BOOLEAN
  <2>0. Types /\ TicksServed /\ Due[iteration - 1] \in Int
    BY DuesHere DEF IInv
  <2>1. CASE RequestInference
    BY <2>0, <2>1 DEF RequestInference, Types, TicksServed, InFlight, learnerVars
  <2>2. CASE ReceiveAction
    BY <2>0, <2>2 DEF ReceiveAction, Types, TicksServed, InFlight, learnerVars
  <2>3. CASE AddBatch
    BY <2>0, <2>3 DEF AddBatch, Types, TicksServed, InFlight, learnerVars
  <2> QED
    BY <2>1, <2>2, <2>3 DEF Collector
<1> USE <1>1 DEF learnerVars, pipelineVars, prepareVars, daemonVars, deviceVars
<1>2. Types'
  BY DEF IInv, Types
<1>3. BoundaryFrozen' /\ RequestInTurn' /\ JobStage'
  BY DEF IInv, BoundaryFrozen, RequestInTurn, JobStage, Outstanding, Gathering, MoreIterations,
         cold
<1>4. GatherOfRequest' /\ KernelsOfUpdate' /\ DaemonAlone'
  BY DEF IInv, GatherOfRequest, Gathering, Gathered, Fresh, Committed, cold, KernelsOfUpdate,
         DaemonAlone
<1> QED
  BY <1>1, <1>2, <1>3, <1>4 DEF IInv

\* What the daemon's steps leave alone.
LEMMA DaemonFrame ==
  ASSUME IInv, UNCHANGED <<otherThanDaemon, hot>>
  PROVE  TicksServed' /\ BoundaryFrozen' /\ KernelsOfUpdate'
BY DEF IInv, otherThanDaemon, collectorVars, learnerVars, deviceVars, Types, TicksServed,
       InFlight, BoundaryFrozen, KernelsOfUpdate

LEMMA DaemonQuietStep ==
  ASSUME IInv, DrainCompletedSpans \/ CheckSpans \/ LatchPrepare \/ SampleDomain
               \/ PublishMetadata \/ PublishState
  PROVE  IInv'
<1>1. TicksServed' /\ BoundaryFrozen' /\ KernelsOfUpdate' /\ UNCHANGED stream
  BY DaemonFrame DEF DrainCompletedSpans, CheckSpans, LatchPrepare, SampleDomain,
     PublishMetadata, PublishState, prepareVars
<1>2. Gathering' = Gathering
  BY <1>1 DEF Gathering
<1>3. LatchPrepare \/ SampleDomain => latched' \in Batch
  <2>1. latched \in Batch /\ visible \in Int /\ prepareTick \in Int /\ cold \in Batches
    BY DEF IInv, Types, cold, Batches
  <2>2. /\ [latched EXCEPT !.visible = visible] \in Batch
        /\ [NoBatch EXCEPT !.tick = prepareTick, !.slot = cold] \in Batch
    BY <2>1, BatchFields, NoBatchIsBatch
  <2> QED
    BY <2>1, <2>2 DEF LatchPrepare, SampleDomain
<1> USE DEF IInv, Types, otherThanDaemon, collectorVars, learnerVars, deviceVars, prepareVars
<1>4. CASE DrainCompletedSpans
  <2> USE <1>1, <1>2, <1>4 DEF DrainCompletedSpans
  <2>1. Types'
    OBVIOUS
  <2>2. RequestInTurn' /\ JobStage'
    BY DEF RequestInTurn, JobStage, Outstanding, MoreIterations, cold
  <2>3. GatherOfRequest' /\ DaemonAlone'
    BY DEF GatherOfRequest, Gathered, Fresh, Committed, cold, DaemonAlone
  <2> QED
    BY <2>1, <2>2, <2>3
<1>5. CASE CheckSpans
  <2> USE <1>1, <1>2, <1>5 DEF CheckSpans
  <2>1. Types'
    OBVIOUS
  <2>2. RequestInTurn' /\ JobStage'
    BY DEF RequestInTurn, JobStage, Outstanding, MoreIterations, cold
  <2>3. GatherOfRequest' /\ DaemonAlone'
    BY DEF GatherOfRequest, Gathered, Fresh, Committed, cold, DaemonAlone, Pending
  <2> QED
    BY <2>1, <2>2, <2>3
<1>6. CASE LatchPrepare
  <2> USE <1>1, <1>2, <1>6 DEF LatchPrepare
  <2>1. Types'
    BY <1>3
  <2>2. RequestInTurn' /\ JobStage'
    BY DEF RequestInTurn, JobStage, Outstanding, MoreIterations, cold, NoBatch
  <2>3. GatherOfRequest' /\ DaemonAlone'
    BY DEF GatherOfRequest, Gathered, Fresh, Committed, cold, DaemonAlone
  <2> QED
    BY <2>1, <2>2, <2>3
<1>7. CASE SampleDomain
  <2> USE <1>1, <1>2, <1>7 DEF SampleDomain
  <2>1. Types'
    BY <1>3
  <2>2. RequestInTurn' /\ JobStage'
    BY SMTT(30) DEF RequestInTurn, JobStage, Outstanding, MoreIterations, cold, Batch
  <2>3. GatherOfRequest' /\ DaemonAlone'
    BY DEF GatherOfRequest, Gathered, Fresh, Committed, cold, DaemonAlone, Batch
  <2> QED
    BY <2>1, <2>2, <2>3
<1>8. CASE PublishMetadata
  <2> USE <1>1, <1>2, <1>8 DEF PublishMetadata
  <2>1. Types'
    OBVIOUS
  <2>2. latched # NoBatch /\ latched.tick = prepareTick /\ Outstanding
    BY DEF JobStage, NoBatch, None, Outstanding
  <2>3. RequestInTurn' /\ JobStage'
    BY <2>2 DEF RequestInTurn, JobStage, Outstanding, MoreIterations, cold
  <2>4. GatherOfRequest' /\ DaemonAlone'
    BY <2>2 DEF GatherOfRequest, Gathered, Fresh, Committed, cold, DaemonAlone
  <2> QED
    BY <2>1, <2>3, <2>4
<1>9. CASE PublishState
  <2> USE <1>1, <1>2, <1>9 DEF PublishState
  <2>1. Types'
    OBVIOUS
  <2>2. prepared # NoBatch
    BY DEF JobStage
  <2>3. RequestInTurn' /\ JobStage'
    BY <2>2 DEF RequestInTurn, JobStage, Outstanding, MoreIterations, cold
  <2>4. GatherOfRequest' /\ DaemonAlone'
    BY DEF GatherOfRequest, Gathered, Fresh, Committed, cold, DaemonAlone
  <2> QED
    BY <2>1, <2>3, <2>4
<1> QED
  BY <1>4, <1>5, <1>6, <1>7, <1>8, <1>9
-----------------------------------------------------------------------------
\* The steps that move the side stream.
LEMMA StreamGrows ==
  ASSUME stream \in Seq(StreamOp), NEW o \in StreamOp, stream' = Append(stream, o)
  PROVE  /\ stream' \in Seq(StreamOp)
         /\ \A i \in 1..Len(stream') :
              stream'[i] = o \/ \E j \in 1..Len(stream) : stream'[i] = stream[j]
         /\ Gathering' <=> Gathering \/ o.op = "gather"
<1>1. /\ stream' \in Seq(StreamOp) /\ Len(stream) \in Nat /\ Len(stream') = Len(stream) + 1
      /\ \A i \in 1..Len(stream) : stream'[i] = stream[i]
      /\ stream'[Len(stream) + 1] = o
  BY Pushes
<1>2. \A i \in 1..Len(stream') : i \in 1..Len(stream) \/ i = Len(stream) + 1
  BY <1>1
<1>3. /\ Len(stream) + 1 \in 1..Len(stream')
      /\ \A i \in 1..Len(stream) : i \in 1..Len(stream')
  BY <1>1
<1>4. ASSUME Gathering PROVE Gathering'
  <2>1. PICK i \in 1..Len(stream) : stream[i].op = "gather"
    BY <1>4 DEF Gathering
  <2> QED
    BY <1>1, <1>3, <2>1 DEF Gathering
<1>5. ASSUME o.op = "gather" PROVE Gathering'
  BY <1>1, <1>3, <1>5 DEF Gathering
<1>6. ASSUME Gathering' PROVE Gathering \/ o.op = "gather"
  BY <1>1, <1>2, <1>6 DEF Gathering
<1> QED
  BY <1>1, <1>2, <1>4, <1>5, <1>6

\* A copy more on the side stream, by either thread.
LEMMA CopySubmitted ==
  ASSUME IInv, SubmitNewSpans,
         UNCHANGED <<published, stats, content, prepared, prepareTick, hot>>,
         (dpc' = "metadata") = (dpc = "metadata")
  PROVE  /\ stream' \in Seq(StreamOp) /\ submitted' \in Nat
         /\ Gathering' = Gathering /\ GatherOfRequest'
<1>1. stream \in Seq(StreamOp) /\ submitted \in Nat /\ published \in Nat
  BY DEF IInv, Types, StreamOp
<1>2. GatherOfRequest
  BY DEF IInv
<1>3. CASE submitted = published
  <2>1. UNCHANGED <<submitted, stream>>
    BY <1>3 DEF SubmitNewSpans
  <2>2. Gathering' = Gathering /\ Gathered' = Gathered /\ cold' = cold
    BY <2>1 DEF Gathering, Gathered, cold
  <2> QED
    BY <1>1, <1>2, <2>1, <2>2 DEF GatherOfRequest, Fresh, Committed
<1>4. CASE submitted # published
  <2> DEFINE o == [op |-> "copy", batch |-> [NoBatch EXCEPT !.upto = published]]
  <2>1. submitted' = published /\ stream' = Append(stream, o)
    BY <1>4 DEF SubmitNewSpans
  <2>2. o \in StreamOp /\ o.op = "copy"
    <3>1. NoBatch \in Batch /\ published \in Int /\ 0 \in Batches
      BY <1>1, NoBatchIsBatch
    <3>2. [NoBatch EXCEPT !.upto = published] \in Batch
      BY <3>1, BatchFields
    <3> QED
      BY <3>2 DEF StreamOp
  <2> HIDE DEF o
  <2>3. /\ stream' \in Seq(StreamOp) /\ Gathering' = Gathering
        /\ \A i \in 1..Len(stream') :
             stream'[i] = o \/ \E j \in 1..Len(stream) : stream'[i] = stream[j]
    <3>1. Gathering' <=> Gathering
      BY <1>1, <2>1, <2>2, StreamGrows
    <3>2. Gathering' \in BOOLEAN /\ Gathering \in BOOLEAN
      BY DEF Gathering
    <3> QED
      BY <1>1, <2>1, <2>2, <3>1, <3>2, StreamGrows
  <2>4. Gathered' = Gathered /\ cold' = cold
    BY DEF Gathered, cold
  <2>5. GatherOfRequest'
    BY <1>2, <2>2, <2>3, <2>4, SMTT(30) DEF GatherOfRequest, Fresh, Committed
  <2> QED
    BY <1>1, <2>1, <2>3, <2>5
<1> QED
  BY <1>3, <1>4

LEMMA GatherStep == ASSUME IInv, GatherRows PROVE IInv'
<1> DEFINE b == [latched EXCEPT !.upto = submitted]
           o == [op |-> "gather", batch |-> b]
<1>1. /\ dpc = "gather" /\ dpc' = "metadata" /\ stream' = Append(stream, o)
      /\ UNCHANGED <<otherThanDaemon, submitted, visible, prepareVars, latched, condition>>
  BY SMTT(30) DEF GatherRows
<1>2. /\ b \in Batch /\ b.tick = latched.tick /\ b.slot = latched.slot
      /\ b.visible = latched.visible /\ b.upto = submitted
  <2>1. latched \in Batch /\ submitted \in Int
    BY DEF IInv, Types
  <2> QED
    BY <2>1, BatchFields DEF Batches
<1> HIDE DEF b
<1>3. o \in StreamOp /\ o.op = "gather" /\ o.batch = b
  BY <1>2 DEF StreamOp
<1> HIDE DEF o
<1>4. /\ stream' \in Seq(StreamOp) /\ Gathering'
      /\ \A i \in 1..Len(stream') :
           stream'[i] = o \/ \E j \in 1..Len(stream) : stream'[i] = stream[j]
  <2>1. stream \in Seq(StreamOp)
    BY DEF IInv, Types, StreamOp
  <2> QED
    BY <1>1, <1>3, <2>1, StreamGrows
<1>5. TicksServed' /\ BoundaryFrozen' /\ KernelsOfUpdate'
  BY <1>1, DaemonFrame DEF prepareVars
<1> USE DEF otherThanDaemon, collectorVars, learnerVars, deviceVars, prepareVars
<1>6. Types'
  BY <1>1, <1>4 DEF IInv, Types, StreamOp
<1>7. latched.tick = prepareTick /\ latched.slot = cold /\ latched.visible >= requiredPtr
      /\ prepared = NoBatch /\ prepareState = "preparing" /\ Outstanding
  BY <1>1 DEF IInv, JobStage, Outstanding
<1>8. RequestInTurn' /\ JobStage'
  BY <1>1, <1>7 DEF IInv, RequestInTurn, JobStage, Outstanding, MoreIterations, cold
<1>9. Fresh(b) /\ Committed(b)
  <2>1. ~stats => submitted = latched.visible
    BY <1>1 DEF IInv, DaemonAlone
  <2>2. prepareTick > 1 => requiredPtr >= Due[prepareTick] - 1
    BY <1>7 DEF IInv, JobStage
  <2>3. prepareTick \in Int /\ requiredPtr \in Int /\ latched.visible \in Int
    BY DEF IInv, Types, Batch
  <2> QED
    BY <1>2, <1>7, <2>1, <2>2, <2>3, Dues DEF Fresh, Committed
<1>10. GatherOfRequest'
  <2>1. \A i \in 1..Len(stream) : stream[i].op # "gather"
    BY <1>1, <1>7 DEF IInv, GatherOfRequest, Gathered
  <2>2. \A i \in 1..Len(stream') : stream'[i].op = "gather" => stream'[i].batch = b
    BY <1>3, <1>4, <2>1
  <2>3. Gathered' /\ cold' = cold
    BY <1>1 DEF Gathered, cold
  <2>4. \A i \in 1..Len(stream') : stream'[i].op = "gather" =>
          /\ stream'[i].batch.tick = prepareTick' /\ stream'[i].batch.slot = cold'
          /\ Fresh(stream'[i].batch) /\ Committed(stream'[i].batch)
    BY <1>1, <1>2, <1>7, <1>9, <2>2, <2>3
  <2> QED
    BY <1>1, <1>4, <2>3, <2>4 DEF IInv, GatherOfRequest, Fresh, Committed
<1>11. DaemonAlone'
  BY <1>1 DEF IInv, DaemonAlone
<1> QED
  BY <1>5, <1>6, <1>8, <1>10, <1>11, SMTT(30) DEF IInv

LEMMA DaemonSubmitsStep == ASSUME IInv, DaemonSubmits PROVE IInv'
<1>1. /\ dpc = "submit" /\ dpc' = "drain" /\ SubmitNewSpans
      /\ UNCHANGED <<otherThanDaemon, visible, prepareVars, latched, condition>>
  BY DEF DaemonSubmits
<1>2. /\ stream' \in Seq(StreamOp) /\ submitted' \in Nat
      /\ Gathering' = Gathering /\ GatherOfRequest'
  BY <1>1, CopySubmitted DEF otherThanDaemon, collectorVars, learnerVars, deviceVars, prepareVars
<1>3. TicksServed' /\ BoundaryFrozen' /\ KernelsOfUpdate'
  BY <1>1, DaemonFrame DEF prepareVars
<1> USE <1>1, <1>2 DEF otherThanDaemon, collectorVars, learnerVars, deviceVars, prepareVars
<1>4. Types'
  BY DEF IInv, Types, StreamOp
<1>5. RequestInTurn' /\ JobStage'
  BY DEF IInv, RequestInTurn, JobStage, Outstanding, MoreIterations, cold
<1>6. DaemonAlone'
  BY DEF IInv, DaemonAlone
<1> QED
  BY <1>2, <1>3, <1>4, <1>5, <1>6 DEF IInv

LEMMA SideStreamStep == ASSUME IInv, SideStream PROVE IInv'
<1> DEFINE h == stream[1]
           n == Len(stream)
<1>1. stream \in Seq(StreamOp) /\ stream # <<>>
  BY DEF IInv, Types, StreamOp, SideStream
<1>2. /\ Head(stream) = h /\ n \in Nat /\ n >= 1 /\ h \in StreamOp
      /\ Tail(stream) \in Seq(StreamOp) /\ Len(Tail(stream)) = n - 1
      /\ \A i \in 1..(n - 1) : Tail(stream)[i] = stream[i + 1]
  BY <1>1, Pops
<1>3. /\ stream' = Tail(stream)
      /\ UNCHANGED <<collectorVars, learnerVars, visible, pipelineVars, kernels>>
      /\ h.op = "copy" => copied' = h.batch.upto /\ UNCHANGED content
      /\ h.op # "copy" => content' = [content EXCEPT ![h.batch.slot] = h.batch] /\ UNCHANGED copied
  BY <1>2 DEF SideStream
<1>4. h.op \in {"copy", "gather"} /\ h.batch \in Batch
  BY <1>2 DEF StreamOp
<1>5. h.op = "gather" =>
        /\ Gathered /\ h.batch.tick = prepareTick /\ h.batch.slot = cold
        /\ Fresh(h.batch) /\ Committed(h.batch)
  BY <1>2 DEF IInv, GatherOfRequest
<1>6. \A i \in 1..Len(stream') : i + 1 \in 1..n /\ stream'[i] = stream[i + 1]
  BY <1>2, <1>3
<1>7. Gathering' => Gathering
  BY <1>6 DEF Gathering
<1>8. h.op = "copy" /\ Gathering => Gathering'
  <2> SUFFICES ASSUME h.op = "copy", Gathering PROVE Gathering'
    OBVIOUS
  <2>1. PICK i \in 1..n : stream[i].op = "gather"
    BY DEF Gathering
  <2>2. i # 1
    BY <2>1
  <2>3. i - 1 \in 1..Len(stream') /\ (i - 1) + 1 = i
    BY <1>2, <1>3, <2>1, <2>2
  <2> QED
    BY <1>6, <2>1, <2>3 DEF Gathering
<1>9. /\ hot \in Batches /\ cold \in Batches /\ cold # hot /\ content \in [Batches -> Batch]
      /\ cold' = cold
  BY <1>3 DEF IInv, Types, Batches, cold, pipelineVars, prepareVars
<1> HIDE DEF h, n
<1>10. \/ /\ h.op = "copy" /\ UNCHANGED content /\ copied' \in Int
       \/ /\ h.op = "gather" /\ content' = [content EXCEPT ![cold] = h.batch] /\ UNCHANGED copied
  BY <1>3, <1>4, <1>5 DEF Batch
<1>11. content' \in [Batches -> Batch] /\ content'[hot] = content[hot]
  BY <1>4, <1>9, <1>10
<1> USE DEF collectorVars, learnerVars, pipelineVars, prepareVars, daemonVars
<1>12. Types'
  BY <1>2, <1>3, <1>10, <1>11 DEF IInv, Types, StreamOp
<1>13. TicksServed' /\ BoundaryFrozen' /\ DaemonAlone'
  BY <1>3 DEF IInv, TicksServed, InFlight, BoundaryFrozen, DaemonAlone
<1>14. RequestInTurn' /\ JobStage'
  BY <1>3, <1>7 DEF IInv, RequestInTurn, JobStage, Outstanding, MoreIterations, cold
<1>15. GatherOfRequest'
  <2>1. Gathered' = Gathered
    BY <1>3 DEF Gathered
  <2>2. \A i \in 1..Len(stream') : stream'[i].op = "gather" =>
          /\ Gathered /\ stream'[i].batch.tick = prepareTick /\ stream'[i].batch.slot = cold
          /\ Fresh(stream'[i].batch) /\ Committed(stream'[i].batch)
    <3> SUFFICES ASSUME NEW i \in 1..Len(stream'), stream'[i].op = "gather"
                 PROVE  /\ Gathered /\ stream'[i].batch.tick = prepareTick
                        /\ stream'[i].batch.slot = cold
                        /\ Fresh(stream'[i].batch) /\ Committed(stream'[i].batch)
      OBVIOUS
    <3>1. i + 1 \in 1..Len(stream) /\ stream'[i] = stream[i + 1]
      BY <1>6 DEF n
    <3> QED
      BY <3>1 DEF IInv, GatherOfRequest
  <2>3. Gathered => Gathering' \/ content'[cold].tick = prepareTick
    BY <1>5, <1>8, <1>9, <1>10 DEF IInv, GatherOfRequest
  <2>4. \A slot \in Batches : Fresh(content'[slot]) /\ Committed(content'[slot])
    BY <1>5, <1>9, <1>10 DEF IInv, GatherOfRequest
  <2> QED
    BY <1>3, <1>9, <2>1, <2>2, <2>3, <2>4 DEF GatherOfRequest, Fresh, Committed
<1>16. KernelsOfUpdate'
  BY <1>3, <1>11 DEF IInv, KernelsOfUpdate
<1> QED
  BY <1>12, <1>13, <1>14, <1>15, <1>16 DEF IInv

LEMMA LearnerStreamStep == ASSUME IInv, LearnerStream PROVE IInv'
<1>1. kernels' = <<>> /\ kernels' \in Seq(Batch) /\ Len(kernels') = 0
  <2>1. kernels \in Seq(Batch) /\ kernels # <<>> /\ kernels' = Tail(kernels) /\ Len(kernels) <= 1
    BY DEF IInv, Types, KernelsOfUpdate, LearnerStream
  <2>2. /\ Len(kernels) \in Nat /\ Len(kernels) >= 1
        /\ Tail(kernels) \in Seq(Batch) /\ Len(Tail(kernels)) = Len(kernels) - 1
    BY <2>1, Pops
  <2>3. Len(kernels') = 0 /\ kernels' \in Seq(Batch)
    BY <2>1, <2>2
  <2> QED
    BY <2>3
<1> USE <1>1 DEF LearnerStream, collectorVars, learnerVars, pipelineVars, prepareVars, daemonVars
<1>2. Types'
  BY DEF IInv, Types
<1>3. TicksServed' /\ BoundaryFrozen' /\ RequestInTurn' /\ JobStage'
  BY DEF IInv, TicksServed, InFlight, BoundaryFrozen, RequestInTurn, JobStage, Outstanding,
         MoreIterations, cold, Gathering
<1>4. GatherOfRequest' /\ KernelsOfUpdate' /\ DaemonAlone'
  BY DEF IInv, GatherOfRequest, Gathering, Gathered, Fresh, Committed, cold, KernelsOfUpdate,
         DaemonAlone
<1> QED
  BY <1>2, <1>3, <1>4 DEF IInv
-----------------------------------------------------------------------------
\* The learner's steps.  What a refresh sees: a gather that has been executed.
LEMMA RefreshSees ==
  ASSUME IInv
  PROVE  /\ Refreshed \in {prepareState, "ready"}
         /\ Refreshed = "ready" => prepared # NoBatch /\ ~Gathering
         /\ prepared # NoBatch => Outstanding
<1>1. /\ \A i \in 1..Len(stream) : stream[i].op = "gather" => stream[i].batch.slot = cold
      /\ prepared # NoBatch => prepared.slot = cold /\ prepareState # "idle"
      /\ prepareState = "ready" => prepared # NoBatch /\ ~Gathering
  BY DEF IInv, GatherOfRequest, JobStage, Outstanding
<1> QED
  BY <1>1 DEF Refreshed, GatherDone, Gathering, Outstanding

\* What the learner's steps leave alone that touch neither stream nor batches.
LEMMA LearnerFrame ==
  ASSUME IInv, UNCHANGED <<otherThanLearner, stats, submitted, stream, kernels, prepared, hot,
                           prepareTick>>
  PROVE  Gathering' = Gathering /\ GatherOfRequest'
BY DEF IInv, otherThanLearner, daemonVars, GatherOfRequest, Gathering, Gathered, Fresh, Committed,
       cold

LEMMA ServeStep == ASSUME IInv, ServeInference PROVE IInv'
<1>1. UNCHANGED <<otherThanLearner, stats, iteration, preparedTick, snapshot, submitted,
                  visible, prepareVars, stream, kernels>>
      /\ lpc = "wait" /\ lpc' = "progress"
  BY DEF ServeInference
<1>2. Gathering' = Gathering /\ GatherOfRequest'
  BY <1>1, LearnerFrame DEF prepareVars
<1>3. /\ Due[iteration - 1] \in Int /\ Due[iteration] = Due[iteration - 1] + StepsPerSync
      /\ Due[iteration + 1] = Due[iteration] + StepsPerSync
  BY DuesHere DEF IInv
<1>4. StepsPerSync \in Nat /\ StepsPerSync >= 1
  BY Dues
<1> USE <1>1, <1>2 DEF ServeInference, otherThanLearner, daemonVars, prepareVars, IInv
<1>5. Types'
  <2>1. boundary' \in Int /\ sinceUpdate' \in Nat
    BY <1>4 DEF Types, FrozenBoundary
  <2> QED
    BY <2>1, ZenonT(30) DEF Types
<1>6. TicksServed'
  BY <1>3 DEF Types, TicksServed, InFlight
<1>7. BoundaryFrozen'
  <2>1. request /\ ~response /\ cpc = "wait" /\ published >= Due[iteration - 1] + sinceUpdate
    BY <1>3 DEF TicksServed, InFlight, Types
  <2> QED
    BY <1>3, <1>4, <2>1, SMTT(30) DEF Types, BoundaryFrozen, FrozenBoundary, Updating, None
<1>8. RequestInTurn' /\ JobStage'
  BY DEF RequestInTurn, JobStage, Outstanding, MoreIterations, cold
<1>9. KernelsOfUpdate' /\ DaemonAlone'
  BY DEF KernelsOfUpdate, DaemonAlone
<1> QED
  BY <1>5, <1>6, <1>7, <1>8, <1>9

\* The calls of start_prepare: the batch is new, or the outstanding one.
LEMMA StartPrepareCases ==
  ASSUME IInv, NEW tick \in Int, NEW required, NEW next, StartPrepare(tick, required, next),
         Outstanding => prepareTick = tick
  PROVE  /\ condition = "free" /\ lpc' = next /\ UNCHANGED <<prepared, hot>>
         /\ Outstanding => /\ UNCHANGED <<prepareTick, requiredPtr>>
                           /\ prepareState' \in {prepareState, Refreshed}
         /\ ~Outstanding => /\ prepareTick' = tick /\ requiredPtr' = required
                            /\ prepareState' = "preparing"
<1>1. /\ ~Outstanding => prepared = NoBatch /\ prepareState = "idle"
      /\ prepareState \in {"idle", "preparing", "gather_submitted", "ready"}
      /\ prepareState = "ready" => prepared # NoBatch
      /\ prepared # NoBatch => prepared.tick = prepareTick
  BY DEF IInv, JobStage, Outstanding, Types
<1> QED
  BY <1>1 DEF StartPrepare, Outstanding

\* A refresh, or none, leaves the outstanding batch where it is.
LEMMA JobRefreshed ==
  ASSUME IInv, prepareState' \in {prepareState, Refreshed},
         UNCHANGED <<daemonVars, stream, prepareTick, requiredPtr, prepared, hot>>
  PROVE  JobStage' /\ Outstanding' = Outstanding
<1>1. /\ Refreshed \in {prepareState, "ready"}
      /\ Refreshed = "ready" => prepared # NoBatch /\ ~Gathering
      /\ prepared # NoBatch => Outstanding
  BY RefreshSees
<1>2. Gathering' = Gathering /\ cold' = cold
  BY DEF Gathering, cold
<1> QED
  BY <1>1, <1>2 DEF IInv, JobStage, Outstanding, daemonVars

\* A new batch is asked for.
LEMMA JobBegins ==
  ASSUME IInv, ~Outstanding, prepareState' = "preparing", prepareTick' \in Int, prepareTick' >= 1,
         prepareTick' > 1 => requiredPtr' >= Due[prepareTick'] - 1,
         UNCHANGED <<daemonVars, stream, content, stats, prepared, hot>>
  PROVE  JobStage' /\ Outstanding' /\ GatherOfRequest'
<1>1. /\ prepared = NoBatch /\ dpc \notin {"size", "gather", "metadata", "state"}
      /\ dpc = "state" <=> condition = "daemon"
  BY DEF IInv, JobStage
<1>2. ~Gathered /\ ~Gathered' /\ cold' = cold
  BY <1>1 DEF Gathered, daemonVars, cold
<1>3. \A i \in 1..Len(stream) : stream[i].op # "gather"
  BY <1>2 DEF IInv, GatherOfRequest
<1>4. GatherOfRequest'
  BY <1>2, <1>3 DEF IInv, GatherOfRequest, Fresh, Committed
<1> QED
  BY <1>1, <1>4 DEF JobStage, Outstanding, daemonVars

LEMMA ProgressStep == ASSUME IInv, Progress PROVE IInv'
<1>1. /\ lpc = "progress"
      /\ UNCHANGED <<otherThanLearner, request, response, stats, iteration, sinceUpdate,
                     boundary, snapshot, submitted, visible, stream, kernels>>
  BY DEF Progress
<1>2. /\ iteration \in Int /\ iteration >= 1
      /\ IF preparedTick = iteration THEN Outstanding /\ prepareTick = iteration
         ELSE ~Outstanding /\ iteration = 1
      /\ Outstanding => prepareTick = iteration
  BY <1>1 DEF IInv, Types, RequestInTurn
<1>3. /\ lpc' \in {"stats", "wait"}
      /\ lpc' = "stats" => sinceUpdate >= StepsPerSync /\ preparedTick' = iteration
                          /\ Outstanding' /\ prepareTick' = iteration
      /\ lpc' = "wait" => preparedTick' = preparedTick /\ Outstanding' = Outstanding
                         /\ prepareTick' = prepareTick
      /\ preparedTick' \in Int /\ UNCHANGED <<prepared, hot>>
      /\ JobStage' /\ GatherOfRequest'
      /\ prepareState' \in {"idle", "preparing", "gather_submitted", "ready"}
      /\ prepareTick' \in Int /\ requiredPtr' \in Int
  <2>1. CASE ~(visible >= Threshold /\ sinceUpdate >= StepsPerSync)
    <3>1. /\ lpc' = "wait" /\ prepareState' = Refreshed
          /\ UNCHANGED <<prepareTick, requiredPtr, prepared, hot, preparedTick>>
      BY <2>1 DEF Progress
    <3> QED
      BY <1>1, <3>1, JobRefreshed, RefreshSees, LearnerFrame
      DEF otherThanLearner, IInv, Types
  <2>2. CASE visible >= Threshold /\ sinceUpdate >= StepsPerSync /\ preparedTick = iteration
    <3>1. /\ lpc' = "stats" /\ prepareState' = Refreshed
          /\ UNCHANGED <<prepareTick, requiredPtr, prepared, hot, preparedTick>>
      BY <2>2 DEF Progress
    <3>2. JobStage' /\ Outstanding' = Outstanding
      BY <1>1, <3>1, JobRefreshed DEF otherThanLearner
    <3>3. GatherOfRequest'
      BY <1>1, <3>1, LearnerFrame
    <3>4. /\ prepareState' \in {"idle", "preparing", "gather_submitted", "ready"}
          /\ prepareTick' \in Int /\ requiredPtr' \in Int /\ preparedTick' \in Int
      BY <3>1, RefreshSees DEF IInv, Types
    <3> QED
      BY <1>2, <2>2, <3>1, <3>2, <3>3, <3>4
  <2>3. CASE visible >= Threshold /\ sinceUpdate >= StepsPerSync /\ preparedTick # iteration
    <3>1. StartPrepare(iteration, visible, "stats") /\ preparedTick' = iteration
      BY <2>3 DEF Progress
    <3>2. /\ lpc' = "stats" /\ UNCHANGED <<prepared, hot>>
          /\ prepareTick' = iteration /\ requiredPtr' = visible /\ prepareState' = "preparing"
      BY <1>2, <2>3, <3>1, StartPrepareCases
    <3>3. visible \in Int
      BY DEF IInv, Types
    <3> QED
      BY <1>1, <1>2, <2>3, <3>1, <3>2, <3>3, JobBegins DEF otherThanLearner
  <2> QED
    BY <2>1, <2>2, <2>3
<1>4. Gathering' = Gathering
  BY <1>1 DEF Gathering
<1> USE <1>1, <1>3, <1>4 DEF IInv, otherThanLearner, daemonVars
<1>5. Types'
  BY DEF Types
<1>6. TicksServed' /\ BoundaryFrozen'
  BY DEF Types, TicksServed, InFlight, BoundaryFrozen, Updating
<1>7. RequestInTurn'
  BY <1>2 DEF RequestInTurn
<1>8. KernelsOfUpdate' /\ DaemonAlone'
  BY DEF KernelsOfUpdate, DaemonAlone
<1> QED
  BY <1>5, <1>6, <1>7, <1>8

LEMMA StatsStep ==
  ASSUME IInv, BeginRewardStats \/ ReadCommittedFields
  PROVE  IInv'
<1>1. /\ UNCHANGED <<otherThanLearner, request, response, stats, iteration, sinceUpdate,
                     boundary, preparedTick, submitted, prepareVars, stream, kernels>>
      /\ \/ /\ lpc = "stats" /\ lpc' = (IF stats THEN "read" ELSE "batch")
            /\ visible' = visible
         \/ lpc = "read" /\ lpc' = "batch" /\ visible' = copied
  BY DEF BeginRewardStats, ReadCommittedFields
<1>2. Gathering' = Gathering /\ GatherOfRequest'
  BY <1>1, LearnerFrame DEF prepareVars
<1> USE <1>1, <1>2 DEF IInv, Types, otherThanLearner, daemonVars, prepareVars
<1>3. Types'
  OBVIOUS
<1>4. TicksServed' /\ BoundaryFrozen'
  BY DEF TicksServed, InFlight, BoundaryFrozen, Updating
<1>5. RequestInTurn' /\ JobStage'
  BY DEF RequestInTurn, JobStage, Outstanding, MoreIterations, cold
<1>6. KernelsOfUpdate' /\ DaemonAlone'
  BY DEF KernelsOfUpdate, DaemonAlone
<1> QED
  BY <1>3, <1>4, <1>5, <1>6

LEMMA ReaderSubmitsStep == ASSUME IInv, ReaderSubmits PROVE IInv'
<1>1. /\ lpc = "read" /\ SubmitNewSpans
      /\ UNCHANGED <<otherThanLearner, request, response, learnerVars, visible, prepareVars,
                     kernels>>
  BY DEF ReaderSubmits
<1>2. /\ stream' \in Seq(StreamOp) /\ submitted' \in Nat
      /\ Gathering' = Gathering /\ GatherOfRequest'
  BY <1>1, CopySubmitted DEF otherThanLearner, learnerVars, daemonVars, prepareVars
<1> USE <1>1, <1>2 DEF IInv, otherThanLearner, learnerVars, daemonVars, prepareVars
<1>3. Types'
  BY DEF Types, StreamOp
<1>4. TicksServed' /\ BoundaryFrozen'
  BY DEF Types, TicksServed, InFlight, BoundaryFrozen, Updating
<1>5. RequestInTurn' /\ JobStage'
  BY DEF RequestInTurn, JobStage, Outstanding, MoreIterations, cold
<1>6. KernelsOfUpdate' /\ DaemonAlone'
  BY DEF KernelsOfUpdate, DaemonAlone
<1> QED
  BY <1>2, <1>3, <1>4, <1>5, <1>6

\* Waiting for the batch: batch_ready, and the repeated request.
LEMMA WaitStep == ASSUME IInv, BatchReady \/ AskAgain PROVE IInv'
<1>1. /\ UNCHANGED <<otherThanLearner, request, response, stats, iteration, sinceUpdate,
                     boundary, preparedTick, snapshot, submitted, visible, stream, kernels>>
      /\ lpc \in {"batch", "poll", "ask"}
  BY DEF BatchReady, AskAgain
<1>2. preparedTick = iteration /\ Outstanding /\ prepareTick = iteration /\ iteration \in Int
  BY <1>1 DEF IInv, RequestInTurn, Types
<1>3. /\ prepareState' \in {prepareState, Refreshed}
      /\ UNCHANGED <<prepareTick, requiredPtr, prepared, hot>>
      /\ lpc' = "sample" => Refreshed = "ready"
      /\ lpc' \in {"ask", "poll", "sample"}
  <2>1. CASE BatchReady
    BY <2>1 DEF BatchReady
  <2>2. CASE AskAgain
    <3>1. StartPrepare(iteration, visible, "poll")
      BY <2>2 DEF AskAgain
    <3> QED
      BY <1>2, <3>1, StartPrepareCases
  <2> QED
    BY <2>1, <2>2
<1>4. JobStage' /\ Outstanding' = Outstanding /\ GatherOfRequest' /\ Gathering' = Gathering
  BY <1>1, <1>3, JobRefreshed, LearnerFrame DEF otherThanLearner
<1>5. /\ Refreshed \in {prepareState, "ready"}
      /\ Refreshed = "ready" => prepared # NoBatch /\ ~Gathering
  BY RefreshSees
<1> USE <1>1, <1>3, <1>4 DEF IInv, otherThanLearner, daemonVars
<1>6. Types'
  BY <1>5 DEF Types
<1>7. TicksServed' /\ BoundaryFrozen'
  BY DEF Types, TicksServed, InFlight, BoundaryFrozen, Updating
<1>8. RequestInTurn'
  BY <1>2, <1>5 DEF RequestInTurn
<1>9. KernelsOfUpdate' /\ DaemonAlone'
  BY DEF KernelsOfUpdate, DaemonAlone
<1> QED
  BY <1>4, <1>6, <1>7, <1>8, <1>9

LEMMA SampleStep == ASSUME IInv, SampleLargeBatch PROVE IInv'
<1>1. /\ lpc = "sample" /\ condition = "free"
      /\ UNCHANGED <<otherThanLearner, request, response, stats, iteration, sinceUpdate,
                     boundary, preparedTick, snapshot, submitted, visible, stream>>
  BY DEF SampleLargeBatch
<1>2. /\ prepared # NoBatch /\ ~Gathering /\ prepared.slot = cold /\ prepared \in Batch
      /\ prepared.tick = prepareTick /\ cold \in Batches /\ hot \in Batches
      /\ dpc \notin {"size", "gather", "metadata", "state"} /\ cold # hot
  BY <1>1 DEF IInv, Types, RequestInTurn, JobStage, cold, Batches
<1>3. /\ hot' = cold /\ prepared' = NoBatch /\ prepareTick' = None /\ prepareState' = "idle"
      /\ kernels' = Append(kernels, prepared) /\ lpc' = "prefetch" /\ UNCHANGED requiredPtr
  BY <1>2 DEF SampleLargeBatch
<1>4. kernels' \in Seq(Batch) /\ Len(kernels') = 1 /\ kernels'[1] = prepared
  <2>1. kernels \in Seq(Batch) /\ kernels = <<>>
    BY <1>1 DEF IInv, Types, KernelsOfUpdate
  <2> QED
    BY <1>2, <1>3, <2>1
<1>5. content[cold].tick = prepareTick
  BY <1>2 DEF IInv, GatherOfRequest, Gathered
<1>6. Gathering' = Gathering
  BY <1>1 DEF Gathering
<1> USE <1>1, <1>2, <1>3, <1>6 DEF IInv, otherThanLearner, daemonVars
<1>7. Types'
  BY <1>4, NoBatchIsBatch DEF Types, None
<1>8. TicksServed' /\ BoundaryFrozen'
  BY DEF Types, TicksServed, InFlight, BoundaryFrozen, Updating
<1>9. RequestInTurn' /\ JobStage'
  BY DEF RequestInTurn, JobStage, Outstanding
<1>10. GatherOfRequest'
  BY DEF GatherOfRequest, Gathered, Gathering, Fresh, Committed
<1>11. KernelsOfUpdate' /\ DaemonAlone'
  BY <1>4, <1>5 DEF KernelsOfUpdate, DaemonAlone
<1> QED
  BY <1>7, <1>8, <1>9, <1>10, <1>11

LEMMA PrefetchStep == ASSUME IInv, Prefetch PROVE IInv'
<1>1. /\ lpc = "prefetch"
      /\ UNCHANGED <<otherThanLearner, request, response, stats, iteration, sinceUpdate,
                     boundary, snapshot, submitted, visible, stream, kernels>>
  BY DEF Prefetch
<1>2. /\ ~Outstanding /\ boundary # None /\ boundary >= Due[iteration + 1] - 1
      /\ iteration \in Nat /\ boundary \in Int /\ sinceUpdate >= StepsPerSync
  BY <1>1 DEF IInv, Types, RequestInTurn, BoundaryFrozen, Updating
<1>3. Gathering' = Gathering
  BY <1>1 DEF Gathering
<1>4. /\ lpc' = "update" /\ preparedTick' \in Int /\ UNCHANGED <<prepared, hot>>
      /\ prepareState' \in {"idle", "preparing", "gather_submitted", "ready"}
      /\ prepareTick' \in Int /\ requiredPtr' \in Int
      /\ JobStage' /\ GatherOfRequest'
      /\ IF MoreIterations
         THEN preparedTick' = iteration + 1 /\ Outstanding' /\ prepareTick' = iteration + 1
         ELSE ~Outstanding'
  <2>1. CASE MoreIterations
    <3>1. /\ StartPrepare(iteration + 1, boundary, "update")
          /\ preparedTick' = iteration + 1 /\ iteration + 1 \in Int /\ iteration + 1 >= 1
      BY <1>2, <2>1 DEF Prefetch
    <3>2. /\ lpc' = "update" /\ UNCHANGED <<prepared, hot>> /\ prepareTick' = iteration + 1
          /\ requiredPtr' = boundary /\ prepareState' = "preparing"
      BY <1>2, <3>1, StartPrepareCases
    <3>3. JobStage' /\ Outstanding' /\ GatherOfRequest'
      BY <1>1, <1>2, <3>1, <3>2, JobBegins DEF otherThanLearner
    <3> QED
      BY <1>2, <2>1, <3>1, <3>2, <3>3
  <2>2. CASE ~MoreIterations
    <3>1. lpc' = "update" /\ UNCHANGED <<prepareVars, preparedTick>>
      BY <2>2 DEF Prefetch
    <3>2. GatherOfRequest'
      BY <1>1, <3>1, LearnerFrame DEF prepareVars
    <3>3. JobStage' /\ Outstanding' = Outstanding
      BY <1>1, <3>1, JobRefreshed DEF otherThanLearner, prepareVars
    <3> QED
      BY <1>2, <2>2, <3>1, <3>2, <3>3 DEF prepareVars, IInv, Types
  <2> QED
    BY <2>1, <2>2
<1> USE <1>1, <1>3, <1>4 DEF IInv, otherThanLearner, daemonVars
<1>5. Types'
  BY DEF Types
<1>6. TicksServed' /\ BoundaryFrozen'
  BY <1>2 DEF Types, TicksServed, InFlight, BoundaryFrozen
<1>7. RequestInTurn'
  BY DEF RequestInTurn, MoreIterations
<1>8. KernelsOfUpdate' /\ DaemonAlone'
  BY DEF KernelsOfUpdate, DaemonAlone
<1> QED
  BY <1>5, <1>6, <1>7, <1>8

LEMMA FinishStep == ASSUME IInv, FinishUpdate PROVE IInv'
<1>1. /\ lpc = "update" /\ kernels = <<>> /\ sinceUpdate' = 0 /\ boundary' = None
      /\ iteration' = iteration + 1 /\ lpc' = IF MoreIterations THEN "wait" ELSE "done"
      /\ UNCHANGED <<otherThanLearner, request, response, stats, preparedTick, snapshot,
                     submitted, visible, prepareVars, stream, kernels>>
  BY DEF FinishUpdate, StreamSynchronized
<1>2. Gathering' = Gathering /\ GatherOfRequest'
  BY <1>1, LearnerFrame DEF prepareVars
<1>3. /\ Due[iteration - 1] \in Int /\ Due[iteration] = Due[iteration - 1] + StepsPerSync
      /\ Due[(iteration + 1) - 1] = Due[iteration]
      /\ StepsPerSync \in Nat /\ StepsPerSync >= 1
  BY DuesHere, Dues DEF IInv
<1> USE <1>1, <1>2 DEF IInv, otherThanLearner, daemonVars, prepareVars
<1>4. Types'
  BY DEF Types, None
<1>5. TicksServed'
  BY <1>3 DEF Types, TicksServed, InFlight, BoundaryFrozen, Updating
<1>6. BoundaryFrozen'
  BY <1>3 DEF BoundaryFrozen, Updating
<1>7. RequestInTurn' /\ JobStage'
  BY DEF RequestInTurn, JobStage, Outstanding, cold
<1>8. KernelsOfUpdate' /\ DaemonAlone'
  BY DEF KernelsOfUpdate, DaemonAlone
<1> QED
  BY <1>4, <1>5, <1>6, <1>7, <1>8
-----------------------------------------------------------------------------
LEMMA NextInv == IInv /\ [Next]_vars => IInv'
<1> SUFFICES ASSUME IInv, [Next]_vars PROVE IInv'
  OBVIOUS
<1>1. CASE Finished \/ UNCHANGED vars
  <2> USE <1>1 DEF Finished, vars, collectorVars, learnerVars, prepareVars, daemonVars, deviceVars
  <2>1. Types'
    BY SMTT(30) DEF IInv, Types
  <2>2. TicksServed' /\ BoundaryFrozen'
    BY DEF IInv, TicksServed, InFlight, BoundaryFrozen
  <2>3. RequestInTurn' /\ JobStage'
    BY DEF IInv, RequestInTurn, JobStage, Outstanding, Gathering, MoreIterations, cold
  <2>4. GatherOfRequest' /\ KernelsOfUpdate' /\ DaemonAlone'
    BY DEF IInv, GatherOfRequest, Gathering, Gathered, Fresh, Committed, cold, KernelsOfUpdate,
           DaemonAlone
  <2> QED
    BY <2>1, <2>2, <2>3, <2>4 DEF IInv
<1>2. CASE Daemon
  BY <1>2, DaemonQuietStep, GatherStep, DaemonSubmitsStep DEF Daemon
<1>3. CASE Learner
  BY <1>3, ServeStep, ProgressStep, StatsStep, ReaderSubmitsStep, WaitStep, SampleStep,
     PrefetchStep, FinishStep DEF Learner
<1> QED
  BY <1>1, <1>2, <1>3, CollectorStep, SideStreamStep, LearnerStreamStep DEF Next

LEMMA IInvInvariant == Spec => []IInv
BY InitInv, NextInv, PTL DEF Spec

\* The update loop is never refused a batch, however the learner and the daemon interleave
\* around _prepare_state (start_prepare, sample_large_batch, _learn_impl).
THEOREM UpdateIsNeverRefused == Spec => []NeverRefused
<1>1. IInv => NeverRefused
  BY DEF IInv, Types, NeverRefused
<1> QED
  BY <1>1, IInvInvariant, PTL

\* A prefetched batch lags by the tick in flight at most, for every number of environment
\* steps between two updates (_release_inference_tick's frozen boundary).
THEOREM PrefetchLagsOneTick == Spec => []PrefetchIsFresh
<1>1. IInv => PrefetchIsFresh
  BY DEF IInv, GatherOfRequest, Fresh, PrefetchIsFresh, Due, Types, Batch
<1> QED
  BY <1>1, IInvInvariant, PTL

\* Without reward statistics a gather meets committed rows only, for every capacity
\* (_service_pending_prepare's check under the submission lock).
THEOREM CommittedIsGathered == Spec => []GatherSeesCommitted
<1>1. IInv => GatherSeesCommitted
  BY DEF IInv, GatherOfRequest, Committed, GatherSeesCommitted, Types, Batch
<1> QED
  BY <1>1, IInvInvariant, PTL

\* No kernel of an iteration ever runs on a slot that a later gather has reached (the swap
\* of hot and cold, the synchronization at the end of an iteration).
THEOREM KernelsReadOwnBatch == Spec => KernelsReadTheirBatch
<1>1. IInv /\ [Next]_vars =>
        [Len(kernels') < Len(kernels) =>
           content[Head(kernels).slot].tick = Head(kernels).tick]_vars
  <2> SUFFICES ASSUME IInv, kernels # <<>>
               PROVE  content[Head(kernels).slot].tick = Head(kernels).tick
    <3>1. kernels = <<>> => Len(kernels) = 0
      OBVIOUS
    <3>2. kernels' # kernels /\ [Next]_vars => Len(kernels') \in Nat
      BY NextInv DEF IInv, Types
    <3> QED
      BY <3>1, <3>2
  <2>1. Head(kernels) = kernels[1]
    BY Pops DEF IInv, Types
  <2> QED
    BY <2>1 DEF IInv, KernelsOfUpdate
<1> QED
  BY <1>1, IInvInvariant, PTL DEF Spec, KernelsReadTheirBatch
=============================================================================
