----------------------------- MODULE AppoProofs ------------------------------
(***************************************************************************)
(* Proofs about APPO, for any number of slots, steps, staged rollouts and  *)
(* parameters.                                                             *)
(*                                                                         *)
(* Of RolloutRing: the learner reads published rollouts only, a staged     *)
(* rollout is whole unless it was lapped, none is staged twice, and every  *)
(* update has something new.  Appo implements RolloutRing, so that all of  *)
(* it holds of the whole.                                                  *)
(*                                                                         *)
(* Of Appo: the two lags of its weights.  Both follow from one quantity,   *)
(* the number of versions the learner can still finish before the          *)
(* collector publishes its next rollout; it is never more than two, and a  *)
(* version that is finished uses one of it up.                             *)
(***************************************************************************)
EXTENDS Appo, TLAPS

\* The two pointers and num_new.
PointerInv ==
  /\ readPtr <= writePtr
  /\ lpc \in {"clamp", "count"} => readPtr < writePtr
  /\ lpc \in {"open", "copy", "advance"} => remaining <= writePtr - readPtr
  /\ lpc \in {"copy", "advance"} => remaining > 0

\* The cells of the collector's rollout it has written.
CellWritten(c) ==
  IF c <= StepsPerEnv
  THEN c < step \/ (c = step /\ cpc # "act")
  ELSE c - StepsPerEnv < step \/ (c - StepsPerEnv = step /\ cpc = "signal")

\* The last NumSlots - 1 published rollouts are whole, and so is the part of the current
\* one that is written.
SlotInv ==
  /\ \A r \in Nat : writePtr - NumSlots < r /\ r < writePtr =>
       \A c \in StepCells : slots[r % NumSlots][c] = r
  /\ cpc \in {"act", "env", "signal"} =>
       \A c \in StepCells : CellWritten(c) => slots[WriteSlot][c] = writePtr
  /\ cpc = "signal" => step = StepsPerEnv

\* What was staged lies behind the read pointer, and an update has something new.
StagedInv ==
  /\ newest <= readPtr
  /\ newest = readPtr => lpc = "advance"
  /\ trained <= newest
  /\ lpc = "open" => remaining > 0 \/ trained < newest
  /\ lpc \in {"advance", "train"} => trained < newest

IInv == TypeOK /\ PointerInv /\ SlotInv /\ IntactUnlessLapped /\ StagedInv
-----------------------------------------------------------------------------
\* Rollouts less than NumSlots apart use different slots.
LEMMA SlotsApart ==
  ASSUME NEW a \in Nat, NEW b \in Nat, a < b, b - a < NumSlots
  PROVE  a % NumSlots # b % NumSlots
<1> USE RolloutAssumption
<1> DEFINE qa == a \div NumSlots
           qb == b \div NumSlots
<1>1. /\ qa \in Int /\ a = NumSlots * qa + (a % NumSlots) /\ a % NumSlots \in Slots
      /\ qb \in Int /\ b = NumSlots * qb + (b % NumSlots) /\ b % NumSlots \in Slots
  BY DEF Slots
<1>2. SUFFICES ASSUME a % NumSlots = b % NumSlots PROVE FALSE
  OBVIOUS
<1>3. b - a = NumSlots * (qb - qa)
  BY <1>1, <1>2
<1>4. qb - qa >= 1
  <2>1. SUFFICES ASSUME qb - qa <= 0 PROVE FALSE
    BY <1>1
  <2>2. NumSlots * (qb - qa) <= 0
    BY <2>1, <1>1
  <2>3. QED
    BY <2>2, <1>3
<1>5. NumSlots * (qb - qa) >= NumSlots
  BY <1>4, <1>1
<1>6. QED
  BY <1>3, <1>5

LEMMA SlotRange ==
  ASSUME NEW r \in Nat, NEW d \in Nat \ {0}
  PROVE  r % d \in 0..(d - 1)
OBVIOUS

LEMMA SlotTypes ==
  ASSUME TypeOK
  PROVE  /\ WriteSlot \in Slots /\ ReadSlot \in Slots /\ NextSlot \in 0..(PoolSize - 1)
         /\ \A r \in Nat : r % NumSlots \in Slots
<1>1. /\ writePtr \in Nat /\ readPtr \in Nat /\ staged \in Nat
      /\ NumSlots \in Nat \ {0} /\ PoolSize \in Nat \ {0}
  BY RolloutAssumption DEF TypeOK
<1>2. \A r \in Nat : r % NumSlots \in Slots
  BY <1>1, SlotRange DEF Slots
<1>3. NextSlot \in 0..(PoolSize - 1)
  BY <1>1, SlotRange DEF NextSlot
<1>4. QED
  BY <1>1, <1>2, <1>3 DEF WriteSlot, ReadSlot

\* Clamping stays between the pointers and inside the window.
LEMMA ClampBounds ==
  ASSUME TypeOK, readPtr <= writePtr
  PROVE  /\ Clamped \in Nat /\ readPtr <= Clamped /\ Clamped <= writePtr
         /\ writePtr - Clamped <= NumSlots
         /\ readPtr < writePtr => Clamped < writePtr
         /\ \A n \in 0..NumSlots : n <= writePtr - readPtr => n <= writePtr - Clamped
BY RolloutAssumption DEF TypeOK, Clamped, Oldest

\* Advancing passes what was read, and leaves no fewer rollouts than were counted.
LEMMA AdvanceBounds ==
  ASSUME TypeOK, PointerInv, lpc = "advance"
  PROVE  /\ AdvancedRead \in Nat /\ readPtr < AdvancedRead /\ AdvancedRead <= writePtr
         /\ remaining - 1 <= writePtr - AdvancedRead
BY RolloutAssumption DEF TypeOK, PointerInv, AdvancedRead, Oldest
-----------------------------------------------------------------------------
(***************************************************************************)
(* Type correctness.                                                       *)
(***************************************************************************)
LEMMA TypeStep ==
  ASSUME TypeOK, PointerInv, [Next]_vars
  PROVE  TypeOK'
<1> USE RolloutAssumption
<1>a. /\ None \in Int /\ LastObs \in Nat
      /\ \A t \in 1..StepsPerEnv : Acting(t) \in Cells /\ Outcome(t) \in Cells
      /\ WriteSlot \in Slots /\ ReadSlot \in Slots /\ NextSlot \in 0..(PoolSize - 1)
  <2>1. \A t \in 1..StepsPerEnv : Acting(t) \in Cells /\ Outcome(t) \in Cells
    BY DEF LastObs, Acting, Outcome, Cells
  <2>2. QED
    BY <2>1, SlotTypes DEF None, LastObs
<1>1. CASE LoopTop
  BY <1>1 DEF LoopTop, TypeOK, learner, staging
<1>2. CASE StartRollout
  BY <1>2 DEF StartRollout, TypeOK, learner, staging
<1>3. ASSUME NEW c \in Cells, Write(c) PROVE slots' \in [Slots -> [Cells -> Nat \cup {None}]]
  BY <1>a, <1>3 DEF Write, TypeOK
<1>4. CASE WriteActing
  BY <1>a, <1>3, <1>4 DEF WriteActing, TypeOK, learner, staging
<1>5. CASE WriteOutcome
  BY <1>a, <1>3, <1>5 DEF WriteOutcome, TypeOK, learner, staging
<1>6. CASE SignalWriteDone
  BY <1>6 DEF SignalWriteDone, TypeOK, learner, staging
<1>7. CASE CollectorRaises \/ CollectorKilled
  BY <1>7 DEF CollectorRaises, CollectorKilled, TypeOK, learner, staging
<1>8. CASE NextIteration
  BY <1>8 DEF NextIteration, TypeOK, collector, staging
<1>9. CASE WaitForData \/ ClampToCount \/ OpenSlot
  <2>1. Clamped \in Nat
    BY ClampBounds DEF PointerInv
  <2>2. CASE WaitForData
    BY <2>1, <2>2 DEF WaitForData, TypeOK, collector, staging
  <2>3. CASE ClampToCount
    BY <2>1, <2>3 DEF ClampToCount, TypeOK, collector, staging
  <2>4. CASE OpenSlot
    BY <2>1, <2>4, <1>a DEF OpenSlot, TypeOK, collector, staging
  <2>5. QED
    BY <1>9, <2>2, <2>3, <2>4
<1>10. CASE LookAgain \/ SliceEnds \/ BudgetEnds \/ AllStaged \/ EndIteration \/ UpdateRaises
  BY <1>10 DEF LookAgain, SliceEnds, BudgetEnds, AllStaged, EndIteration, UpdateRaises, TypeOK,
    collector, staging
<1>11. CASE CountNew
  BY <1>11 DEF CountNew, Available, PointerInv, TypeOK, collector, staging
<1>12. CASE CopyCell
  <2>1. slots[ReadSlot][copied + 1] \in Nat \cup {None} /\ copied + 1 \in Cells
    BY <1>12, <1>a DEF CopyCell, TypeOK, Cells
  <2>2. pool' \in [0..(PoolSize - 1) -> [Cells -> Nat \cup {None}]]
    BY <2>1, <1>12, <1>a DEF CopyCell, TypeOK
  <2>3. copied' \in 0..LastObs
    BY <1>12, <1>a DEF CopyCell, TypeOK
  <2>4. QED
    BY <2>2, <2>3, <1>12 DEF CopyCell, TypeOK, collector
<1>13. CASE Stage
  BY <1>13 DEF Stage, TypeOK, collector
<1>14. CASE AdvanceRead
  <2>1. AdvancedRead \in Nat /\ remaining > 0
    BY <1>14, AdvanceBounds DEF AdvanceRead, PointerInv
  <2>2. QED
    BY <1>14, <2>1 DEF AdvanceRead, TypeOK, collector, staging
<1>15. CASE Update
  BY <1>15 DEF Update, TypeOK, collector, staging
<1>16. CASE Close \/ Join
  BY <1>16 DEF Close, Join, CollectorAlive, TypeOK, collector, staging
<1>17. CASE Closed \/ UNCHANGED vars
  BY <1>17, ZenonT(30) DEF Closed, vars, collector, learner, staging, TypeOK
<1>18. QED
  BY <1>1, <1>2, <1>4, <1>5, <1>6, <1>7, <1>8, <1>9, <1>10, <1>11, <1>12, <1>13, <1>14, <1>15,
    <1>16, <1>17 DEF Next, Collector, Learner
-----------------------------------------------------------------------------
(***************************************************************************)
(* The pointers, and what was staged: arithmetic over the learner's steps. *)
(***************************************************************************)
LEMMA PointerStep ==
  ASSUME TypeOK, PointerInv, StagedInv, [Next]_vars
  PROVE  PointerInv' /\ StagedInv'
<1> USE RolloutAssumption DEF TypeOK, PointerInv, StagedInv, None
<1>1. CASE Collector \/ CollectorRaises \/ CollectorKilled
  BY <1>1, SMTT(30)
  DEF Collector, LoopTop, StartRollout, WriteActing, WriteOutcome, SignalWriteDone,
    CollectorRaises, CollectorKilled, learner, staging
<1>2. CASE NextIteration \/ LookAgain \/ SliceEnds \/ BudgetEnds
  BY <1>2 DEF NextIteration, LookAgain, SliceEnds, BudgetEnds, collector, staging
<1>3. CASE WaitForData \/ ClampToCount \/ OpenSlot
  BY <1>3, ClampBounds, SMTT(30) DEF WaitForData, ClampToCount, OpenSlot, collector, staging
<1>4. CASE CountNew
  BY <1>4 DEF CountNew, Available, collector, staging
<1>5. CASE AllStaged \/ CopyCell \/ Stage
  BY <1>5, SMTT(30) DEF AllStaged, CopyCell, Stage, collector, staging
<1>6. CASE AdvanceRead
  BY <1>6, AdvanceBounds DEF AdvanceRead, collector, staging
<1>7. CASE Update \/ EndIteration \/ UpdateRaises
  BY <1>7, SMTT(30) DEF Update, EndIteration, UpdateRaises, collector, staging
<1>8. CASE Close \/ Join
  BY <1>8 DEF Close, Join, collector, staging
<1>9. CASE Closed \/ UNCHANGED vars
  BY <1>9 DEF Closed, vars, collector, learner, staging
<1>10. QED
  BY <1>1, <1>2, <1>3, <1>4, <1>5, <1>6, <1>7, <1>8, <1>9 DEF Next, Learner
-----------------------------------------------------------------------------
(***************************************************************************)
(* The slots.                                                              *)
(***************************************************************************)
\* Writing a cell of the current rollout leaves the rollouts before it alone.
LEMMA WriteKeepsOthers ==
  ASSUME TypeOK, SlotInv, NEW cell \in Cells, Write(cell)
  PROVE  /\ \A r \in Nat : writePtr - NumSlots < r /\ r < writePtr =>
              \A c \in StepCells : slots'[r % NumSlots][c] = r
         /\ \A c \in Cells : slots'[WriteSlot][c] =
              IF c = cell THEN writePtr ELSE slots[WriteSlot][c]
<1> USE RolloutAssumption
<1>1. WriteSlot \in Slots /\ writePtr \in Nat
  BY SlotTypes DEF TypeOK
<1>2. ASSUME NEW r \in Nat, writePtr - NumSlots < r, r < writePtr
      PROVE  r % NumSlots \in Slots /\ r % NumSlots # WriteSlot
  <2>a. writePtr - r < NumSlots
    BY <1>1, <1>2
  <2>1. r % NumSlots # writePtr % NumSlots
    BY <2>a, <1>1, <1>2, SlotsApart
  <2>2. QED
    BY <2>1, SlotTypes DEF WriteSlot
<1>3. \A s \in Slots : s # WriteSlot => slots'[s] = slots[s]
  BY <1>1 DEF Write, TypeOK
<1>4. \A c \in Cells : slots'[WriteSlot][c] = IF c = cell THEN writePtr ELSE slots[WriteSlot][c]
  BY <1>1 DEF Write, TypeOK
<1>5. QED
  BY <1>2, <1>3, <1>4 DEF SlotInv

LEMMA SlotStep ==
  ASSUME TypeOK, SlotInv, [Next]_vars
  PROVE  SlotInv'
<1> USE RolloutAssumption
<1>a. StepCells \subseteq Cells
  BY DEF StepCells, Cells, LastObs
<1>1. CASE WriteActing
  <2>1. Acting(step) \in Cells
    BY DEF Acting, Cells, LastObs, TypeOK
  <2>2. Write(Acting(step)) /\ cpc = "act" /\ cpc' = "env" /\ step' = step /\ writePtr' = writePtr
    BY <1>1 DEF WriteActing
  <2>3. \A c \in StepCells : CellWritten(c)' => CellWritten(c) \/ c = Acting(step)
    BY <2>2 DEF CellWritten, Acting, StepCells, TypeOK
  <2>4. QED
    BY <2>1, <2>2, <2>3, <1>a, WriteKeepsOthers DEF SlotInv, WriteSlot
<1>2. CASE WriteOutcome
  <2>1. Outcome(step) \in Cells
    BY DEF Outcome, Cells, LastObs, TypeOK
  <2>2. /\ Write(Outcome(step)) /\ cpc = "env" /\ writePtr' = writePtr
        /\ \/ step < StepsPerEnv /\ step' = step + 1 /\ cpc' = "act"
           \/ step = StepsPerEnv /\ step' = step /\ cpc' = "signal"
    BY <1>2 DEF WriteOutcome, TypeOK
  <2>3. \A c \in StepCells : CellWritten(c)' => CellWritten(c) \/ c = Outcome(step)
    BY <2>2 DEF CellWritten, Outcome, StepCells, TypeOK
  <2>4. QED
    BY <2>1, <2>2, <2>3, <1>a, WriteKeepsOthers DEF SlotInv, WriteSlot
<1>3. CASE SignalWriteDone
  <2>1. cpc = "signal" /\ writePtr' = writePtr + 1 /\ slots' = slots /\ cpc' = "top"
    BY <1>3 DEF SignalWriteDone
  <2>2. step = StepsPerEnv
    BY <2>1 DEF SlotInv
  <2>3. \A c \in StepCells : CellWritten(c)
    BY <2>1, <2>2 DEF CellWritten, StepCells
  <2>4. \A c \in StepCells : slots[writePtr % NumSlots][c] = writePtr
    BY <2>1, <2>3 DEF SlotInv, WriteSlot
  <2>5. ASSUME NEW r \in Nat, writePtr' - NumSlots < r, r < writePtr'
        PROVE  \A c \in StepCells : slots'[r % NumSlots][c] = r
    <3>1. r = writePtr \/ (writePtr - NumSlots < r /\ r < writePtr)
      BY <2>1, <2>5 DEF TypeOK
    <3>2. QED
      BY <3>1, <2>1, <2>4 DEF SlotInv
  <2>6. QED
    BY <2>1, <2>5 DEF SlotInv
<1>4. CASE StartRollout
  <2>1. \A c \in StepCells : ~CellWritten(c)'
    BY <1>4 DEF StartRollout, CellWritten, StepCells
  <2>2. QED
    BY <1>4, <2>1 DEF StartRollout, SlotInv
<1>5. CASE LoopTop \/ CollectorRaises \/ CollectorKilled \/ Join
  BY <1>5 DEF LoopTop, CollectorRaises, CollectorKilled, Join, CollectorAlive, SlotInv, CellWritten,
    WriteSlot
<1>6. ASSUME UNCHANGED collector PROVE SlotInv'
  BY <1>6 DEF collector, SlotInv, CellWritten, WriteSlot
<1>7. QED
  BY <1>1, <1>2, <1>3, <1>4, <1>5, <1>6 DEF Next, Collector, Learner, NextIteration, WaitForData,
    LookAgain, SliceEnds, BudgetEnds, ClampToCount, CountNew, OpenSlot, AllStaged, CopyCell, Stage,
    AdvanceRead, Update, EndIteration, UpdateRaises, Close, Closed, vars
-----------------------------------------------------------------------------
(***************************************************************************)
(* The copy.                                                               *)
(***************************************************************************)
LEMMA CopyStep ==
  ASSUME TypeOK, PointerInv, SlotInv, IntactUnlessLapped, [Next]_vars
  PROVE  IntactUnlessLapped'
<1> USE RolloutAssumption
<1>1. CASE CopyCell
  <2>1. SUFFICES ASSUME writePtr - readPtr < NumSlots, NEW c \in StepCells, c <= copied'
                 PROVE  pool'[NextSlot][c] = readPtr
    BY <1>1 DEF CopyCell, IntactUnlessLapped, NextSlot, collector
  <2>2. NextSlot \in 0..(PoolSize - 1) /\ StepCells \subseteq Cells /\ copied + 1 \in Cells
    <3>1. StepCells \subseteq Cells /\ copied + 1 \in Cells
      BY <1>1 DEF CopyCell, TypeOK, StepCells, Cells, LastObs
    <3>2. QED
      BY <3>1, SlotTypes
  <2>3. readPtr < writePtr
    BY <1>1 DEF CopyCell, PointerInv, TypeOK
  <2>4. slots[ReadSlot][c] = readPtr
    BY <2>1, <2>3 DEF SlotInv, ReadSlot, TypeOK
  <2>5. CASE c = copied + 1
    BY <1>1, <2>2, <2>4, <2>5 DEF CopyCell, TypeOK
  <2>6. CASE c # copied + 1
    <3>1. c <= copied
      BY <1>1, <2>1, <2>6 DEF CopyCell, TypeOK, StepCells
    <3>2. pool[NextSlot][c] = readPtr
      BY <1>1, <2>1, <3>1 DEF CopyCell, IntactUnlessLapped
    <3>3. QED
      BY <1>1, <2>2, <2>6, <3>2 DEF CopyCell, TypeOK
  <2>7. QED
    BY <2>5, <2>6
<1>2. CASE OpenSlot
  BY <1>2 DEF OpenSlot, IntactUnlessLapped, StepCells
<1>3. CASE SignalWriteDone
  BY <1>3 DEF SignalWriteDone, IntactUnlessLapped, NextSlot, TypeOK, learner, staging
<1>4. ASSUME UNCHANGED <<writePtr, learner>> PROVE IntactUnlessLapped'
  BY <1>4 DEF learner, staging, IntactUnlessLapped, NextSlot
<1>5. ASSUME lpc' # "copy" PROVE IntactUnlessLapped'
  BY <1>5 DEF IntactUnlessLapped
<1>6. CASE Collector \/ CollectorRaises \/ CollectorKilled
  BY <1>3, <1>4, <1>6 DEF Collector, LoopTop, StartRollout, WriteActing, WriteOutcome,
    CollectorRaises, CollectorKilled
<1>7. CASE NextIteration \/ WaitForData \/ LookAgain \/ SliceEnds \/ BudgetEnds
  BY <1>5, <1>7 DEF NextIteration, WaitForData, LookAgain, SliceEnds, BudgetEnds
<1>8. CASE ClampToCount \/ CountNew \/ AllStaged \/ Stage \/ AdvanceRead
  BY <1>5, <1>8 DEF ClampToCount, CountNew, AllStaged, Stage, AdvanceRead
<1>9. CASE Update \/ EndIteration \/ UpdateRaises \/ Close \/ Join
  BY <1>5, <1>9 DEF Update, EndIteration, UpdateRaises, Close, Join
<1>10. CASE Closed \/ UNCHANGED vars
  BY <1>4, <1>10 DEF Closed, vars, collector
<1>11. QED
  BY <1>1, <1>2, <1>6, <1>7, <1>8, <1>9, <1>10 DEF Next, Learner
-----------------------------------------------------------------------------
LEMMA InitIInv == Init => IInv
<1> USE RolloutAssumption DEF None
<1> SUFFICES ASSUME Init PROVE IInv
  OBVIOUS
<1>1. TypeOK
  <2>1. 0 \in 0..LastObs /\ 0 \in 0..MaxIterations /\ 1 \in 1..StepsPerEnv /\ 0 \in 0..NumSlots
    BY DEF LastObs
  <2>2. /\ slots \in [Slots -> [Cells -> Nat \cup {None}]]
        /\ pool \in [0..(PoolSize - 1) -> [Cells -> Nat \cup {None}]]
    BY DEF Init
  <2>3. QED
    BY <2>1, <2>2 DEF Init, TypeOK
<1>2. PointerInv /\ SlotInv /\ IntactUnlessLapped /\ StagedInv
  BY DEF Init, PointerInv, SlotInv, IntactUnlessLapped, StagedInv
<1>3. QED
  BY <1>1, <1>2 DEF IInv

LEMMA IInvInvariant == Spec => []IInv
<1>1. IInv /\ [Next]_vars => IInv'
  BY TypeStep, PointerStep, SlotStep, CopyStep DEF IInv
<1>2. QED
  BY InitIInv, <1>1, PTL DEF Spec

\* Type correctness; with it num_new never exceeds the number of slots.
THEOREM TypeCorrect == Spec => []TypeOK
BY IInvInvariant, PTL DEF IInv

\* No slot is opened that holds no published rollout, at any interleaving of the
\* collector's pointer with the learner's three clamps.
THEOREM OnlyPublishedIsRead == Spec => []ReadsPublished
<1>1. IInv => ReadsPublished
  <2> SUFFICES ASSUME IInv PROVE ReadsPublished
    OBVIOUS
  <2>1. TypeOK /\ PointerInv
    BY DEF IInv
  <2>2. lpc = "open" => remaining <= writePtr - Clamped
    BY <2>1, ClampBounds DEF PointerInv, TypeOK
  <2>3. lpc \in {"copy", "advance"} => readPtr < writePtr
    BY <2>1 DEF PointerInv, TypeOK
  <2>4. QED
    BY <2>2, <2>3 DEF ReadsPublished
<1>2. QED
  BY IInvInvariant, <1>1, PTL

\* Without a lap of NumSlots rollouts no copy is torn.
THEOREM CopiesAreWhole == Spec => []IntactUnlessLapped
BY IInvInvariant, PTL DEF IInv

\* No rollout is staged twice or out of order.
THEOREM NeverStagedAgain == Spec => StagedOnceInOrder
<1>1. IInv /\ [Next]_vars => [staged' # staged => newest' > newest]_vars
  <2> SUFFICES ASSUME IInv, Next, staged' # staged PROVE newest' > newest
    OBVIOUS
  <2>1. Stage
    BY DEF Next, Collector, LoopTop, StartRollout, WriteActing, WriteOutcome, SignalWriteDone,
      CollectorRaises, CollectorKilled, Learner, NextIteration, WaitForData, LookAgain, SliceEnds,
      BudgetEnds, ClampToCount, CountNew, OpenSlot, AllStaged, CopyCell, AdvanceRead, Update,
      EndIteration, UpdateRaises, Close, Join, Closed, vars, learner, staging
  <2>2. newest < readPtr /\ newest' = readPtr
    BY <2>1 DEF Stage, IInv, StagedInv, TypeOK, None
  <2>3. QED
    BY <2>2 DEF IInv, TypeOK, None
<1>2. QED
  BY IInvInvariant, <1>1, PTL DEF Spec, StagedOnceInOrder

\* Every update trains on a rollout no update has seen.
THEOREM UpdatesAreNew == Spec => TrainsOnNewRollout
<1>1. IInv /\ [Next]_vars => [lpc = "train" /\ lpc' = "sync" => trained' > trained]_vars
  <2> SUFFICES ASSUME IInv, Next, lpc = "train", lpc' = "sync" PROVE trained' > trained
    OBVIOUS
  <2>1. Update
    BY DEF Next, Collector, LoopTop, StartRollout, WriteActing, WriteOutcome, SignalWriteDone,
      CollectorRaises, CollectorKilled, Learner, NextIteration, WaitForData, LookAgain, SliceEnds,
      BudgetEnds, ClampToCount, CountNew, OpenSlot, AllStaged, CopyCell, Stage, AdvanceRead,
      EndIteration, UpdateRaises, Close, Join, Closed, vars, learner
  <2>2. QED
    BY <2>1 DEF Update, IInv, StagedInv
<1>2. QED
  BY IInvInvariant, <1>1, PTL DEF Spec, TrainsOnNewRollout
-----------------------------------------------------------------------------
LEMMA AppoStepIsRingStep ==
  ASSUME [AppoNext]_allvars
  PROVE  [Next]_vars
<1>1. CASE Pull \/ Push
  BY <1>1 DEF Pull, Push, CheckVersion, ReadParam, ReadVersion, CountVersion, WriteParam
<1>2. CASE RingCollector \/ CollectRollout
  BY <1>2 DEF RingCollector, CollectRollout, Next, Collector
<1>3. CASE RingLearner \/ WeightsWritten
  BY <1>3 DEF RingLearner, WeightsWritten, Next, Learner
<1>4. CASE RingFaults \/ (Closed /\ UNCHANGED weights)
  BY <1>4 DEF RingFaults, Next
<1>5. CASE UNCHANGED allvars
  BY <1>5 DEF allvars
<1>6. QED
  BY <1>1, <1>2, <1>3, <1>4, <1>5 DEF AppoNext, AppoCollector, AppoLearner

\* Moving weights adds steps between those of the ring and changes none of them.
THEOREM AppoImplementsRing == AppoSpec => Spec
BY AppoStepIsRingStep, PTL DEF AppoSpec, AppoInit, Spec

\* With weights that come and go, as without: copies are whole unless they were lapped,
\* and every update trains on something new.
COROLLARY AppoTrainsOnNewRollouts ==
  AppoSpec => []ReadsPublished /\ []IntactUnlessLapped /\ StagedOnceInOrder /\ TrainsOnNewRollout
BY AppoImplementsRing, OnlyPublishedIsRead, CopiesAreWhole, NeverStagedAgain, UpdatesAreNew, PTL
-----------------------------------------------------------------------------
(***************************************************************************)
(* Lags.  What bounds them is how many versions of the weights the learner *)
(* can still finish without another rollout: an update takes what was      *)
(* there when it counted, and the one after it takes the rest.             *)
(***************************************************************************)
Number(b) == IF b THEN 1 ELSE 0
Draining == {"open", "copy", "advance"}

\* All rollouts below this one are behind newest when the drain is over.
Target ==
  IF lpc = "open" THEN IF remaining = 0 THEN newest + 1 ELSE Clamped + remaining
  ELSE readPtr + remaining

\* The learner is writing a version and has not counted it.
Uncounted ==
  [s \in Syncs |-> Number(lpc = "sync" /\ (pushing.sync = s \/ pushing.sync = "actor"))]

\* The updates that are still to come while the collector publishes nothing ...
Updates ==
  IF lpc \in Draining THEN 1 + Number(Target < writePtr)
  ELSE Number(lpc = "train") + Number(readPtr < writePtr)

\* ... the versions of the weights ...
Coming == [s \in Syncs |-> Uncounted[s] + Updates]

\* ... and before the update that a published rollout enters.
Before ==
  [r \in Nat |-> IF lpc \in Draining THEN Number(Target <= r)
                 ELSE IF lpc = "train" THEN Number(newest < r) ELSE Uncounted["actor"]]

WeightTypes ==
  /\ DOMAIN shared = Syncs /\ DOMAIN held = Syncs
  /\ version \in [Syncs -> Int] /\ local \in [Syncs -> Int]
  /\ behaviour \in [0..(MaxRollouts - 1) -> Int]
  /\ \A s \in Syncs : /\ DOMAIN shared[s] = Params(s) /\ DOMAIN held[s] = Params(s)
                      /\ \A p \in Params(s) : held[s][p] \in Int
  /\ pulling \in [sync : Syncs \cup {"none"}, at : Nat]
  /\ pushing \in [sync : Syncs \cup {"none"}, at : Nat]

InTurn ==
  /\ pushing.sync \in Syncs => pushing.at >= 1
  /\ lpc # "sync" => pushing = At("actor", 1)
  /\ cpc \notin {"pull", "dead"} => pulling = At("actor", 0)
  /\ lpc = "advance" => newest = readPtr
  /\ writePtr <= MaxRollouts /\ (cpc \in {"act", "env", "signal"} => writePtr < MaxRollouts)

\* The parameters of a sync are of its version, but for those of the version being written.
SharedVersions ==
  \A s \in Syncs : \A p \in Params(s) :
    shared[s][p] = version[s] + Number(pushing.sync = s /\ p < pushing.at)

\* A read in progress has missed no more versions than are still to come.
ReadLag ==
  /\ \A s \in Syncs : local[s] <= version[s]
  /\ cpc = "pull" => \A s \in Syncs : \A p \in Params(s) :
       pulling.sync = s /\ p < pulling.at => version[s] + Coming[s] <= held[s][p] + 2

\* The same for a rollout that is about to be collected, is collected, or waits for its
\* update.
RolloutLag ==
  /\ cpc = "pull" /\ pulling.sync # "actor" =>
       version["actor"] + Coming["actor"] <= local["actor"] + 2
  /\ cpc \in {"act", "env", "signal"} =>
       version["actor"] + Coming["actor"] <= behaviour[writePtr] + 2
  /\ \A r \in 0..(writePtr - 1) : trained < r =>
       version["actor"] + Before[r] <= behaviour[r] + 2

LagInv ==
  WeightTypes /\ InTurn /\ SharedVersions /\ ReadLag /\ RolloutLag /\ HeldLag
-----------------------------------------------------------------------------
(***************************************************************************)
(* How many versions are still to come.                                    *)
(***************************************************************************)
\* The numbers of a state, as numbers.
LEMMA ComingTypes ==
  ASSUME TypeOK, PointerInv, InTurn
  PROVE  /\ Target \in Int
         /\ \A s \in Syncs : Uncounted[s] \in {0, 1} /\ Coming[s] \in 0..2
         /\ \A r \in Nat : Before[r] \in {0, 1}
<1>1. Clamped \in Nat
  BY ClampBounds DEF PointerInv
<1>2. Target \in Int
  BY <1>1, RolloutAssumption DEF Target, TypeOK, None
<1>3. \A s \in Syncs : Uncounted[s] \in {0, 1}
  BY DEF Uncounted, Number
<1>4. \A s \in Syncs : lpc # "sync" => Uncounted[s] = 0
  BY DEF Uncounted, Number
<1>5. \A s \in Syncs : Coming[s] \in 0..2
  BY <1>3, <1>4 DEF Coming, Updates, Number, Draining
<1>6. \A r \in Nat : Before[r] \in {0, 1}
  BY <1>3 DEF Before, Number, Syncs
<1>7. QED
  BY <1>2, <1>3, <1>5, <1>6

\* The pointers and counters of a state.
LEMMA RingNumbers ==
  ASSUME TypeOK
  PROVE  /\ writePtr \in Nat /\ readPtr \in Nat /\ remaining \in Nat
         /\ newest \in Int /\ trained \in Int /\ Clamped \in Nat
         /\ newest >= -1 /\ trained >= -1
BY RolloutAssumption DEF TypeOK, Clamped, Oldest, None

\* Clamping, as a function of the two pointers: it grows with the write pointer.
ClampOf(r, w) == IF r < w - NumSlots THEN w - NumSlots ELSE r

LEMMA ClampOfBounds ==
  \A r, w, v \in Nat : w <= v =>
    /\ ClampOf(r, w) \in Nat /\ r <= ClampOf(r, w) /\ ClampOf(r, w) <= ClampOf(r, v)
    /\ r <= w => r <= ClampOf(r, w) /\ ClampOf(r, w) <= w /\ w - ClampOf(r, w) <= NumSlots
    /\ r < w => ClampOf(r, w) < w
BY RolloutAssumption DEF ClampOf

LEMMA ClampedIsClampOf ==
  ASSUME writePtr \in Nat, readPtr \in Nat
  PROVE  Clamped = ClampOf(readPtr, writePtr)
BY RolloutAssumption DEF Clamped, Oldest, ClampOf

\* Draining moves no rollout from behind the drain into it ...
LEMMA TargetStep ==
  ASSUME IInv, IInv', InTurn, [Next]_vars, lpc \in Draining, lpc' \in Draining
  PROVE  Target' \in Int /\ Target' >= Target
<1> USE DEF Draining
<1>a. /\ TypeOK /\ PointerInv /\ StagedInv /\ TypeOK' /\ PointerInv' /\ StagedInv'
  BY DEF IInv
<1>b. /\ writePtr \in Nat /\ readPtr \in Nat /\ remaining \in Nat /\ newest \in Int
      /\ Clamped \in Nat
  BY <1>a, RingNumbers
<1>c. writePtr' \in Nat /\ readPtr' \in Nat /\ remaining' \in Nat /\ newest' \in Int
  BY <1>a, RolloutAssumption, SMTT(30) DEF TypeOK, None
<1>d. /\ Clamped = ClampOf(readPtr, writePtr) /\ Clamped' = ClampOf(readPtr', writePtr')
      /\ Clamped' \in Nat /\ Clamped' >= readPtr'
  <2>1. Clamped' = IF readPtr' < (IF writePtr' > NumSlots THEN writePtr' - NumSlots ELSE 0)
                   THEN IF writePtr' > NumSlots THEN writePtr' - NumSlots ELSE 0
                   ELSE readPtr'
    BY DEF Clamped, Oldest
  <2>2. \A r, w \in Nat : ClampOf(r, w) =
          IF r < (IF w > NumSlots THEN w - NumSlots ELSE 0)
          THEN IF w > NumSlots THEN w - NumSlots ELSE 0 ELSE r
    BY RolloutAssumption DEF ClampOf
  <2>3. Clamped' = ClampOf(readPtr', writePtr')
    BY <2>1, <2>2, <1>c
  <2>4. Clamped = ClampOf(readPtr, writePtr)
    BY <1>b, ClampedIsClampOf
  <2>5. Clamped' \in Nat /\ Clamped' >= readPtr'
    BY <2>3, <1>c, ClampOfBounds
  <2>6. QED
    BY <2>3, <2>4, <2>5
<1>1. CASE OpenSlot
  BY <1>1, <1>b, <1>c, <1>d DEF OpenSlot, Target, staging
<1>2. CASE CopyCell
  BY <1>2, <1>b DEF CopyCell, Target
<1>3. CASE Stage
  BY <1>3, <1>b DEF Stage, Target
<1>4. CASE AdvanceRead
  <2>1. readPtr' > readPtr /\ newest = readPtr /\ newest' = newest /\ remaining' = remaining - 1
    BY <1>4, <1>a, AdvanceBounds DEF AdvanceRead, InTurn, staging
  <2>2. lpc = "advance" /\ lpc' = "open"
    BY <1>4 DEF AdvanceRead
  <2>3. Target = readPtr + remaining
    BY <2>2 DEF Target
  <2>4. Target' = IF remaining' = 0 THEN newest' + 1 ELSE Clamped' + remaining'
    BY <2>2 DEF Target
  <2>5. PICK c \in Nat : c = Clamped' /\ c >= readPtr'
    BY <1>d
  <2>6. PICK d \in Int : d = remaining' /\ d = remaining - 1
    BY <2>1, <1>b
  <2>7. Target' = IF d = 0 THEN readPtr + 1 ELSE c + d
    BY <2>1, <2>4, <2>5, <2>6
  <2>8. c > readPtr
    BY <2>1, <2>5, <1>b, <1>c
  <2>9. QED
    BY <2>3, <2>6, <2>7, <2>8, <1>b
<1>5. CASE Collector \/ CollectorRaises \/ CollectorKilled
  <2>1. /\ UNCHANGED learner
        /\ writePtr' = writePtr \/ writePtr' = writePtr + 1
    BY <1>5 DEF Collector, LoopTop, StartRollout, WriteActing, WriteOutcome, SignalWriteDone,
      CollectorRaises, CollectorKilled
  <2>2. UNCHANGED <<readPtr, lpc, remaining, newest>>
    BY <2>1 DEF learner, staging
  <2>3. Clamped' >= Clamped
    BY <2>1, <2>2, <1>b, <1>c, <1>d, ClampOfBounds
  <2>4. Target' = IF lpc = "open" THEN IF remaining = 0 THEN newest + 1 ELSE Clamped' + remaining
                  ELSE readPtr + remaining
    BY <2>2 DEF Target
  <2>5. QED
    BY <2>3, <2>4, <1>b, <1>d DEF Target
<1>6. CASE UNCHANGED vars
  BY <1>6, <1>b DEF vars, collector, learner, staging, Target, Clamped, Oldest
<1>7. QED
  BY <1>1, <1>2, <1>3, <1>4, <1>5, <1>6 DEF Next, Learner, NextIteration, WaitForData, LookAgain,
    SliceEnds, BudgetEnds, ClampToCount, CountNew, AllStaged, Update, EndIteration, UpdateRaises,
    Close, Join, Closed

\* How the learner's phases follow each other.
LEMMA PhaseStep ==
  ASSUME IInv, [Next]_vars
  PROVE  /\ lpc \in Draining => lpc' \in Draining \/ AllStaged
         /\ lpc \notin Draining => lpc' \notin Draining \/ CountNew
         /\ lpc' = "train" => lpc = "train" \/ AllStaged
         /\ lpc = "train" => lpc' \in {"train", "sync", "raised"}
         /\ lpc' = "sync" => lpc = "sync" \/ Update
         /\ lpc = "sync" => lpc' = "sync" \/ EndIteration
         /\ trained' # trained => Update
         /\ Update => lpc = "train" /\ lpc' = "sync" /\ trained' = newest
         /\ newest' # newest => lpc = "copy" /\ lpc' = "advance"
         /\ readPtr' >= readPtr
<1> USE DEF Draining
<1>a. TypeOK /\ PointerInv
  BY DEF IInv
<1>b. Clamped >= readPtr /\ readPtr \in Nat
  BY <1>a, RingNumbers, ClampBounds DEF PointerInv
<1>1. CASE Collector \/ CollectorRaises \/ CollectorKilled
  BY <1>1, <1>b DEF Collector, LoopTop, StartRollout, WriteActing, WriteOutcome, SignalWriteDone,
    CollectorRaises, CollectorKilled, learner, staging, CountNew, AllStaged, Update, EndIteration
<1>2. CASE NextIteration \/ LookAgain \/ SliceEnds \/ BudgetEnds \/ CountNew
  BY <1>2, <1>b DEF NextIteration, LookAgain, SliceEnds, BudgetEnds, staging, CountNew, Update
<1>3. CASE WaitForData \/ ClampToCount \/ OpenSlot
  BY <1>3, <1>b DEF WaitForData, ClampToCount, OpenSlot, staging, Update
<1>4. CASE AllStaged \/ CopyCell \/ Stage
  BY <1>4, <1>b DEF AllStaged, CopyCell, Stage, staging, Update
<1>5. CASE AdvanceRead
  <2>1. readPtr' >= readPtr
    BY <1>5, <1>a, <1>b, AdvanceBounds DEF AdvanceRead
  <2>2. QED
    BY <1>5, <2>1 DEF AdvanceRead, staging, Update
<1>6. CASE Update \/ EndIteration \/ UpdateRaises \/ Close \/ Join
  BY <1>6, <1>b DEF Update, EndIteration, UpdateRaises, Close, Join, staging
<1>7. CASE Closed \/ UNCHANGED vars
  BY <1>7, <1>b DEF Closed, vars, collector, learner, staging, Update
<1>8. QED
  BY <1>1, <1>2, <1>3, <1>4, <1>5, <1>6, <1>7 DEF Next, Learner

\* Counting takes everything that is published.
LEMMA CountTakesAll ==
  ASSUME IInv, IInv', CountNew
  PROVE  Target' \in Int /\ Target' >= writePtr /\ writePtr' = writePtr
<1>a. /\ TypeOK /\ PointerInv /\ TypeOK'
  BY DEF IInv
<1>b. writePtr \in Nat /\ readPtr \in Nat /\ Clamped \in Nat /\ remaining' \in Nat
  <2>1. remaining' \in Nat
    BY <1>a DEF TypeOK
  <2>2. QED
    BY <1>a, <2>1, RingNumbers
<1>1. readPtr < writePtr
  BY <1>a DEF CountNew, PointerInv
<1>2. /\ remaining' = Available /\ lpc' = "open"
      /\ UNCHANGED <<readPtr, newest, writePtr>>
  BY DEF CountNew, staging, collector
<1>3. Available > 0 /\ ClampOf(readPtr, writePtr) + Available >= writePtr
  BY <1>1, <1>b, RolloutAssumption DEF Available, ClampOf
<1>4. Target' = Clamped' + remaining'
  BY <1>2, <1>3, <1>b DEF Target
<1>5. Clamped' = Clamped
  BY <1>2 DEF Clamped, Oldest
<1>6. QED
  BY <1>2, <1>3, <1>4, <1>5, <1>b, ClampedIsClampOf

\* While nothing is published no update is added, and an update that is finished is one
\* fewer to come: what it takes was below the read pointer, and counting takes the rest.
LEMMA UpdatesStep ==
  ASSUME IInv, IInv', InTurn, [Next]_vars, writePtr' = writePtr
  PROVE  /\ Updates \in 0..2 /\ Updates' \in 0..2
         /\ Updates' <= Updates
         /\ Update => Updates' = Updates - 1
<1> USE DEF Draining, Number
<1>a. /\ TypeOK /\ PointerInv /\ StagedInv /\ TypeOK' /\ PointerInv' /\ StagedInv'
  BY DEF IInv
<1>b. /\ writePtr \in Nat /\ readPtr \in Nat /\ remaining \in Nat /\ newest \in Int
      /\ Clamped \in Nat
  BY <1>a, RingNumbers
<1>c. writePtr' \in Nat /\ readPtr' \in Nat /\ remaining' \in Nat /\ newest' \in Int
  BY <1>a, RolloutAssumption DEF TypeOK, None
<1>d. Updates \in 0..2 /\ Updates' \in 0..2
  BY DEF Updates
<1>e. readPtr' >= readPtr
  BY PhaseStep
<1>1. CASE lpc \in Draining /\ lpc' \in Draining
  <2>1. Target' \in Int /\ Target' >= Target
    BY <1>1, TargetStep
  <2>2. Target \in Int
    BY <1>a, ComingTypes
  <2>3. Updates' = 1 + (IF Target' < writePtr THEN 1 ELSE 0)
    BY <1>1 DEF Updates
  <2>4. ~Update
    BY <1>1 DEF Update
  <2>5. Updates' <= Updates
    BY <1>1, <1>b, <2>1, <2>2, <2>3 DEF Updates
  <2>6. QED
    BY <1>d, <2>4, <2>5
<1>2. CASE AllStaged
  <2>1. newest < readPtr
    BY <1>2, <1>a, <1>b DEF AllStaged, StagedInv
  <2>2. Updates = 1 + (IF newest + 1 < writePtr THEN 1 ELSE 0)
    BY <1>2 DEF AllStaged, Updates, Target
  <2>3. Updates' = 1 + (IF readPtr < writePtr THEN 1 ELSE 0)
    BY <1>2 DEF AllStaged, Updates
  <2>4. ~Update
    BY <1>2 DEF AllStaged, Update
  <2>5. QED
    BY <1>b, <1>d, <2>1, <2>2, <2>3, <2>4
<1>3. CASE CountNew
  <2>1. readPtr < writePtr /\ lpc = "count" /\ lpc' = "open"
    BY <1>3, <1>a DEF CountNew, PointerInv
  <2>2. Updates = 1
    BY <2>1 DEF Updates
  <2>3. Target' \in Int /\ Target' >= writePtr
    BY <1>3, CountTakesAll
  <2>4. Updates' = 1
    BY <2>1, <2>3, <1>b DEF Updates
  <2>5. ~Update
    BY <2>1 DEF Update
  <2>6. QED
    BY <1>d, <2>2, <2>4, <2>5
<1>4. CASE lpc \notin Draining /\ lpc' \notin Draining
  <2>1. Updates = (IF lpc = "train" THEN 1 ELSE 0) + (IF readPtr < writePtr THEN 1 ELSE 0)
    BY <1>4 DEF Updates
  <2>2. Updates' = (IF lpc' = "train" THEN 1 ELSE 0) + (IF readPtr' < writePtr THEN 1 ELSE 0)
    BY <1>4 DEF Updates
  <2>3. lpc' = "train" => lpc = "train"
    BY <1>4, PhaseStep DEF AllStaged
  <2>4. Update => lpc = "train" /\ lpc' = "sync" /\ readPtr' = readPtr
    BY DEF Update
  <2>5. QED
    BY <1>b, <1>c, <1>d, <1>e, <2>1, <2>2, <2>3, <2>4
<1>5. QED
  BY <1>1, <1>2, <1>3, <1>4, PhaseStep

\* The same for versions: the update that is finished becomes the version being written.
LEMMA ComingStep ==
  ASSUME IInv, IInv', InTurn, InTurn', [Next]_vars, UNCHANGED pushing, NEW s \in Syncs
  PROVE  /\ Uncounted'[s] <= Uncounted[s] + (IF Update THEN 1 ELSE 0)
         /\ writePtr' = writePtr => Coming'[s] <= Coming[s]
<1>a. Uncounted[s] \in {0, 1} /\ Uncounted'[s] \in {0, 1}
  BY DEF Uncounted, Number
<1>1. Uncounted'[s] <= Uncounted[s] + (IF Update THEN 1 ELSE 0)
  <2>1. CASE Update
    BY <1>a, <2>1
  <2>2. CASE ~Update
    <3>1. lpc' = "sync" => lpc = "sync"
      BY <2>2, PhaseStep
    <3>2. Uncounted'[s] <= Uncounted[s]
      BY <3>1 DEF Uncounted, Number
    <3>3. QED
      BY <1>a, <2>2, <3>2
  <2>3. QED
    BY <2>1, <2>2
<1>2. ASSUME writePtr' = writePtr PROVE Coming'[s] <= Coming[s]
  <2>1. Coming[s] = Uncounted[s] + Updates /\ Coming'[s] = Uncounted'[s] + Updates'
    BY DEF Coming
  <2>2. PICK u \in 0..2, v \in 0..2 : /\ u = Updates /\ v = Updates' /\ v <= u
                                      /\ Update => v = u - 1
    BY <1>2, UpdatesStep
  <2>3. PICK a \in {0, 1}, b \in {0, 1} : a = Uncounted[s] /\ b = Uncounted'[s]
    BY <1>a
  <2>4. QED
    BY <1>1, <2>1, <2>2, <2>3
<1>3. QED
  BY <1>1, <1>2

\* What a published rollout has still to wait for never grows, whatever is published
\* behind it: the drain keeps the rollouts it has counted.
LEMMA BeforeStep ==
  ASSUME IInv, IInv', InTurn, InTurn', [Next]_vars, UNCHANGED pushing,
         NEW r \in Nat, r < writePtr, trained' < r
  PROVE  Before'[r] <= Before[r]
<1> USE DEF Draining, Number
<1>a. /\ TypeOK /\ PointerInv /\ TypeOK' /\ PointerInv' /\ StagedInv
  BY DEF IInv
<1>b. writePtr \in Nat /\ newest \in Int /\ Target \in Int
  BY <1>a, RingNumbers, ComingTypes
<1>c. Uncounted["actor"] \in {0, 1} /\ Uncounted'["actor"] \in {0, 1}
  BY DEF Uncounted, Syncs
<1>1. CASE lpc \in Draining /\ lpc' \in Draining
  <2>1. Target' \in Int /\ Target' >= Target
    BY <1>1, TargetStep
  <2>2. Before[r] = IF Target <= r THEN 1 ELSE 0
    BY <1>1 DEF Before
  <2>3. Before'[r] = IF Target' <= r THEN 1 ELSE 0
    BY <1>1 DEF Before
  <2>4. QED
    BY <1>b, <2>1, <2>2, <2>3
<1>2. CASE AllStaged
  <2>1. Before[r] = IF newest + 1 <= r THEN 1 ELSE 0
    BY <1>2 DEF AllStaged, Before, Target
  <2>2. Before'[r] = IF newest < r THEN 1 ELSE 0
    BY <1>2 DEF AllStaged, Before, staging
  <2>3. QED
    BY <1>b, <2>1, <2>2
<1>3. CASE CountNew
  <2>1. Target' \in Int /\ Target' >= writePtr
    BY <1>3, CountTakesAll
  <2>2. Before'[r] = 0
    BY <1>3, <1>b, <2>1 DEF CountNew, Before
  <2>3. Before[r] = Uncounted["actor"]
    BY <1>3 DEF CountNew, Before
  <2>4. QED
    BY <1>c, <2>2, <2>3
<1>4. CASE lpc \notin Draining /\ lpc' \notin Draining
  <2>1. CASE lpc' = "train"
    <3>1. lpc = "train" /\ newest' = newest
      BY <1>4, <2>1, PhaseStep DEF AllStaged
    <3>2. Before'[r] = Before[r] /\ Before[r] \in {0, 1}
      BY <2>1, <3>1 DEF Before
    <3>3. QED
      BY <3>2
  <2>2. CASE lpc' # "train" /\ lpc = "train"
    <3>1. CASE Update
      <4>1. newest < r /\ Before[r] = 1
        BY <2>2, <3>1 DEF Update, Before
      <4>2. Before'[r] \in {0, 1}
        BY <1>c, <1>4, <2>2 DEF Before
      <4>3. QED
        BY <4>1, <4>2
    <3>2. CASE ~Update
      <4>1. lpc' # "sync"
        BY <2>2, <3>2, PhaseStep
      <4>2. Uncounted'["actor"] = 0
        BY <4>1 DEF Uncounted, Syncs
      <4>3. Before'[r] = 0 /\ Before[r] \in {0, 1}
        BY <1>4, <2>2, <4>2 DEF Before
      <4>4. QED
        BY <4>3
    <3>3. QED
      BY <3>1, <3>2
  <2>3. CASE lpc' # "train" /\ lpc # "train"
    <3>1. Before[r] = Uncounted["actor"] /\ Before'[r] = Uncounted'["actor"]
      BY <1>4, <2>3 DEF Before
    <3>2. ~Update
      BY <2>3 DEF Update
    <3>3. Uncounted'["actor"] <= Uncounted["actor"]
      BY <1>c, <3>2, ComingStep DEF Syncs
    <3>4. QED
      BY <3>1, <3>3
  <2>4. QED
    BY <2>1, <2>2, <2>3
<1>5. QED
  BY <1>1, <1>2, <1>3, <1>4, PhaseStep

\* A rollout that is published now waits for no more than was to come for its collector.
LEMMA PublishedWaits ==
  ASSUME IInv, InTurn, SignalWriteDone, UNCHANGED pushing
  PROVE  Before'[writePtr] <= Coming["actor"]
<1> USE DEF Draining, Number
<1>a. /\ TypeOK /\ PointerInv
  BY DEF IInv
<1>1. UNCHANGED <<lpc, newest>> /\ writePtr \in Nat
  BY <1>a, RingNumbers DEF SignalWriteDone, learner, staging
<1>2. Uncounted'["actor"] = Uncounted["actor"] /\ Uncounted["actor"] \in {0, 1}
  BY <1>1 DEF Uncounted, Syncs
<1>3. Coming["actor"] = Uncounted["actor"] + Updates
  BY DEF Coming, Syncs
<1>4. /\ Updates \in 0..2
      /\ lpc \in Draining \cup {"train"} => Updates >= 1
  BY DEF Updates
<1>5. CASE lpc \in Draining \cup {"train"}
  <2>1. Before'[writePtr] \in {0, 1}
    BY <1>1, <1>5 DEF Before
  <2>2. QED
    BY <1>2, <1>3, <1>4, <1>5, <2>1
<1>6. CASE lpc \notin Draining \cup {"train"}
  <2>1. Before'[writePtr] = Uncounted["actor"]
    BY <1>1, <1>2, <1>6 DEF Before
  <2>2. QED
    BY <1>2, <1>3, <1>4, <2>1
<1>7. QED
  BY <1>5, <1>6
-----------------------------------------------------------------------------
(***************************************************************************)
(* The steps of Appo, seen from the weights.                               *)
(***************************************************************************)
\* A step of the ring that is no other action of Appo.
RingStep ==
  /\ UNCHANGED weights /\ [Next]_vars
  /\ lpc = "sync" => lpc' = "sync"
  /\ lpc' = "advance" => newest' = readPtr' \/ (lpc = "advance" /\ UNCHANGED <<readPtr, newest>>)
  /\ \/ SignalWriteDone
     \/ /\ writePtr' = writePtr
        /\ \/ cpc' = cpc \/ cpc' = "dead"
           \/ cpc = "top" /\ cpc' \in {"pull", "exited"}
           \/ cpc \in {"act", "env"} /\ cpc' \in {"act", "env", "signal"}

LEMMA AppoSteps ==
  ASSUME [AppoNext]_allvars
  PROVE  \/ RingStep \/ CollectRollout \/ WeightsWritten
         \/ \E s \in Syncs : CheckVersion(s) \/ ReadVersion(s) \/ CountVersion(s)
         \/ \E s \in Syncs : \E p \in Params(s) : ReadParam(s, p) \/ WriteParam(s, p)
<1>1. CASE RingCollector
  <2>1. [Next]_vars
    BY <1>1 DEF RingCollector, Next, Collector
  <2>2. UNCHANGED learner
    BY <1>1 DEF RingCollector, LoopTop, WriteActing, WriteOutcome, SignalWriteDone
  <2>3. UNCHANGED <<lpc, newest, readPtr>>
    BY <2>2 DEF learner, staging
  <2>4. \/ SignalWriteDone
        \/ /\ writePtr' = writePtr
           /\ \/ cpc = "top" /\ cpc' \in {"pull", "exited"}
              \/ cpc \in {"act", "env"} /\ cpc' \in {"act", "env", "signal"}
    BY <1>1 DEF RingCollector, LoopTop, WriteActing, WriteOutcome
  <2>5. QED
    BY <1>1, <2>1, <2>3, <2>4 DEF RingStep, RingCollector
<1>2. CASE RingFaults
  <2>1. [Next]_vars
    BY <1>2 DEF RingFaults, Next
  <2>2. CASE CollectorRaises \/ CollectorKilled
    BY <1>2, <2>1, <2>2 DEF CollectorRaises, CollectorKilled, RingFaults, RingStep, learner, staging
  <2>3. CASE UpdateRaises
    BY <1>2, <2>1, <2>3 DEF UpdateRaises, RingFaults, RingStep, collector, staging
  <2>4. QED
    BY <1>2, <2>2, <2>3 DEF RingFaults
<1>3. CASE RingLearner
  <2>1. [Next]_vars /\ UNCHANGED weights
    BY <1>3 DEF RingLearner, Next, Learner
  <2>2. CASE NextIteration \/ WaitForData \/ LookAgain \/ SliceEnds \/ BudgetEnds
    BY <2>1, <2>2 DEF NextIteration, WaitForData, LookAgain, SliceEnds, BudgetEnds, RingStep,
      collector
  <2>3. CASE ClampToCount \/ CountNew \/ OpenSlot \/ AllStaged \/ CopyCell \/ Stage
    BY <2>1, <2>3 DEF ClampToCount, CountNew, OpenSlot, AllStaged, CopyCell, Stage, RingStep,
      collector
  <2>4. CASE AdvanceRead \/ Update \/ Close \/ Join
    BY <2>1, <2>4 DEF AdvanceRead, Update, Close, Join, RingStep, collector
  <2>5. QED
    BY <1>3, <2>2, <2>3, <2>4 DEF RingLearner
<1>4. CASE (Closed /\ UNCHANGED weights) \/ UNCHANGED allvars
  BY <1>4 DEF Closed, allvars, vars, collector, learner, staging, RingStep
<1>5. QED
  BY <1>1, <1>2, <1>3, <1>4 DEF AppoNext, AppoCollector, AppoLearner, Pull, Push

\* Whose turn it is.
LEMMA InTurnStep ==
  ASSUME IInv, IInv', WeightTypes, InTurn, [AppoNext]_allvars
  PROVE  InTurn'
<1> USE RolloutAssumption DEF InTurn, At, Following, Finished
<1>a. /\ writePtr \in Nat
      /\ cpc \in {"top", "pull", "act", "env", "signal", "exited", "dead"}
  BY DEF IInv, TypeOK
<1>1. CASE RingStep
  <2>1. pushing' = pushing /\ pulling' = pulling
    BY <1>1 DEF RingStep, weights
  <2>2. CASE SignalWriteDone
    BY <1>1, <1>a, <2>1, <2>2 DEF RingStep, SignalWriteDone, learner, staging
  <2>3. CASE ~SignalWriteDone
    BY <1>1, <1>a, <2>1, <2>3 DEF RingStep
  <2>4. QED
    BY <2>2, <2>3
<1>2. CASE CollectRollout
  BY <1>2, <1>a DEF CollectRollout, StartRollout, learner, staging
<1>3. CASE WeightsWritten
  BY <1>3, <1>a DEF WeightsWritten, EndIteration, collector, staging, Syncs
<1>4. ASSUME NEW s \in Syncs, CheckVersion(s) \/ ReadVersion(s) PROVE InTurn'
  BY <1>4 DEF CheckVersion, ReadVersion, vars, collector, learner, staging
<1>5. ASSUME NEW s \in Syncs, CountVersion(s) PROVE InTurn'
  BY <1>5 DEF CountVersion, Syncs, vars, collector, learner, staging
<1>6. ASSUME NEW s \in Syncs, NEW p \in Params(s), ReadParam(s, p) PROVE InTurn'
  BY <1>6 DEF ReadParam, vars, collector, learner, staging
<1>7. ASSUME NEW s \in Syncs, NEW p \in Params(s), WriteParam(s, p) PROVE InTurn'
  BY <1>7 DEF WriteParam, Params, vars, collector, learner, staging
<1>8. QED
  BY <1>1, <1>2, <1>3, <1>4, <1>5, <1>6, <1>7, AppoSteps

\* One parameter of one sync is replaced.
LEMMA ParamReplaced ==
  ASSUME NEW f, DOMAIN f = Syncs, \A s \in Syncs : DOMAIN f[s] = Params(s),
         NEW s \in Syncs, NEW p \in Params(s), NEW v
  PROVE  /\ DOMAIN [f EXCEPT ![s][p] = v] = Syncs
         /\ \A t \in Syncs :
              /\ DOMAIN [f EXCEPT ![s][p] = v][t] = Params(t)
              /\ \A q \in Params(t) : [f EXCEPT ![s][p] = v][t][q] =
                                        IF t = s /\ q = p THEN v ELSE f[t][q]
OBVIOUS

LEMMA ParamNumbers ==
  \A s \in Syncs : \A p \in Params(s) : p \in Nat \ {0}
BY WeightAssumption DEF Params

LEMMA WeightTypesStep ==
  ASSUME IInv, WeightTypes, InTurn, SharedVersions, [AppoNext]_allvars
  PROVE  WeightTypes'
<1> USE DEF WeightTypes, At, Following, Finished
<1>a. \A s \in Syncs : \A p \in Params(s) : shared[s][p] \in Int
  BY DEF SharedVersions, Number
<1>b. "critic" \in Syncs
  BY DEF Syncs
<1>1. CASE RingStep
  BY <1>1 DEF RingStep, weights
<1>2. CASE CollectRollout
  <2>1. local["actor"] \in Int
    BY DEF Syncs
  <2>2. behaviour' \in [0..(MaxRollouts - 1) -> Int]
    BY <1>2, <2>1 DEF CollectRollout
  <2>3. pulling' \in [sync : Syncs \cup {"none"}, at : Nat]
    BY <1>2 DEF CollectRollout, Syncs
  <2>4. QED
    BY <1>2, <2>2, <2>3 DEF CollectRollout
<1>3. CASE WeightsWritten
  BY <1>3 DEF WeightsWritten, Syncs
<1>4. ASSUME NEW s \in Syncs, CheckVersion(s) PROVE WeightTypes'
  BY <1>4, <1>b DEF CheckVersion
<1>5. ASSUME NEW s \in Syncs, ReadVersion(s) PROVE WeightTypes'
  BY <1>5, <1>b DEF ReadVersion
<1>6. ASSUME NEW s \in Syncs, CountVersion(s) PROVE WeightTypes'
  BY <1>6, <1>b DEF CountVersion
<1>7. ASSUME NEW s \in Syncs, NEW p \in Params(s), ReadParam(s, p) PROVE WeightTypes'
  <2>1. /\ held' = [held EXCEPT ![s][p] = shared[s][p]]
        /\ pulling' = [sync |-> s, at |-> p + 1]
        /\ UNCHANGED <<shared, version, local, pushing, behaviour>>
    BY <1>7 DEF ReadParam
  <2>2. pulling' \in [sync : Syncs \cup {"none"}, at : Nat]
    BY <2>1, ParamNumbers
  <2>3. DOMAIN held' = Syncs /\ \A t \in Syncs : DOMAIN held'[t] = Params(t)
    BY <2>1, ParamReplaced
  <2>4. \A t \in Syncs : \A q \in Params(t) :
          held'[t][q] = IF t = s /\ q = p THEN shared[s][p] ELSE held[t][q]
    BY <2>1, ParamReplaced
  <2>5. \A t \in Syncs : \A q \in Params(t) : held'[t][q] \in Int
    BY <2>4, <1>a, SMTT(30)
  <2>6. QED
    BY <2>1, <2>2, <2>3, <2>5
<1>8. ASSUME NEW s \in Syncs, NEW p \in Params(s), WriteParam(s, p) PROVE WeightTypes'
  <2>1. /\ shared' = [shared EXCEPT ![s][p] = version[s] + 1]
        /\ pushing' = [sync |-> s, at |-> p + 1]
        /\ UNCHANGED <<held, version, local, pulling, behaviour>>
    BY <1>8 DEF WriteParam
  <2>2. pushing' \in [sync : Syncs \cup {"none"}, at : Nat]
    BY <2>1, ParamNumbers
  <2>3. DOMAIN shared' = Syncs /\ \A t \in Syncs : DOMAIN shared'[t] = Params(t)
    BY <2>1, ParamReplaced
  <2>4. QED
    BY <2>1, <2>2, <2>3
<1>9. QED
  BY <1>1, <1>2, <1>3, <1>4, <1>5, <1>6, <1>7, <1>8, AppoSteps

\* The parameters of a version are written before it is counted.
LEMMA SharedStep ==
  ASSUME IInv, WeightTypes, InTurn, SharedVersions, [AppoNext]_allvars
  PROVE  SharedVersions'
<1> USE DEF SharedVersions, Number
<1>1. CASE RingStep
  BY <1>1 DEF RingStep, weights
<1>2. CASE CollectRollout
  BY <1>2 DEF CollectRollout
<1>3. CASE WeightsWritten
  <2>1. /\ pushing.sync = "none" /\ pushing'.sync = "actor" /\ pushing'.at = 1
        /\ UNCHANGED <<shared, version>>
    BY <1>3 DEF WeightsWritten, Finished, At
  <2>2. "none" \notin Syncs
    BY DEF Syncs
  <2>3. QED
    BY <2>1, <2>2, ParamNumbers
<1>4. ASSUME NEW s \in Syncs, CheckVersion(s) \/ ReadVersion(s) PROVE SharedVersions'
  BY <1>4 DEF CheckVersion, ReadVersion
<1>5. ASSUME NEW s \in Syncs, CountVersion(s) PROVE SharedVersions'
  <2>1. /\ pushing.sync = s /\ pushing.at \notin Params(s) /\ shared' = shared
        /\ pushing'.at \in {0, 1} /\ pushing'.sync # s
        /\ \A t \in Syncs : version'[t] = IF t = s THEN version[s] + 1 ELSE version[t]
    BY <1>5 DEF CountVersion, Following, Finished, At, WeightTypes, Syncs
  <2>2. pushing.at \in Nat /\ pushing.at >= 1
    BY <1>5, <2>1 DEF InTurn, WeightTypes
  <2>3. \A p \in Params(s) : p < pushing.at
    BY <2>1, <2>2, WeightAssumption DEF Params
  <2>4. ASSUME NEW t \in Syncs, NEW p \in Params(t)
        PROVE  shared'[t][p] = version'[t] + Number(pushing'.sync = t /\ p < pushing'.at)
    <3>1. ~(p < pushing'.at)
      BY <2>1, ParamNumbers
    <3>2. version[t] \in Int
      BY DEF WeightTypes
    <3>3. shared[t][p] = version'[t]
      BY <2>1, <2>3, <3>2
    <3>4. QED
      BY <2>1, <3>1, <3>2, <3>3
  <2>5. QED
    BY <2>4
<1>6. ASSUME NEW s \in Syncs, NEW p \in Params(s), ReadParam(s, p) PROVE SharedVersions'
  BY <1>6 DEF ReadParam
<1>7. ASSUME NEW s \in Syncs, NEW p \in Params(s), WriteParam(s, p) PROVE SharedVersions'
  <2>1. /\ pushing.sync = s /\ pushing.at = p /\ pushing'.sync = s /\ pushing'.at = p + 1
        /\ version' = version /\ shared' = [shared EXCEPT ![s][p] = version[s] + 1]
    BY <1>7 DEF WriteParam, At
  <2>2. \A t \in Syncs : \A q \in Params(t) :
          shared'[t][q] = IF t = s /\ q = p THEN version[s] + 1 ELSE shared[t][q]
    BY <2>1, ParamReplaced DEF WeightTypes
  <2>3. QED
    BY <2>1, <2>2, ParamNumbers
<1>8. QED
  BY <1>1, <1>2, <1>3, <1>4, <1>5, <1>6, <1>7, AppoSteps

\* What is counted and what is to come, together, only shrinks until the next rollout is
\* published; and for a rollout that is published it only shrinks.
LEMMA VersionsStep ==
  ASSUME IInv, IInv', WeightTypes, InTurn, InTurn', [AppoNext]_allvars
  PROVE  /\ \A s \in Syncs : version'[s] >= version[s]
         /\ writePtr' = writePtr =>
              \A s \in Syncs : version'[s] + Coming'[s] <= version[s] + Coming[s]
         /\ \A r \in 0..(writePtr - 1) : trained' < r =>
              version'["actor"] + Before'[r] <= version["actor"] + Before[r]
<1>a. /\ \A s \in Syncs : Uncounted[s] \in {0, 1} /\ Coming[s] \in 0..2 /\ version[s] \in Int
      /\ \A r \in Nat : Before[r] \in {0, 1}
      /\ writePtr \in Nat /\ "actor" \in Syncs
  BY ComingTypes, RingNumbers DEF IInv, WeightTypes, Syncs
<1>b. [Next]_vars
  BY AppoStepIsRingStep
<1>c. \A s \in Syncs : Uncounted'[s] \in {0, 1}
  BY DEF Uncounted, Number
<1>d. \A s \in Syncs :
        Coming[s] = Uncounted[s] + Updates /\ Coming'[s] = Uncounted'[s] + Updates'
  BY DEF Coming
<1>e. Updates \in 0..2 /\ Updates' \in 0..2
  BY DEF Updates, Number
<1>1. CASE UNCHANGED <<version, pushing>>
  <2>1. \A s \in Syncs : writePtr' = writePtr => Coming'[s] <= Coming[s]
    BY <1>1, <1>b, ComingStep
  <2>2. \A r \in 0..(writePtr - 1) : trained' < r => Before'[r] <= Before[r]
    BY <1>1, <1>a, <1>b, BeforeStep
  <2>3. \A s \in Syncs : Coming'[s] \in Int
    BY <1>c, <1>d, <1>e
  <2>4. \A r \in Nat : Before'[r] \in Int
    BY <1>a, <1>c DEF Before, Number
  <2>5. QED
    BY <1>1, <1>a, <2>1, <2>2, <2>3, <2>4
<1>2. ASSUME NEW s \in Syncs, NEW p \in Params(s), WriteParam(s, p), UNCHANGED vars
      PROVE  UNCHANGED <<version, Coming, Before>>
  <2>1. pushing'.sync = pushing.sync /\ version' = version
    BY <1>2 DEF WriteParam, At
  <2>2. UNCHANGED <<writePtr, readPtr, lpc, remaining, newest>>
    BY <1>2 DEF vars, collector, learner, staging
  <2>3. Uncounted' = Uncounted
    BY <2>1, <2>2 DEF Uncounted
  <2>4. Target' = Target
    BY <2>2 DEF Target, Clamped, Oldest
  <2>5. Updates' = Updates
    BY <2>2, <2>4 DEF Updates
  <2>6. Coming' = Coming
    BY <2>3, <2>5 DEF Coming
  <2>7. Before' = Before
    BY <2>2, <2>3, <2>4 DEF Before
  <2>8. QED
    BY <2>1, <2>6, <2>7
<1>3. ASSUME NEW c \in Syncs, CountVersion(c)
      PROVE  /\ \A s \in Syncs : /\ version'[s] >= version[s]
                                 /\ version'[s] + Coming'[s] <= version[s] + Coming[s]
             /\ \A r \in Nat : version'["actor"] + Before'[r] <= version["actor"] + Before[r]
  <2>1. /\ lpc = "sync" /\ lpc' = "sync" /\ pushing.sync = c
        /\ pushing'.sync = IF c = "actor" THEN "critic" ELSE "none"
        /\ UNCHANGED <<writePtr, readPtr>>
    BY <1>3 DEF CountVersion, Following, Finished, At, vars, collector, learner
  <2>2. \A s \in Syncs : version'[s] = IF s = c THEN version[s] + 1 ELSE version[s]
    BY <1>3 DEF CountVersion, WeightTypes
  <2>3. /\ \A s \in Syncs : Uncounted'[s] <= Uncounted[s]
        /\ Uncounted[c] = 1 /\ Uncounted'[c] = 0
    BY <2>1 DEF Uncounted, Number, Syncs
  <2>4. Updates' = Updates
    BY <2>1 DEF Updates, Draining
  <2>5. ASSUME NEW s \in Syncs
        PROVE  /\ version'[s] >= version[s]
               /\ version'[s] + Coming'[s] <= version[s] + Coming[s]
               /\ version'[s] + Uncounted'[s] <= version[s] + Uncounted[s]
    BY <2>2, <2>3, <2>4, <1>a, <1>c, <1>d, <1>e
  <2>6. \A r \in Nat : Before[r] = Uncounted["actor"] /\ Before'[r] = Uncounted'["actor"]
    BY <2>1 DEF Before, Draining
  <2>7. QED
    BY <2>5, <2>6, <1>a
<1>4. CASE WeightsWritten
  <2>1. /\ pushing.sync = "none" /\ version' = version /\ lpc = "sync" /\ lpc' = "next"
        /\ writePtr' = writePtr
    BY <1>4 DEF WeightsWritten, EndIteration, Finished, At, collector
  <2>2. \A s \in Syncs : Uncounted[s] = 0 /\ Uncounted'[s] = 0
    BY <2>1 DEF Uncounted, Number, Syncs
  <2>3. Updates' <= Updates
    BY <1>b, <2>1, UpdatesStep
  <2>4. \A r \in Nat : Before[r] = 0 /\ Before'[r] = 0
    BY <2>1, <2>2, <1>a DEF Before, Draining
  <2>5. QED
    BY <2>1, <2>2, <2>3, <2>4, <1>a, <1>d, <1>e
<1>5. CASE RingStep \/ CollectRollout \/ \E s \in Syncs : CheckVersion(s) \/ ReadVersion(s)
  BY <1>1, <1>5 DEF RingStep, weights, CollectRollout, CheckVersion, ReadVersion
<1>6. ASSUME NEW s \in Syncs, NEW p \in Params(s), ReadParam(s, p)
      PROVE  UNCHANGED <<version, pushing>>
  BY <1>6 DEF ReadParam
<1>7. ASSUME NEW s \in Syncs, NEW p \in Params(s), WriteParam(s, p)
      PROVE  UNCHANGED <<version, Coming, Before, writePtr, trained>>
  BY <1>2, <1>7 DEF WriteParam, vars, collector, learner
<1>8. CASE UNCHANGED <<version, Coming, Before>>
  BY <1>8, <1>a
<1>9. CASE \E s \in Syncs : CountVersion(s)
  BY <1>3, <1>9
<1>10. QED
  BY <1>1, <1>4, <1>5, <1>6, <1>7, <1>8, <1>9, AppoSteps

\* A read in progress, and what it has left in the collector's networks.
LEMMA ReadLagStep ==
  ASSUME IInv, IInv', WeightTypes, WeightTypes', InTurn, InTurn', SharedVersions, ReadLag, HeldLag,
         [AppoNext]_allvars
  PROVE  ReadLag' /\ HeldLag'
<1>a. \A s \in Syncs : /\ Coming[s] \in 0..2 /\ version[s] \in Int /\ local[s] \in Int
                       /\ version[s] >= local[s]
                       /\ \A p \in Params(s) : held[s][p] \in Int /\ p \in Nat \ {0}
  BY ComingTypes, ParamNumbers DEF IInv, WeightTypes, ReadLag
<1>b. \A s \in Syncs : version'[s] >= version[s] /\ version'[s] \in Int
  BY VersionsStep DEF WeightTypes
<1>c. \A s \in Syncs : Coming'[s] \in Int
  BY DEF Coming, Uncounted, Updates, Number
<1>d. ASSUME writePtr' = writePtr
      PROVE  \A s \in Syncs : version'[s] + Coming'[s] <= version[s] + Coming[s]
  BY <1>d, VersionsStep
<1>e. pulling.at \in Nat
  BY DEF WeightTypes
<1>1. ASSUME UNCHANGED <<held, local>>,
             cpc' = "pull" => \A s \in Syncs : \A p \in Params(s) :
               pulling'.sync = s /\ p < pulling'.at =>
                 cpc = "pull" /\ writePtr' = writePtr /\ pulling.sync = s /\ p < pulling.at
      PROVE  ReadLag' /\ HeldLag'
  <2>1. HeldLag'
    BY <1>1 DEF HeldLag
  <2>2. \A s \in Syncs : local'[s] <= version'[s]
    BY <1>1, <1>a, <1>b
  <2>3. ASSUME cpc' = "pull", NEW s \in Syncs, NEW p \in Params(s),
               pulling'.sync = s, p < pulling'.at
        PROVE  version'[s] + Coming'[s] <= held'[s][p] + 2
    <3>1. version[s] + Coming[s] <= held[s][p] + 2
      BY <1>1, <2>3 DEF ReadLag
    <3>2. version'[s] + Coming'[s] <= version[s] + Coming[s]
      BY <1>1, <1>d, <2>3
    <3>3. QED
      BY <1>1, <1>a, <1>b, <1>c, <3>1, <3>2
  <2>4. QED
    BY <2>1, <2>2, <2>3 DEF ReadLag
<1>2. CASE RingStep
  <2>1. UNCHANGED <<held, local, pulling>>
    BY <1>2 DEF RingStep, weights
  <2>2. cpc' = "pull" => (cpc = "pull" /\ writePtr' = writePtr) \/ cpc = "top"
    BY <1>2 DEF RingStep, SignalWriteDone
  <2>3. cpc = "top" => pulling.at = 0
    BY DEF InTurn, At
  <2>4. QED
    BY <1>1, <1>a, <2>1, <2>2, <2>3
<1>3. CASE CollectRollout
  BY <1>1, <1>3 DEF CollectRollout, StartRollout
<1>4. CASE WeightsWritten
  BY <1>1, <1>4 DEF WeightsWritten, EndIteration, collector
<1>5. ASSUME NEW s \in Syncs, CountVersion(s) PROVE ReadLag' /\ HeldLag'
  BY <1>1, <1>5 DEF CountVersion, vars, collector
<1>6. ASSUME NEW s \in Syncs, NEW p \in Params(s), WriteParam(s, p) PROVE ReadLag' /\ HeldLag'
  BY <1>1, <1>6 DEF WriteParam, vars, collector
<1>7. ASSUME NEW s \in Syncs, CheckVersion(s) PROVE ReadLag' /\ HeldLag'
  <2>1. pulling'.at \in {0, 1} /\ UNCHANGED <<held, local>>
    BY <1>7 DEF CheckVersion, At, Following, Finished
  <2>2. \A t \in Syncs : \A p \in Params(t) : ~(p < pulling'.at)
    BY <1>a, <2>1
  <2>3. QED
    BY <1>1, <2>1, <2>2
<1>8. ASSUME NEW s \in Syncs, ReadVersion(s) PROVE ReadLag' /\ HeldLag'
  <2>1. /\ cpc = "pull" /\ pulling.sync = s /\ pulling.at > 0 /\ pulling.at \notin Params(s)
        /\ pulling'.at = 0 /\ UNCHANGED <<held, version>>
        /\ \A t \in Syncs : local'[t] = IF t = s THEN version[s] ELSE local[t]
    BY <1>8 DEF ReadVersion, Following, Finished, At, WeightTypes
  <2>2. \A p \in Params(s) : p < pulling.at
    BY <2>1, <1>e, WeightAssumption DEF Params
  <2>3. \A p \in Params(s) : version[s] - held[s][p] <= 2
    BY <2>1, <2>2, <1>a DEF ReadLag
  <2>4. HeldLag'
    BY <2>1, <2>3 DEF HeldLag
  <2>5. \A t \in Syncs : local'[t] <= version'[t]
    BY <2>1, <1>a
  <2>6. \A t \in Syncs : \A p \in Params(t) : ~(p < pulling'.at)
    BY <1>a, <2>1
  <2>7. QED
    BY <2>4, <2>5, <2>6 DEF ReadLag
<1>9. ASSUME NEW s \in Syncs, NEW p \in Params(s), ReadParam(s, p) PROVE ReadLag' /\ HeldLag'
  <2>1. /\ cpc = "pull" /\ pulling.sync = s /\ pulling.at = p
        /\ pulling'.sync = s /\ pulling'.at = p + 1
        /\ held' = [held EXCEPT ![s][p] = shared[s][p]] /\ UNCHANGED <<version, local, writePtr>>
    BY <1>9 DEF ReadParam, At, vars, collector
  <2>2. \A t \in Syncs : \A q \in Params(t) :
          held'[t][q] = IF t = s /\ q = p THEN shared[s][p] ELSE held[t][q]
    BY <2>1, ParamReplaced, SMTT(30) DEF WeightTypes
  <2>3. shared[s][p] \in Int /\ shared[s][p] >= version[s]
    BY <1>a DEF SharedVersions, Number
  <2>4. \A t \in Syncs : \A q \in Params(t) : local'[t] - held'[t][q] <= 2
    BY <2>1, <2>2, <2>3, <1>a DEF HeldLag
  <2>5. \A t \in Syncs : local'[t] <= version'[t]
    BY <2>1, <1>a
  <2>6. ASSUME NEW q \in Params(s), q < p + 1
        PROVE  version'[s] + Coming'[s] <= held'[s][q] + 2
    <3>1. version[s] + Coming[s] <= held'[s][q] + 2
      <4>1. CASE q = p
        BY <4>1, <2>2, <2>3, <1>a
      <4>2. CASE q # p
        <5>1. q < pulling.at
          BY <2>1, <2>6, <4>2, <1>a
        <5>2. version[s] + Coming[s] <= held[s][q] + 2
          BY <2>1, <5>1 DEF ReadLag
        <5>3. QED
          BY <2>2, <4>2, <5>2
      <4>3. QED
        BY <4>1, <4>2
    <3>2. held'[s][q] \in Int
      BY <2>2, <2>3, <1>a
    <3>3. QED
      BY <2>1, <3>1, <3>2, <1>a, <1>b, <1>c, <1>d
  <2>7. QED
    BY <2>1, <2>4, <2>5, <2>6 DEF ReadLag, HeldLag
<1>10. QED
  BY <1>2, <1>3, <1>4, <1>5, <1>6, <1>7, <1>8, <1>9, AppoSteps

\* A rollout, from the look at the version to the update it enters.
LEMMA RolloutLagStep ==
  ASSUME IInv, IInv', WeightTypes, WeightTypes', InTurn, InTurn', ReadLag, RolloutLag,
         [AppoNext]_allvars
  PROVE  RolloutLag'
<1>a. /\ Coming["actor"] \in 0..2 /\ version["actor"] \in Int /\ local["actor"] \in Int
      /\ \A r \in Nat : Before[r] \in {0, 1}
      /\ writePtr \in Nat /\ "actor" \in Syncs
  BY ComingTypes, RingNumbers DEF IInv, WeightTypes, Syncs
<1>b. /\ version'["actor"] \in Int /\ Coming'["actor"] \in Int /\ local'["actor"] \in Int
      /\ \A r \in Nat : Before'[r] \in Int
  <2>1. Uncounted'["actor"] \in {0, 1} /\ Updates' \in 0..2
    BY DEF Uncounted, Number, Syncs, Updates
  <2>2. QED
    BY <2>1 DEF WeightTypes, Coming, Before, Number, Syncs
<1>c. writePtr' = writePtr =>
        version'["actor"] + Coming'["actor"] <= version["actor"] + Coming["actor"]
  BY <1>a, VersionsStep
<1>d. [Next]_vars
  BY AppoStepIsRingStep
<1>e. trained' >= trained /\ trained \in Int /\ trained' \in Int
  <2>1. trained \in Int /\ newest \in Int /\ trained <= newest
    BY RingNumbers DEF IInv, StagedInv
  <2>2. QED
    BY <1>d, <2>1, PhaseStep
<1>f. \A r \in 0..(MaxRollouts - 1) : behaviour[r] \in Int /\ behaviour'[r] \in Int
  BY DEF WeightTypes
<1>g. MaxRollouts \in Nat /\ writePtr <= MaxRollouts
  BY RolloutAssumption DEF InTurn
<1> DEFINE Waits(r) == version'["actor"] + Before'[r] <= behaviour'[r] + 2
           Collected == version["actor"] + Coming["actor"] <= behaviour'[writePtr] + 2
           Taken == version["actor"] + Coming["actor"] <= local'["actor"] + 2
\* the published rollouts
<1>1. ASSUME NEW r \in 0..(writePtr - 1), trained' < r, behaviour'[r] = behaviour[r]
      PROVE  Waits(r)
  <2>1. version["actor"] + Before[r] <= behaviour[r] + 2
    BY <1>1, <1>e, <1>a DEF RolloutLag
  <2>2. version'["actor"] + Before'[r] <= version["actor"] + Before[r]
    BY <1>1, VersionsStep
  <2>3. r \in Nat /\ behaviour[r] \in Int
    BY <1>a, <1>f, <1>g
  <2>4. QED
    BY <1>1, <2>1, <2>2, <2>3, <1>a, <1>b
\* a step that publishes nothing
<1>2. ASSUME writePtr' = writePtr,
             \A r \in 0..(writePtr - 1) : behaviour'[r] = behaviour[r],
             cpc' \in {"act", "env", "signal"} => Collected,
             cpc' = "pull" /\ pulling'.sync # "actor" => Taken
      PROVE  RolloutLag'
  <2>1. cpc' = "pull" /\ pulling'.sync # "actor" =>
          version'["actor"] + Coming'["actor"] <= local'["actor"] + 2
    BY <1>2, <1>a, <1>b, <1>c
  <2>2. ASSUME cpc' \in {"act", "env", "signal"}
        PROVE  version'["actor"] + Coming'["actor"] <= behaviour'[writePtr'] + 2
    <3>1. writePtr \in 0..(MaxRollouts - 1)
      BY <1>2, <1>a, <1>g, <2>2 DEF InTurn
    <3>2. QED
      BY <1>2, <1>a, <1>b, <1>c, <1>f, <2>2, <3>1
  <2>3. \A r \in 0..(writePtr' - 1) : trained' < r => Waits(r)
    BY <1>1, <1>2
  <2>4. QED
    BY <2>1, <2>2, <2>3 DEF RolloutLag
\* ... or collects or takes nothing either
<1>3. ASSUME writePtr' = writePtr, UNCHANGED behaviour,
             cpc' \in {"act", "env", "signal"} => cpc \in {"act", "env", "signal"},
             cpc' = "pull" /\ pulling'.sync # "actor" =>
               cpc = "pull" /\ pulling.sync # "actor" /\ local'["actor"] = local["actor"]
      PROVE  RolloutLag'
  <2>1. cpc' \in {"act", "env", "signal"} => Collected
    BY <1>3 DEF RolloutLag
  <2>2. cpc' = "pull" /\ pulling'.sync # "actor" => Taken
    BY <1>3 DEF RolloutLag
  <2>3. QED
    BY <1>2, <1>3, <2>1, <2>2
<1>4. CASE RingStep /\ SignalWriteDone
  <2>1. /\ writePtr' = writePtr + 1 /\ cpc = "signal" /\ cpc' = "top"
        /\ UNCHANGED <<behaviour, pushing, version>>
    BY <1>4 DEF RingStep, SignalWriteDone, weights
  <2>2. Waits(writePtr)
    <3>1. version["actor"] + Coming["actor"] <= behaviour[writePtr] + 2
      BY <2>1 DEF RolloutLag
    <3>2. Before'[writePtr] <= Coming["actor"]
      BY <1>4, <2>1, PublishedWaits
    <3>3. writePtr \in 0..(MaxRollouts - 1)
      BY <2>1, <1>a, <1>g DEF InTurn
    <3>4. QED
      BY <2>1, <3>1, <3>2, <3>3, <1>a, <1>b, <1>f
  <2>3. \A r \in 0..(writePtr' - 1) : trained' < r => Waits(r)
    <3>1. \A r \in 0..(writePtr' - 1) : r = writePtr \/ r \in 0..(writePtr - 1)
      BY <2>1, <1>a
    <3>2. QED
      BY <2>1, <2>2, <3>1, <1>1
  <2>4. QED
    BY <2>1, <2>3 DEF RolloutLag
<1>5. CASE RingStep /\ ~SignalWriteDone
  <2>1. UNCHANGED <<behaviour, pulling, local>> /\ writePtr' = writePtr
    BY <1>5 DEF RingStep, weights
  <2>2. cpc' = "pull" => cpc = "pull" \/ pulling.sync = "actor"
    BY <1>5 DEF RingStep, InTurn, At
  <2>3. cpc' \in {"act", "env", "signal"} => cpc \in {"act", "env", "signal"}
    BY <1>5 DEF RingStep
  <2>4. QED
    BY <1>3, <2>1, <2>2, <2>3
<1>6. CASE CollectRollout
  <2>1. /\ cpc = "pull" /\ cpc' = "act" /\ pulling.sync = "none" /\ writePtr' = writePtr
        /\ behaviour' = [behaviour EXCEPT ![writePtr] = local["actor"]]
        /\ writePtr < MaxRollouts
    BY <1>6 DEF CollectRollout, StartRollout, Finished, At
  <2>2. behaviour'[writePtr] = local["actor"]
    BY <2>1, <1>a, <1>g DEF WeightTypes
  <2>3. \A r \in 0..(writePtr - 1) : behaviour'[r] = behaviour[r]
    BY <2>1, <1>a, <1>g DEF WeightTypes
  <2>4. Collected
    BY <2>1, <2>2 DEF RolloutLag
  <2>5. QED
    BY <1>2, <2>1, <2>3, <2>4
<1>7. CASE WeightsWritten
  BY <1>3, <1>7 DEF WeightsWritten, EndIteration, collector
<1>8. ASSUME NEW s \in Syncs, CountVersion(s) PROVE RolloutLag'
  BY <1>3, <1>8 DEF CountVersion, vars, collector
<1>9. ASSUME NEW s \in Syncs, NEW p \in Params(s), WriteParam(s, p) \/ ReadParam(s, p)
      PROVE  RolloutLag'
  BY <1>3, <1>9 DEF WriteParam, ReadParam, At, vars, collector
<1>10. ASSUME NEW s \in Syncs, CheckVersion(s) \/ ReadVersion(s) PROVE RolloutLag'
  <2>1. /\ cpc = "pull" /\ cpc' = "pull" /\ writePtr' = writePtr /\ UNCHANGED behaviour
        /\ pulling.sync = s
    BY <1>10 DEF CheckVersion, ReadVersion, At, vars, collector
  <2>2. CASE s = "actor"
    <3>1. pulling'.sync # "actor" => version["actor"] <= local'["actor"]
      BY <1>10, <2>2, <1>a DEF CheckVersion, ReadVersion, At, WeightTypes
    <3>2. pulling'.sync # "actor" => Taken
      BY <3>1, <1>a, <1>b
    <3>3. QED
      BY <1>2, <2>1, <3>2
  <2>3. CASE s # "actor"
    <3>1. local'["actor"] = local["actor"]
      BY <1>10, <2>3, <1>a DEF CheckVersion, ReadVersion, WeightTypes
    <3>2. QED
      BY <1>3, <2>1, <2>3, <3>1
  <2>4. QED
    BY <2>2, <2>3
<1>11. QED
  BY <1>4, <1>5, <1>6, <1>7, <1>8, <1>9, <1>10, AppoSteps
-----------------------------------------------------------------------------
LEMMA InitLagInv == AppoInit => LagInv
<1> SUFFICES ASSUME AppoInit PROVE LagInv
  OBVIOUS
<1> USE RolloutAssumption, WeightAssumption
<1>1. WeightTypes
  <2>1. Syncs # {} /\ "actor" \in Syncs
    BY DEF Syncs
  <2>2. QED
    BY <2>1 DEF AppoInit, WeightTypes, At
<1>2. InTurn
  BY DEF AppoInit, Init, InTurn, At
<1>3. SharedVersions
  BY ParamNumbers DEF AppoInit, SharedVersions, Number, At
<1>4. ReadLag /\ HeldLag
  BY ParamNumbers DEF AppoInit, Init, ReadLag, HeldLag, At
<1>5. RolloutLag
  BY DEF AppoInit, Init, RolloutLag
<1>6. QED
  BY <1>1, <1>2, <1>3, <1>4, <1>5 DEF LagInv

LEMMA LagInvariant == AppoSpec => []LagInv
<1>1. AppoSpec => []IInv
  BY AppoImplementsRing, IInvInvariant, PTL
<1>2. LagInv /\ IInv /\ IInv' /\ [AppoNext]_allvars => LagInv'
  <2> SUFFICES ASSUME LagInv, IInv, IInv', [AppoNext]_allvars PROVE LagInv'
    OBVIOUS
  <2>1. WeightTypes /\ InTurn /\ SharedVersions /\ ReadLag /\ RolloutLag /\ HeldLag
    BY DEF LagInv
  <2>2. InTurn'
    BY <2>1, InTurnStep
  <2>3. WeightTypes' /\ SharedVersions'
    BY <2>1, WeightTypesStep, SharedStep
  <2>4. ReadLag' /\ HeldLag'
    BY <2>1, <2>2, <2>3, ReadLagStep
  <2>5. RolloutLag'
    BY <2>1, <2>2, <2>3, RolloutLagStep
  <2>6. QED
    BY <2>2, <2>3, <2>4, <2>5 DEF LagInv
<1>3. QED
  BY <1>1, <1>2, InitLagInv, PTL DEF AppoSpec

\* The weights the collector runs are at most two versions behind the version it takes
\* them for, although its read takes no lock: no rollout is published during the read, and
\* at most two updates can be finished without one.
THEOREM HeldIsTwoBehind == AppoSpec => []HeldLag
BY LagInvariant, PTL DEF LagInv

\* No rollout enters its first update more than two versions after the one its collector
\* took its actor for.
THEOREM RolloutsAreTwoBehind == AppoSpec => []CollectedLag
<1>1. AppoSpec => []IInv
  BY AppoImplementsRing, IInvInvariant, PTL
<1>2. IInv /\ LagInv => CollectedLag
  <2> SUFFICES ASSUME IInv, LagInv, lpc = "train", NEW r \in 0..newest, r > trained
               PROVE  version["actor"] - behaviour[r] <= 2
    BY DEF CollectedLag
  <2>1. /\ newest < readPtr /\ readPtr <= writePtr
        /\ writePtr \in Nat /\ readPtr \in Nat /\ newest \in Int /\ writePtr <= MaxRollouts
    BY RingNumbers DEF IInv, StagedInv, PointerInv, LagInv, InTurn
  <2>2. r \in 0..(writePtr - 1) /\ r \in Nat
    BY <2>1
  <2>3. Before[r] = 0
    BY <2>1, <2>2 DEF Before, Draining, Number
  <2>4. version["actor"] \in Int /\ behaviour[r] \in Int
    <3>1. "actor" \in Syncs /\ r \in 0..(MaxRollouts - 1)
      BY <2>1, <2>2, RolloutAssumption DEF Syncs
    <3>2. QED
      BY <3>1 DEF LagInv, WeightTypes
  <2>5. version["actor"] + Before[r] <= behaviour[r] + 2
    BY <2>2 DEF LagInv, RolloutLag
  <2>6. QED
    BY <2>3, <2>4, <2>5
<1>3. QED
  BY <1>1, <1>2, LagInvariant, PTL
=============================================================================
