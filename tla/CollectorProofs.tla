--------------------------- MODULE CollectorProofs ---------------------------
(***************************************************************************)
(* What the collector hands over besides replay rows, for every value of   *)
(* the constants: the episodes of its metric reports (CollectorMetrics)    *)
(* and the receipts of its device writes (IngressReceipts).                *)
(***************************************************************************)
EXTENDS CollectorMetrics, SequenceTheorems, TLAPS

\* Episodes a + 1 to b in the order in which they finished.
Episodes(a, b) == [i \in 1..(b - a) |-> a + i]

\* The episode before the oldest of a report over the first n.
Before(n) == IF n > History THEN n - History ELSE 0

\* Where the finished episodes are: in the accepted reports, in the window of the refused
\* ones, in the device window, in this order and without a gap.
WindowInv ==
  /\ accounted \in Nat /\ doneWindow \in Nat /\ finished \in Nat
  /\ accounted + doneWindow <= finished
  /\ pendingFlush = Episodes(accounted, accounted + doneWindow)
  /\ window = Episodes(accounted + doneWindow, finished)
  /\ epRewards = Episodes(Before(accounted), accounted)
  /\ reasons \in Nat /\ (~raising => reasons = finished - accounted)
  /\ refused \in BOOLEAN /\ (~refused => doneWindow = 0)

\* The last report that says anything: in a queue that holds it, or with the learner.
NewestIn(queue, report) ==
  \E i \in 1..Len(queue) :
    /\ queue[i].report = report
    /\ \A j \in 1..Len(queue) : j > i => queue[j].report = <<>>
Silent(queue) == \A i \in 1..Len(queue) : queue[i].report = <<>>

Messages == [kind : {"manifest", "window", "final", "error"}, report : Seq(Nat),
             done : Nat, reasons : Nat]
QueueInv ==
  /\ buffered \in Seq(Messages) /\ pipe \in Seq(Messages)
  /\ \A i \in 1..Len(buffered) :
       buffered[i].reasons = buffered[i].done \/ (raising /\ buffered[i].kind = "final")
  /\ \/ ended = "terminated"
     \/ epRewards # <<>> /\ NewestIn(buffered, epRewards)
     \/ epRewards # <<>> /\ Silent(buffered) /\ NewestIn(pipe, epRewards)
     \/ Silent(buffered) /\ Silent(pipe) /\ lastReport = epRewards

\* What is left to tell at each step of the way out.
EndInv ==
  /\ raising => cpc \in {"final", "report", "exit"}
  /\ cpc \in {"report", "exit"} /\ ~finalLost => accounted = finished
  /\ ended \in {"no", "exited", "terminated"}
  /\ ended = "exited" => cpc = "exit" /\ buffered = <<>>
  /\ lpc \in {"last", "done"} => ended # "no"
  /\ lpc = "done" => pipe = <<>>

MetricsInv == WindowInv /\ QueueInv /\ EndInv

-----------------------------------------------------------------------------
LEMMA EpisodesFacts ==
  ASSUME NEW a \in Nat, NEW b \in Nat, a <= b
  PROVE  /\ Episodes(a, b) \in Seq(Nat) /\ Len(Episodes(a, b)) = b - a
         /\ DOMAIN Episodes(a, b) = 1..(b - a)
         /\ \A i \in 1..(b - a) : Episodes(a, b)[i] = a + i
         /\ Episodes(a, b) = <<>> <=> a = b
<1>1. Episodes(a, b) \in Seq(Nat) /\ Len(Episodes(a, b)) = b - a
  BY DEF Episodes
<1>2. DOMAIN Episodes(a, b) = 1..(b - a) /\ \A i \in 1..(b - a) : Episodes(a, b)[i] = a + i
  BY DEF Episodes
<1>3. QED
  BY <1>1, <1>2

\* Windows that follow each other make one.
LEMMA EpisodesConcat ==
  ASSUME NEW a \in Nat, NEW b \in Nat, NEW c \in Nat, a <= b, b <= c
  PROVE  Episodes(a, b) \o Episodes(b, c) = Episodes(a, c)
<1> DEFINE left == Episodes(a, b)
           right == Episodes(b, c)
           all == Episodes(a, c)
<1>1. left \in Seq(Nat) /\ Len(left) = b - a /\ \A i \in 1..(b - a) : left[i] = a + i
  BY EpisodesFacts
<1>2. right \in Seq(Nat) /\ Len(right) = c - b /\ \A i \in 1..(c - b) : right[i] = b + i
  BY EpisodesFacts
<1>3. all \in Seq(Nat) /\ Len(all) = c - a /\ \A i \in 1..(c - a) : all[i] = a + i
  <2>1. a <= c
    OBVIOUS
  <2>2. QED
    BY <2>1, EpisodesFacts
<1> HIDE DEF left, right, all
<1>4. /\ left \o right \in Seq(Nat) /\ Len(left \o right) = Len(left) + Len(right)
      /\ \A i \in 1..(Len(left) + Len(right)) :
           (left \o right)[i] = IF i <= Len(left) THEN left[i] ELSE right[i - Len(left)]
  BY <1>1, <1>2, ConcatProperties
<1>5. Len(left \o right) = Len(all)
  BY <1>1, <1>2, <1>3, <1>4
<1>6. ASSUME NEW i \in 1..Len(left \o right) PROVE (left \o right)[i] = all[i]
  <2>1. i \in 1..(c - a) /\ (left \o right)[i] = IF i <= b - a THEN left[i] ELSE right[i - (b - a)]
    BY <1>1, <1>2, <1>4, SMTT(30)
  <2>2. CASE i <= b - a
    BY <1>1, <1>3, <2>1, <2>2
  <2>3. CASE i > b - a
    <3>1. i - (b - a) \in 1..(c - b)
      BY <2>1, <2>3
    <3>2. right[i - (b - a)] = b + (i - (b - a))
      BY <1>2, <3>1
    <3>3. QED
      BY <1>3, <2>1, <2>3, <3>2
  <2>4. QED
    BY <2>1, <2>2, <2>3
<1>7. left \o right = all
  BY <1>3, <1>4, <1>5, <1>6, SeqEqual
<1>8. QED
  BY <1>7 DEF left, right, all

\* The window of a report is the end of the windows it is made of.
LEMMA LatestOfEpisodes ==
  ASSUME NEW a \in Nat, NEW b \in Nat, a <= b
  PROVE  Latest(Episodes(a, b)) = Episodes(IF b - a > History THEN b - History ELSE a, b)
<1> DEFINE all == Episodes(a, b)
           from == IF b - a > History THEN b - History ELSE a
<1>0. History \in Nat \ {0}
  BY MetricsAssumption DEF MetricsAssumption
<1>1. /\ all \in Seq(Nat) /\ Len(all) = b - a /\ \A i \in 1..(b - a) : all[i] = a + i
      /\ from \in Nat /\ a <= from /\ from <= b
  BY <1>0, EpisodesFacts
<1>2. Latest(all) = SubSeq(all, from - a + 1, b - a)
  BY <1>0, <1>1 DEF Latest
<1> DEFINE end == SubSeq(all, from - a + 1, b - a)
<1> HIDE DEF from, all
<1>3. /\ end \in Seq(Nat) /\ Len(end) = b - from
      /\ \A i \in 1..(b - from) : end[i] = from + i
  <2>1. \A i \in (from - a + 1)..(b - a) : all[i] \in Nat
    BY <1>1
  <2>2. /\ SubSeq(all, from - a + 1, b - a) \in Seq(Nat)
        /\ Len(SubSeq(all, from - a + 1, b - a)) =
             IF from - a + 1 <= b - a THEN b - a - (from - a + 1) + 1 ELSE 0
        /\ \A i \in 1..(b - a - (from - a + 1) + 1) :
             SubSeq(all, from - a + 1, b - a)[i] = all[from - a + 1 + i - 1]
    BY <1>1, <2>1, SubSeqProperties
  <2>3. QED
    BY <1>1, <2>2
<1> HIDE DEF end
<1>4. /\ Episodes(from, b) \in Seq(Nat) /\ Len(Episodes(from, b)) = b - from
      /\ \A i \in 1..(b - from) : Episodes(from, b)[i] = from + i
  BY <1>1, EpisodesFacts
<1>5. end = Episodes(from, b)
  BY <1>3, <1>4, SeqEqual
<1>6. QED
  BY <1>2, <1>5 DEF end, from, all

LEMMA ReportIsLatest ==
  ASSUME NEW a \in Nat, NEW b \in Nat, NEW c \in Nat, a <= b, b <= c
  PROVE  Latest(Episodes(Before(a), a) \o (Episodes(a, b) \o Episodes(b, c)))
           = Episodes(Before(c), c)
<1>0. /\ History \in Nat \ {0} /\ Before(a) \in Nat /\ Before(a) <= a /\ Before(a) <= c
      /\ Before(c) = IF c - Before(a) > History THEN c - History ELSE Before(a)
  BY MetricsAssumption DEF MetricsAssumption, Before
<1>1. a <= c
  OBVIOUS
<1>2. Episodes(a, b) \o Episodes(b, c) = Episodes(a, c)
  BY EpisodesConcat
<1>3. Episodes(Before(a), a) \o Episodes(a, c) = Episodes(Before(a), c)
  BY <1>0, <1>1, EpisodesConcat
<1>4. QED
  BY <1>0, <1>2, <1>3, LatestOfEpisodes

-----------------------------------------------------------------------------
(***************************************************************************)
(* The windows.                                                            *)
(***************************************************************************)
LEMMA WindowFacts ==
  ASSUME WindowInv
  PROVE  /\ window \in Seq(Nat) /\ Len(window) = finished - accounted - doneWindow
         /\ pendingFlush \in Seq(Nat) /\ Len(pendingFlush) = doneWindow
         /\ Before(accounted) \in Nat /\ Before(accounted) <= accounted
         /\ epRewards \in Seq(Nat)
         /\ window = <<>> <=> finished = accounted + doneWindow
         /\ epRewards = <<>> <=> accounted = 0
<1>1. /\ accounted \in Nat /\ doneWindow \in Nat /\ finished \in Nat
      /\ accounted + doneWindow \in Nat /\ accounted + doneWindow <= finished
      /\ accounted <= accounted + doneWindow
  BY DEF WindowInv
<1>2. /\ Before(accounted) \in Nat /\ Before(accounted) <= accounted
      /\ Before(accounted) = accounted <=> accounted = 0
  BY <1>1, MetricsAssumption DEF MetricsAssumption, Before
<1>3. /\ window \in Seq(Nat) /\ Len(window) = finished - (accounted + doneWindow)
      /\ window = <<>> <=> accounted + doneWindow = finished
  BY <1>1, EpisodesFacts DEF WindowInv
<1>4. pendingFlush \in Seq(Nat) /\ Len(pendingFlush) = accounted + doneWindow - accounted
  BY <1>1, EpisodesFacts DEF WindowInv
<1>5. epRewards \in Seq(Nat) /\ (epRewards = <<>> <=> Before(accounted) = accounted)
  BY <1>1, <1>2, EpisodesFacts DEF WindowInv
<1>6. QED
  BY <1>1, <1>2, <1>3, <1>4, <1>5

LEMMA FlushFacts ==
  ASSUME WindowInv
  PROVE  /\ CompletedFlush = Episodes(accounted, finished)
         /\ Latest(epRewards \o CompletedFlush) = Episodes(Before(finished), finished)
         /\ Done = finished - accounted /\ Done \in Nat
<1>1. /\ accounted \in Nat /\ doneWindow \in Nat /\ finished \in Nat
      /\ accounted + doneWindow \in Nat /\ accounted + doneWindow <= finished
      /\ accounted <= accounted + doneWindow
  BY DEF WindowInv
<1>2. CompletedFlush = Episodes(accounted, accounted + doneWindow)
                         \o Episodes(accounted + doneWindow, finished)
  BY DEF WindowInv, CompletedFlush
<1>3. CompletedFlush = Episodes(accounted, finished)
  BY <1>1, <1>2, EpisodesConcat
<1>4. Latest(epRewards \o CompletedFlush) = Episodes(Before(finished), finished)
  BY <1>1, <1>2, ReportIsLatest DEF WindowInv
<1>5. Done = finished - accounted
  BY <1>1, WindowFacts DEF Done
<1>6. QED
  BY <1>1, <1>3, <1>4, <1>5

\* The windows a step leaves alone.
LEMMA WindowStays ==
  ASSUME WindowInv,
         UNCHANGED <<raising, windowVars, doneWindow, epRewards, refused, pendingFlush,
                     accounted>>
  PROVE  WindowInv'
BY DEF WindowInv, windowVars, Before

LEMMA StepWindow ==
  ASSUME WindowInv, Step
  PROVE  WindowInv'
<1>1. PICK count \in 0..NumEnvs :
        /\ window' = window \o [i \in 1..count |-> finished + i]
        /\ finished' = finished + count /\ reasons' = reasons + count
  BY DEF Step
<1>2. count \in Nat
  BY <1>1, MetricsAssumption DEF MetricsAssumption
<1>3. [i \in 1..count |-> finished + i] = Episodes(finished, finished + count)
  BY <1>2 DEF Episodes, WindowInv
<1>4. /\ accounted + doneWindow \in Nat /\ finished \in Nat /\ accounted + doneWindow <= finished
      /\ finished + count \in Nat /\ finished <= finished + count
  BY <1>2 DEF WindowInv
<1>5. Episodes(accounted + doneWindow, finished) \o Episodes(finished, finished + count)
        = Episodes(accounted + doneWindow, finished + count)
  BY <1>4, EpisodesConcat
<1>6. UNCHANGED <<raising, doneWindow, epRewards, refused, pendingFlush, accounted>>
  BY DEF Step, reportVars
<1>7. window' = Episodes(accounted + doneWindow, finished)'
  BY <1>1, <1>3, <1>5, <1>6 DEF WindowInv, Episodes
<1>8. /\ pendingFlush' = Episodes(accounted, accounted + doneWindow)'
      /\ epRewards' = Episodes(Before(accounted), accounted)'
  BY <1>6 DEF WindowInv, Episodes, Before
<1>9. /\ accounted' + doneWindow' <= finished' /\ finished' \in Nat
      /\ reasons' \in Nat /\ (~raising' => reasons' = finished' - accounted')
  BY <1>1, <1>2, <1>6 DEF WindowInv
<1>10. QED
  BY <1>6, <1>7, <1>8, <1>9 DEF WindowInv

\* A step that raises may count reasons, and nothing else.
LEMMA RaiseWindow ==
  ASSUME WindowInv, StepRaises
  PROVE  WindowInv'
<1>1. PICK count \in 0..NumEnvs : reasons' = reasons + count
  BY DEF StepRaises
<1>2. reasons' \in Nat
  BY <1>1, MetricsAssumption DEF MetricsAssumption, WindowInv
<1>3. /\ raising' = TRUE
      /\ UNCHANGED <<finished, window, doneWindow, epRewards, refused, pendingFlush, accounted>>
  BY DEF StepRaises, reportVars
<1>4. QED
  BY <1>2, <1>3 DEF WindowInv, Before

LEMMA NoEpisodes ==
  ASSUME NEW a \in Nat
  PROVE  Episodes(a, a) = <<>>
BY EpisodesFacts

\* A report that is accepted accounts for every finished episode.
LEMMA AcceptWindow ==
  ASSUME WindowInv, NEW kind, Accept(kind), UNCHANGED raising
  PROVE  WindowInv' /\ accounted' = finished' /\ finished' = finished
<1>1. /\ accounted' = accounted + Done /\ doneWindow' = 0 /\ refused' = FALSE
      /\ pendingFlush' = <<>> /\ window' = <<>> /\ finished' = finished
      /\ epRewards' = Latest(epRewards \o CompletedFlush)
      /\ reasons' = IF Done > 0 THEN 0 ELSE reasons
  BY DEF Accept, EmptyWindow
<1>2. /\ accounted \in Nat /\ finished \in Nat
      /\ reasons \in Nat /\ (~raising => reasons = finished - accounted)
  BY DEF WindowInv
<1>3. accounted' = finished /\ reasons' \in Nat /\ (~raising' => reasons' = 0)
  BY <1>1, <1>2, FlushFacts
<1>4. Episodes(finished, finished) = <<>>
  BY <1>2, NoEpisodes
<1>5. /\ pendingFlush' = Episodes(accounted, accounted + doneWindow)'
      /\ window' = Episodes(accounted + doneWindow, finished)'
  BY <1>1, <1>2, <1>3, <1>4 DEF Episodes
<1>6. epRewards' = Episodes(Before(accounted), accounted)'
  BY <1>1, <1>3, FlushFacts DEF Episodes, Before
<1>7. /\ accounted' \in Nat /\ doneWindow' \in Nat /\ finished' \in Nat
      /\ accounted' + doneWindow' <= finished'
      /\ reasons' \in Nat /\ (~raising' => reasons' = finished' - accounted')
  BY <1>1, <1>2, <1>3
<1>8. QED
  BY <1>1, <1>3, <1>5, <1>6, <1>7 DEF WindowInv

\* One that is refused keeps them for the next.
LEMMA RefuseWindow ==
  ASSUME WindowInv, Refuse, UNCHANGED raising
  PROVE  WindowInv'
<1>1. /\ doneWindow' = Done /\ refused' = TRUE /\ pendingFlush' = CompletedFlush
      /\ window' = <<>> /\ UNCHANGED <<finished, epRewards, accounted, reasons>>
  BY DEF Refuse, EmptyWindow
<1>2. accounted \in Nat /\ finished \in Nat /\ accounted + Done = finished /\ Done \in Nat
  BY FlushFacts DEF WindowInv
<1>3. pendingFlush' = Episodes(accounted, accounted + doneWindow)'
  BY <1>1, <1>2, FlushFacts DEF Episodes
<1>4. window' = Episodes(accounted + doneWindow, finished)'
  BY <1>1, <1>2, NoEpisodes DEF Episodes
<1>5. epRewards' = Episodes(Before(accounted), accounted)'
  BY <1>1 DEF WindowInv, Episodes, Before
<1>6. QED
  BY <1>1, <1>2, <1>3, <1>4, <1>5 DEF WindowInv

LEMMA WindowStep ==
  ASSUME WindowInv, [Next]_vars
  PROVE  WindowInv'
<1>1. CASE PublishWindow \/ PublishFinal \/ FinalTimesOut
  BY <1>1, AcceptWindow, RefuseWindow DEF PublishWindow, PublishFinal, FinalTimesOut
<1>2. CASE Step
  BY <1>2, StepWindow
<1>3. CASE StepRaises
  BY <1>3, RaiseWindow
<1>4. CASE ~(PublishWindow \/ PublishFinal \/ FinalTimesOut \/ Step \/ StepRaises)
  <2>1. UNCHANGED <<raising, windowVars, doneWindow, epRewards, refused, pendingFlush,
                    accounted>>
    BY <1>4 DEF Next, vars, reportVars, Feed, AskForAction, TakeAction, NothingToFlush,
       ReportError, Exit, Killed, Serve, TakeMessage, DrainEnds, SetStop, Join, Terminate,
       Summarise, Finished
  <2>2. QED
    BY <2>1, WindowStays
<1>5. QED
  BY <1>1, <1>2, <1>3, <1>4

-----------------------------------------------------------------------------
(***************************************************************************)
(* The queue.                                                              *)
(***************************************************************************)
LEMMA AppendedLast ==
  ASSUME NEW queue \in Seq(Messages), NEW m \in Messages
  PROVE  /\ Append(queue, m) \in Seq(Messages)
         /\ NewestIn(Append(queue, m), m.report)
         /\ Silent(queue) /\ m.report = <<>> => Silent(Append(queue, m))
         /\ \A report : NewestIn(queue, report) /\ m.report = <<>> =>
              NewestIn(Append(queue, m), report)
<1> DEFINE longer == Append(queue, m)
<1>1. /\ longer \in Seq(Messages) /\ Len(longer) = Len(queue) + 1 /\ Len(queue) \in Nat
      /\ \A i \in 1..Len(queue) : longer[i] = queue[i]
      /\ longer[Len(queue) + 1] = m
  BY AppendProperties
<1> HIDE DEF longer
<1>2. NewestIn(longer, m.report)
  BY <1>1 DEF NewestIn
<1>3. Silent(queue) /\ m.report = <<>> => Silent(longer)
  BY <1>1 DEF Silent
<1>4. ASSUME NEW report, NewestIn(queue, report), m.report = <<>> PROVE NewestIn(longer, report)
  <2>1. PICK i \in 1..Len(queue) : /\ queue[i].report = report
                                   /\ \A j \in 1..Len(queue) : j > i => queue[j].report = <<>>
    BY <1>4 DEF NewestIn
  <2>2. i \in 1..Len(longer) /\ longer[i].report = report
    BY <1>1, <2>1
  <2>3. \A j \in 1..Len(longer) : j > i => longer[j].report = <<>>
    BY <1>1, <1>4, <2>1
  <2>4. QED
    BY <2>2, <2>3 DEF NewestIn
<1>5. QED
  BY <1>1, <1>2, <1>3, <1>4 DEF longer

LEMMA HeadGone ==
  ASSUME NEW queue \in Seq(Messages), queue # <<>>
  PROVE  /\ Head(queue) \in Messages /\ Tail(queue) \in Seq(Messages)
         /\ \A i \in 1..Len(Tail(queue)) : i + 1 \in 1..Len(queue) /\ Tail(queue)[i] = queue[i + 1]
         /\ Silent(queue) => Silent(Tail(queue)) /\ Head(queue).report = <<>>
         /\ \A report : NewestIn(queue, report) =>
              \/ NewestIn(Tail(queue), report)
                   /\ (report # <<>> => ~Silent(Tail(queue)))
              \/ Silent(Tail(queue)) /\ Head(queue).report = report
<1> DEFINE rest == Tail(queue)
<1>1. /\ Head(queue) \in Messages /\ rest \in Seq(Messages) /\ Len(rest) = Len(queue) - 1
      /\ \A i \in 1..Len(rest) : rest[i] = queue[i + 1]
      /\ Len(queue) \in Nat \ {0} /\ Head(queue) = queue[1]
  BY HeadTailProperties, EmptySeq
<1> HIDE DEF rest
<1>2. \A i \in 1..Len(rest) : i + 1 \in 1..Len(queue)
  BY <1>1
<1>3. Silent(queue) => Silent(rest) /\ Head(queue).report = <<>>
  BY <1>1, <1>2 DEF Silent
<1>4. ASSUME NEW report, NewestIn(queue, report)
      PROVE  \/ NewestIn(rest, report) /\ (report # <<>> => ~Silent(rest))
             \/ Silent(rest) /\ Head(queue).report = report
  <2>1. PICK i \in 1..Len(queue) : /\ queue[i].report = report
                                   /\ \A j \in 1..Len(queue) : j > i => queue[j].report = <<>>
    BY <1>4 DEF NewestIn
  <2>2. CASE i = 1
    BY <1>1, <1>2, <2>1, <2>2 DEF Silent
  <2>3. CASE i > 1
    <3>1. i - 1 \in 1..Len(rest) /\ rest[i - 1].report = report
      BY <1>1, <2>1, <2>3
    <3>2. \A j \in 1..Len(rest) : j > i - 1 => rest[j].report = <<>>
      BY <1>1, <1>2, <2>1
    <3>3. QED
      BY <3>1, <3>2 DEF NewestIn, Silent
  <2>4. QED
    BY <2>2, <2>3
<1>5. QED
  BY <1>1, <1>2, <1>3, <1>4 DEF rest

\* A report puts the newest window behind everything in the queue.
LEMMA PutReport ==
  ASSUME QueueInv, NEW m \in Messages, m.report = epRewards',
         m.reasons = m.done \/ (raising /\ m.kind = "final"),
         epRewards' = <<>> => epRewards = <<>>,
         buffered' = Append(buffered, m), UNCHANGED <<raising, pipe, lastReport, ended>>
  PROVE  QueueInv'
<1>1. buffered' \in Seq(Messages) /\ NewestIn(buffered', epRewards')
  BY AppendedLast DEF QueueInv
<1>2. Silent(buffered) /\ epRewards' = <<>> => Silent(buffered')
  BY AppendedLast DEF QueueInv
<1>3. \A i \in 1..Len(buffered') :
        \/ buffered'[i].reasons = buffered'[i].done
        \/ raising' /\ buffered'[i].kind = "final"
  BY AppendProperties DEF QueueInv
<1>4. pipe' \in Seq(Messages)
  BY DEF QueueInv
<1>5. NewestIn(buffered, epRewards)' /\ (Silent(pipe) => Silent(pipe)')
      /\ (Silent(buffered) /\ epRewards' = <<>> => Silent(buffered)')
  BY <1>1, <1>2 DEF NewestIn, Silent
<1>6. QED
  BY <1>1, <1>3, <1>4, <1>5 DEF QueueInv

\* The manifest and an error say nothing about episodes.
LEMMA PutError ==
  ASSUME QueueInv, NEW m \in Messages, m.reasons = m.done, m.report = <<>>,
         buffered' = Append(buffered, m),
         UNCHANGED <<raising, epRewards, pipe, lastReport, ended>>
  PROVE  QueueInv'
<1>1. /\ buffered' \in Seq(Messages)
      /\ Silent(buffered) => Silent(buffered')
      /\ NewestIn(buffered, epRewards) => NewestIn(buffered', epRewards)
  BY AppendedLast DEF QueueInv
<1>2. \A i \in 1..Len(buffered') :
        \/ buffered'[i].reasons = buffered'[i].done
        \/ raising' /\ buffered'[i].kind = "final"
  BY AppendProperties DEF QueueInv
<1>3. /\ Silent(buffered) => Silent(buffered)'
      /\ NewestIn(buffered, epRewards) => NewestIn(buffered, epRewards)'
      /\ NewestIn(pipe, epRewards) => NewestIn(pipe, epRewards)'
      /\ Silent(pipe) => Silent(pipe)'
  BY <1>1 DEF NewestIn, Silent
<1>4. QED
  BY <1>1, <1>2, <1>3 DEF QueueInv

LEMMA QueueStays ==
  ASSUME QueueInv, UNCHANGED <<buffered, pipe, epRewards, lastReport>>, raising => raising',
         ended' = ended \/ ended = "no"
  PROVE  QueueInv'
BY DEF QueueInv, NewestIn, Silent

\* A message goes from the buffer to the pipe: whichever holds the newest report, what is
\* behind it is silent.
LEMMA FeedQueue ==
  ASSUME QueueInv, Feed
  PROVE  QueueInv'
<1>1. /\ buffered # <<>> /\ pipe' = Append(pipe, Head(buffered)) /\ buffered' = Tail(buffered)
      /\ UNCHANGED <<raising, epRewards, lastReport, ended>>
      /\ buffered \in Seq(Messages) /\ pipe \in Seq(Messages)
  BY DEF Feed, reportVars, learnerVars, QueueInv
<1>2. /\ Head(buffered) \in Messages /\ buffered' \in Seq(Messages)
      /\ \A i \in 1..Len(buffered') : i + 1 \in 1..Len(buffered)
                                      /\ buffered'[i] = buffered[i + 1]
      /\ Silent(buffered) => Silent(buffered') /\ Head(buffered).report = <<>>
      /\ NewestIn(buffered, epRewards) =>
           \/ NewestIn(buffered', epRewards)
           \/ Silent(buffered') /\ Head(buffered).report = epRewards
  BY <1>1, HeadGone
<1>3. /\ pipe' \in Seq(Messages)
      /\ NewestIn(pipe', Head(buffered).report)
      /\ Silent(pipe) /\ Head(buffered).report = <<>> => Silent(pipe')
      /\ NewestIn(pipe, epRewards) /\ Head(buffered).report = <<>> => NewestIn(pipe', epRewards)
  BY <1>1, <1>2, AppendedLast
<1>4. \A i \in 1..Len(buffered') :
        \/ buffered'[i].reasons = buffered'[i].done
        \/ raising' /\ buffered'[i].kind = "final"
  BY <1>1, <1>2 DEF QueueInv
<1>5. \/ ended = "terminated"
      \/ epRewards # <<>> /\ NewestIn(buffered', epRewards)
      \/ epRewards # <<>> /\ Silent(buffered') /\ NewestIn(pipe', epRewards)
      \/ Silent(buffered') /\ Silent(pipe') /\ lastReport = epRewards
  BY <1>2, <1>3 DEF QueueInv
<1>6. /\ Silent(buffered') = Silent(buffered)' /\ Silent(pipe') = Silent(pipe)'
      /\ NewestIn(buffered', epRewards) => NewestIn(buffered, epRewards)'
      /\ NewestIn(pipe', epRewards) => NewestIn(pipe, epRewards)'
  BY <1>1 DEF Silent, NewestIn
<1>7. QED
  BY <1>1, <1>2, <1>3, <1>4, <1>5, <1>6 DEF QueueInv

LEMMA TakeQueue ==
  ASSUME QueueInv, TakeMessage
  PROVE  QueueInv'
<1>1. /\ pipe # <<>> /\ pipe' = Tail(pipe)
      /\ lastReport' = IF Head(pipe).report = <<>> THEN lastReport ELSE Head(pipe).report
      /\ UNCHANGED <<raising, buffered, epRewards, ended>>
      /\ buffered \in Seq(Messages) /\ pipe \in Seq(Messages)
  BY DEF TakeMessage, reportVars, QueueInv
<1>2. /\ pipe' \in Seq(Messages)
      /\ Silent(pipe) => Silent(pipe') /\ Head(pipe).report = <<>>
      /\ NewestIn(pipe, epRewards) =>
           \/ NewestIn(pipe', epRewards)
           \/ Silent(pipe') /\ Head(pipe).report = epRewards
  BY <1>1, HeadGone
<1>3. \/ ended = "terminated"
      \/ epRewards # <<>> /\ NewestIn(buffered, epRewards)
      \/ epRewards # <<>> /\ Silent(buffered) /\ NewestIn(pipe', epRewards)
      \/ Silent(buffered) /\ Silent(pipe') /\ lastReport' = epRewards
  BY <1>1, <1>2 DEF QueueInv
<1>4. /\ Silent(buffered) = Silent(buffered)' /\ Silent(pipe') = Silent(pipe)'
      /\ NewestIn(buffered, epRewards) => NewestIn(buffered, epRewards)'
      /\ NewestIn(pipe', epRewards) => NewestIn(pipe, epRewards)'
  BY <1>1 DEF Silent, NewestIn
<1>5. QED
  BY <1>1, <1>2, <1>3, <1>4 DEF QueueInv

LEMMA AcceptQueue ==
  ASSUME WindowInv, QueueInv, NEW kind \in {"window", "final"}, Accept(kind),
         raising => kind = "final", UNCHANGED <<raising, pipe, lastReport, ended>>
  PROVE  QueueInv'
<1>1. /\ buffered' = Append(buffered, ReportOf(kind))
      /\ epRewards' = Latest(epRewards \o CompletedFlush)
  BY DEF Accept
<1>2. /\ accounted \in Nat /\ finished \in Nat /\ accounted <= finished
      /\ Done \in Nat /\ reasons \in Nat /\ (~raising => reasons = Done)
  BY FlushFacts DEF WindowInv
<1>3. /\ Before(finished) \in Nat /\ Before(finished) <= finished
      /\ Before(finished) = finished => finished = 0
  BY <1>2, MetricsAssumption DEF MetricsAssumption, Before
<1>4. epRewards' \in Seq(Nat) /\ (epRewards' = <<>> => finished = 0)
  BY <1>1, <1>2, <1>3, EpisodesFacts, FlushFacts, ZenonT(30)
<1>5. epRewards' = <<>> => epRewards = <<>>
  BY <1>2, <1>4, WindowFacts
<1>6. /\ ReportOf(kind) \in Messages /\ ReportOf(kind).report = epRewards'
      /\ \/ ReportOf(kind).reasons = ReportOf(kind).done
         \/ raising /\ ReportOf(kind).kind = "final"
  BY <1>1, <1>2, <1>4 DEF ReportOf, Message, Messages
<1>7. QED
  BY <1>1, <1>5, <1>6, PutReport

LEMMA QueueStep ==
  ASSUME WindowInv, QueueInv, EndInv, [Next]_vars
  PROVE  QueueInv'
<1>1. CASE PublishWindow \/ PublishFinal \/ FinalTimesOut
  <2>1. \/ \E kind \in {"window", "final"} : Accept(kind) /\ (raising => kind = "final")
        \/ UNCHANGED <<buffered, epRewards>>
    BY <1>1 DEF PublishWindow, PublishFinal, FinalTimesOut, Refuse, EndInv
  <2>2. UNCHANGED <<raising, pipe, lastReport, ended>>
    BY <1>1 DEF PublishWindow, PublishFinal, FinalTimesOut, learnerVars
  <2>3. QED
    BY <2>1, <2>2, AcceptQueue, QueueStays
<1>2. CASE ReportError
  <2>1. Message("error", <<>>, 0, 0) \in Messages
    BY DEF Message, Messages
  <2>2. /\ Message("error", <<>>, 0, 0).reasons = Message("error", <<>>, 0, 0).done
        /\ Message("error", <<>>, 0, 0).report = <<>>
    BY DEF Message
  <2>3. /\ \/ buffered' = Append(buffered, Message("error", <<>>, 0, 0))
           \/ buffered' = buffered
        /\ UNCHANGED <<raising, epRewards, pipe, lastReport, ended>>
    BY <1>2 DEF ReportError, reportVars
  <2>4. QED
    BY <2>1, <2>2, <2>3, PutError, QueueStays
<1>3. CASE Feed
  BY <1>3, FeedQueue
<1>4. CASE TakeMessage
  BY <1>4, TakeQueue
<1>5. CASE Killed \/ Terminate
  <2>1. ended' = "terminated" /\ buffered' = <<>> /\ pipe' = pipe
    BY <1>5 DEF Killed, Terminate
  <2>2. buffered' \in Seq(Messages) /\ Len(buffered') = 0
    BY <2>1
  <2>3. QED
    BY <2>1, <2>2 DEF QueueInv
<1>6. CASE ~(PublishWindow \/ PublishFinal \/ FinalTimesOut \/ ReportError \/ Feed \/ TakeMessage
             \/ Killed \/ Terminate)
  <2>1. /\ UNCHANGED <<buffered, pipe, epRewards, lastReport>>
        /\ ended' = ended \/ ended = "no"
        /\ raising => raising'
    BY <1>6 DEF Next, vars, reportVars, queueVars, learnerVars, AskForAction, TakeAction, Step,
       StepRaises, NothingToFlush, Exit, Running, Serve, DrainEnds, SetStop, Join, Summarise,
       Finished
  <2>2. QED
    BY <2>1, QueueStays
<1>7. QED
  BY <1>1, <1>2, <1>3, <1>4, <1>5, <1>6

-----------------------------------------------------------------------------
(***************************************************************************)
(* The end.                                                                *)
(***************************************************************************)
\* A step of a collector that is not on its way out.
LEMMA EndStep ==
  ASSUME WindowInv, QueueInv, EndInv, [Next]_vars
  PROVE  EndInv'
<1>1. CASE PublishFinal \/ PublishWindow
  BY <1>1, AcceptWindow DEF PublishFinal, PublishWindow, EndInv, Running, learnerVars
<1>2. CASE FinalTimesOut
  BY <1>2 DEF FinalTimesOut, EndInv, Running, learnerVars
<1>3. CASE NothingToFlush
  BY <1>3, WindowFacts DEF NothingToFlush, WindowInv, EndInv, Running, learnerVars, windowVars,
     reportVars, queueVars
<1>4. CASE AskForAction \/ TakeAction \/ Step \/ StepRaises \/ ReportError
  BY <1>4 DEF AskForAction, TakeAction, Step, StepRaises, ReportError, EndInv, Running,
     learnerVars, windowVars, reportVars, queueVars
<1>5. CASE Feed \/ Exit \/ Killed \/ Terminate
  BY <1>5, EmptySeq DEF Feed, Exit, Killed, Terminate, EndInv, Running, learnerVars, windowVars,
     reportVars, queueVars
<1>6. CASE Serve \/ TakeMessage \/ DrainEnds \/ SetStop \/ Join \/ Summarise
  BY <1>6 DEF Serve, TakeMessage, Draining, DrainEnds, PolledOut, ServedOut, SetStop, Join,
     Summarise, EndInv, learnerVars, windowVars, reportVars, queueVars
<1>7. CASE Finished \/ UNCHANGED vars
  BY <1>7 DEF Finished, vars, EndInv, learnerVars, windowVars, reportVars, queueVars
<1>8. QED
  BY <1>1, <1>2, <1>3, <1>4, <1>5, <1>6, <1>7 DEF Next

LEMMA MetricsInvariant == Spec => []MetricsInv
<1>1. Init => MetricsInv
  <2>1. SUFFICES ASSUME Init PROVE MetricsInv
    OBVIOUS
  <2>2. Before(0) = 0 /\ Episodes(0, 0) = <<>>
    BY NoEpisodes, MetricsAssumption DEF MetricsAssumption, Before
  <2>3. WindowInv
    <3>1. /\ accounted = 0 /\ accounted + doneWindow = 0 /\ finished = 0
          /\ doneWindow = 0 /\ reasons = 0
          /\ pendingFlush = <<>> /\ window = <<>> /\ epRewards = <<>>
      BY <2>1 DEF Init
    <3>2. /\ pendingFlush = Episodes(accounted, accounted + doneWindow)
          /\ window = Episodes(accounted + doneWindow, finished)
          /\ epRewards = Episodes(Before(accounted), accounted)
      BY <2>2, <3>1
    <3>3. /\ accounted \in Nat /\ doneWindow \in Nat /\ finished \in Nat
          /\ accounted + doneWindow <= finished
          /\ reasons \in Nat /\ reasons = finished - accounted
      BY <3>1
    <3>4. refused \in BOOLEAN /\ (~refused => doneWindow = 0)
      BY <2>1 DEF Init
    <3>5. QED
      BY <3>2, <3>3, <3>4 DEF WindowInv
  <2>4. /\ Message("manifest", <<>>, 0, 0) \in Messages
        /\ Message("manifest", <<>>, 0, 0).report = <<>>
        /\ Message("manifest", <<>>, 0, 0).reasons = Message("manifest", <<>>, 0, 0).done
    BY DEF Message, Messages
  <2>5. QueueInv
    BY <2>1, <2>4 DEF Init, QueueInv, Silent
  <2>6. EndInv
    BY <2>1 DEF Init, EndInv
  <2>7. QED
    BY <2>3, <2>5, <2>6 DEF MetricsInv
<1>2. MetricsInv /\ [Next]_vars => MetricsInv'
  BY WindowStep, QueueStep, EndStep DEF MetricsInv
<1>3. QED
  BY <1>1, <1>2, PTL DEF Spec

\* No finished episode is lost or counted twice on its way into the reports, however many of
\* them the queue refuses, and what a report says about the reasons of its episodes is of as
\* many as it counts, unless a step has raised and the report is the final one
\* (enqueue_collector_metrics, flush_final_tensor_metrics).
THEOREM EveryEpisodeCounts == Spec => []EpisodesAccounted
<1>1. MetricsInv => EpisodesAccounted
  <2>1. SUFFICES ASSUME MetricsInv PROVE EpisodesAccounted
    OBVIOUS
  <2>2. /\ accounted \in Nat /\ doneWindow \in Nat /\ finished \in Nat
        /\ ~raising => reasons = finished - accounted
    BY <2>1 DEF MetricsInv, WindowInv
  <2>3. Len(window) = finished - accounted - doneWindow
    BY <2>1, WindowFacts DEF MetricsInv
  <2>4. \A i \in 1..Len(buffered) :
          \/ buffered[i].reasons = buffered[i].done
          \/ raising /\ buffered[i].kind = "final"
    BY <2>1 DEF MetricsInv, QueueInv
  <2>5. QED
    BY <2>2, <2>3, <2>4 DEF EpisodesAccounted
<1>2. QED
  BY <1>1, MetricsInvariant, PTL

\* The summary of a run that ends in order is over its last episodes: the learner's last drain,
\* behind the join, finds what the collector flushed before it left
\* (_drain_collector_metrics_after_shutdown), for every size of the queue and of its pipe.
THEOREM SummaryMissesNothing == Spec => []SummaryIsComplete
<1>1. MetricsInv => SummaryIsComplete
  <2>1. SUFFICES ASSUME MetricsInv, lpc = "done", ended = "exited", ~finalLost
                 PROVE  lastReport = Latest([i \in 1..finished |-> i])
    BY DEF SummaryIsComplete
  <2>2. pipe = <<>> /\ buffered = <<>> /\ accounted = finished
    BY <2>1 DEF MetricsInv, EndInv
  <2>3. lastReport = epRewards
    BY <2>1, <2>2 DEF MetricsInv, QueueInv, NewestIn
  <2>4. finished \in Nat /\ epRewards = Episodes(Before(finished), finished)
    BY <2>1, <2>2 DEF MetricsInv, WindowInv
  <2>5. [i \in 1..finished |-> i] = Episodes(0, finished)
    BY <2>4 DEF Episodes
  <2>6. Latest(Episodes(0, finished)) = Episodes(Before(finished), finished)
    BY <2>4, LatestOfEpisodes DEF Before
  <2>7. QED
    BY <2>3, <2>4, <2>5, <2>6
<1>2. QED
  BY <1>1, MetricsInvariant, PTL

-----------------------------------------------------------------------------
(***************************************************************************)
(* The receipts.  The invariant follows a publication through the record.  *)
(* The record of a signalled chunk was complete before the signal, and the *)
(* version only grows; so a thread that looks at the version before it     *)
(* takes its next token sees at least the version of the last token it     *)
(* took.                                                                   *)
(***************************************************************************)
CONSTANTS Depth, MaxChunks
VARIABLES free, ready, publishing, enqueued, written, handle, version, spc, seen,
          localVersion, receipt, taken, copies, copied

\* The collector's place is its own here: publishing a chunk, not its metrics.
Receipts == INSTANCE IngressReceipts WITH cpc <- publishing

ReceiptTypes ==
  /\ free \in Int /\ ready \in Int
  /\ publishing \in {"idle", "clear", "store", "bump", "signal"}
  /\ enqueued \in Nat /\ written \in Nat /\ handle \in Nat /\ version \in Nat
  /\ spc \in {"version", "handle", "take", "submit", "failed"}
  /\ seen \in Nat /\ localVersion \in Nat /\ receipt \in Nat /\ taken \in Nat
  /\ copies \in Seq(Nat)
  /\ copied \in Nat /\ copied <= Len(copies)

\* The record holds a handle of at least its version, or none; a token signalled and not
\* taken stands for a version that has been counted.
RecordInv ==
  /\ enqueued = IF publishing \in {"clear", "store", "bump"} THEN version + 1 ELSE version
  /\ handle \in {0, version, version + 1}
  /\ publishing = "bump" => handle = version + 1
  /\ publishing \in {"idle", "signal"} => handle = version
  /\ ready + taken = IF publishing = "signal" THEN version - 1 ELSE version
  /\ ready >= 0

\* What the submitting thread knows of the record.
SeenInv ==
  /\ receipt >= localVersion /\ localVersion <= version
  /\ spc = "handle" => seen >= taken /\ seen <= version
  /\ spc = "take" => localVersion >= taken
  /\ spc = "submit" => localVersion >= taken - 1

CopiesInv ==
  /\ Len(copies) = IF spc = "submit" THEN taken - 1 ELSE taken
  /\ \A i \in 1..Len(copies) : copies[i] >= i - 1

ReceiptInv == ReceiptTypes /\ RecordInv /\ SeenInv /\ CopiesInv

LEMMA ReceiptInit == ASSUME Depth \in Nat PROVE Receipts!Init => ReceiptInv
BY DEF Receipts!Init, ReceiptInv, ReceiptTypes, RecordInv, SeenInv, CopiesInv

LEMMA ReceiptStep == ReceiptInv /\ [Receipts!Next]_(Receipts!vars) => ReceiptInv'
<1> SUFFICES ASSUME ReceiptInv, [Receipts!Next]_(Receipts!vars) PROVE ReceiptInv'
  OBVIOUS
<1> USE DEF ReceiptInv, ReceiptTypes, RecordInv, SeenInv, CopiesInv, Receipts!learnerVars,
        Receipts!collectorVars
<1>1. CASE Receipts!EnqueueSlotWrites
  BY <1>1 DEF Receipts!EnqueueSlotWrites
<1>2. CASE Receipts!ClearHandle
  BY <1>2 DEF Receipts!ClearHandle
<1>3. CASE Receipts!StoreHandle
  BY <1>3 DEF Receipts!StoreHandle
<1>4. CASE Receipts!BumpVersion
  BY <1>4 DEF Receipts!BumpVersion
<1>5. CASE Receipts!SignalReady
  BY <1>5 DEF Receipts!SignalReady
<1>6. CASE Receipts!DeviceWrites
  BY <1>6 DEF Receipts!DeviceWrites
<1>7. CASE Receipts!ReadVersion
  BY <1>7 DEF Receipts!ReadVersion
<1>8. CASE Receipts!ImportHandle
  BY <1>8 DEF Receipts!ImportHandle
<1>9. CASE Receipts!TakePublishedIngress
  BY <1>9 DEF Receipts!TakePublishedIngress
<1>10. CASE Receipts!NothingPublished
  BY <1>10 DEF Receipts!NothingPublished
<1>11. CASE Receipts!SubmitSpanCopy
  <2>1. /\ copies' = Append(copies, receipt) /\ Len(copies) = taken - 1
        /\ receipt >= taken - 1 /\ spc' = "version"
    BY <1>11 DEF Receipts!SubmitSpanCopy
  <2>2. /\ copies' \in Seq(Nat) /\ Len(copies') = Len(copies) + 1
        /\ \A i \in 1..Len(copies) : copies'[i] = copies[i]
        /\ copies'[Len(copies) + 1] = receipt
    BY <2>1
  <2>3. \A i \in 1..Len(copies') : copies'[i] >= i - 1
    BY <2>1, <2>2
  <2> QED
    BY <1>11, <2>1, <2>2, <2>3 DEF Receipts!SubmitSpanCopy
<1>12. CASE Receipts!DeviceCopy
  BY <1>12 DEF Receipts!DeviceCopy
<1>13. CASE UNCHANGED Receipts!vars
  BY <1>13 DEF Receipts!vars
<1> QED
  BY <1>1, <1>2, <1>3, <1>4, <1>5, <1>6, <1>7, <1>8, <1>9, <1>10, <1>11, <1>12, <1>13
  DEF Receipts!Next

\* Although a chunk's copy may not wait for its own event (CopyAfterPublication fails), it
\* waits for that of the chunk before it: the import of the receipt ahead of every take
\* bounds the lag of _submit_new_spans by one publication.
THEOREM ReceiptLag == ASSUME Depth \in Nat PROVE Receipts!Spec => Receipts!StaleByOneAtMost
<1>1. ASSUME ReceiptInv, [Receipts!Next]_(Receipts!vars)
      PROVE  [copied' > copied => written >= copied' - 1]_(Receipts!vars)
  <2>1. CASE Receipts!DeviceCopy
    BY <1>1, <2>1, SMTT(30) DEF Receipts!DeviceCopy, ReceiptInv, ReceiptTypes, CopiesInv
  <2>2. ASSUME ~Receipts!DeviceCopy PROVE copied' = copied
    BY <1>1, <2>2 DEF Receipts!Next, Receipts!vars, Receipts!EnqueueSlotWrites,
       Receipts!ClearHandle, Receipts!StoreHandle, Receipts!BumpVersion, Receipts!SignalReady,
       Receipts!DeviceWrites, Receipts!ReadVersion, Receipts!ImportHandle,
       Receipts!TakePublishedIngress, Receipts!NothingPublished, Receipts!SubmitSpanCopy,
       Receipts!learnerVars
  <2> QED
    BY <1>1, <2>1, <2>2 DEF ReceiptInv, ReceiptTypes
<1> QED
  BY <1>1, ReceiptInit, ReceiptStep, PTL DEF Receipts!Spec, Receipts!StaleByOneAtMost
=============================================================================
