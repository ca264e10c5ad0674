------------------------------ MODULE DpProofs ------------------------------
(***************************************************************************)
(* Data-parallel training for every number of ranks, iterations and        *)
(* updates, every kind of failure and every order of interrupts, when the  *)
(* optimizer steps are gated on the device: ranks that meet in a           *)
(* collective meet in the same one, ranks at the same place have the same  *)
(* networks, and the supervisor leaves no process and no failure behind.   *)
(*                                                                         *)
(* SyncInv compares two ranks that are still there.  A collective ends for *)
(* all ranks at once, so between two of them the ranks are between the     *)
(* same two; they may only differ by the steps that need no collective,    *)
(* the target updates and the ends of iterations (Leads).  AgreeInv        *)
(* compares the networks of two such ranks as they will be once the rank   *)
(* behind has caught up.  ExitInv is about the supervisor's teardown.      *)
(***************************************************************************)
EXTENDS DpSupervisor, TLAPS

Live(r) == pc[r] \notin Gone
Computing == {"update", "step", "report", "top"}

Positions == {k \in Nat \ {0} : \A m \in 1..k : m \in DOMAIN Updates}
Targets == {k \in Positions : Updates[k] = "target"}

\* Where a rank is next in the updates.
NextIteration(r) == IF pc[r] = "top" THEN iteration[r] + 1 ELSE iteration[r]
NextCursor(r) ==
  IF pc[r] = "top" THEN 1 ELSE IF pc[r] = "step" THEN cursor[r] + 1 ELSE cursor[r]

\* No collective lies between position c of iteration i and position d of iteration j: the
\* iteration of the warm-up ends without one.
Leads(i, c, j, d) ==
  \/ i = j /\ c <= d /\ \A k \in Nat : c <= k /\ k < d => k \in Targets
  \/ /\ i = 0 /\ j = 1
     /\ \A k \in Nat : (c <= k /\ k \in Positions) \/ (1 <= k /\ k < d) => k \in Targets
Reaches(r, s) == Leads(NextIteration(r), NextCursor(r), NextIteration(s), NextCursor(s))

\* A rank by itself: types, and the call that belongs to each place.
Place(r) ==
  /\ pc[r] \in {"unborn", "start", "update", "step", "report", "schema", "pack", "top"}
                 \cup Gone
  /\ iteration[r] \in 0..MaxIterations /\ cursor[r] \in Nat \ {0}
  /\ \A k \in Nat : 1 <= k /\ k < cursor[r] => k \in Positions
  /\ pc[r] \in {"unborn", "start"} => iteration[r] = 0 /\ cursor[r] = 1
  /\ pc[r] = "step" => cursor[r] \in Positions
  /\ pc[r] = "report" => cursor[r] \notin Positions /\ call[r] # NoCall
  /\ pc[r] \in {"report", "schema", "pack"} => iteration[r] > 0

Call(kind, of, width) == [kind |-> kind, of |-> of, width |-> width]
Meeting(r) ==
  \/ call[r] = NoCall
  \/ pc[r] = "start" /\ call[r] = Call("init", "none", 0)
  \/ /\ pc[r] = "update" /\ cursor[r] \in Positions \ Targets
     /\ call[r] = Call("gradients", Updates[cursor[r]], 0)
  \/ pc[r] = "report" /\ call[r] = Call("changed", "none", 0)
  \/ pc[r] = "schema" /\ call[r] = Call("schema", "none", source[r])
  \/ pc[r] = "pack" /\ call[r] = Call("packed", "none", Cardinality(schema[r]))

\* Two ranks between the same two collectives.
Together(r, s) ==
  /\ schema[r] = schema[s]
  /\ \/ pc[r] \in {"unborn", "start"} /\ pc[s] \in {"unborn", "start"}
     \/ pc[r] \in Computing /\ pc[s] \in Computing /\ (Reaches(r, s) \/ Reaches(s, r))
     \/ /\ pc[r] = "schema" /\ pc[s] = "schema" /\ iteration[r] = iteration[s]
        /\ source[r] = source[s] /\ gathered[r] = gathered[s]
     \/ pc[r] = "pack" /\ pc[s] = "pack" /\ iteration[r] = iteration[s]

Functions == 
  /\ DOMAIN pc = Ranks /\ DOMAIN call = Ranks /\ DOMAIN iteration = Ranks
  /\ DOMAIN cursor = Ranks /\ DOMAIN schema = Ranks /\ DOMAIN gathered = Ranks
  /\ DOMAIN source = Ranks
Alone == \A r \in Ranks : Place(r) /\ Meeting(r)
InStep == \A r, s \in Ranks : Live(r) /\ Live(s) => Together(r, s)
SyncInv == Functions /\ Alone /\ InStep

-----------------------------------------------------------------------------
LEMMA Constants == 0 \in Ranks /\ WorldSize \in Nat /\ MaxIterations \in Nat
BY DpAssumption DEF DpAssumption, Ranks

\* The kind of a call tells where its rank is.
LEMMA PlaceOfCall ==
  ASSUME NEW r \in Ranks, Meeting(r), call[r] # NoCall
  PROVE  /\ call[r].kind = "init" => pc[r] = "start"
         /\ call[r].kind = "gradients" => pc[r] = "update" /\ cursor[r] \in Positions
         /\ call[r].kind = "changed" => pc[r] = "report"
         /\ call[r].kind = "schema" => pc[r] = "schema"
BY DEF Meeting, Call

LEMMA CallIsNotNone ==
  ASSUME NEW of, NEW width
  PROVE  Call("changed", of, width) # NoCall
<1>1. Call("changed", of, width).kind # NoCall.kind
  BY DEF Call, NoCall
<1>2. QED
  BY <1>1

LEMMA ReachesItself ==
  ASSUME NEW r \in Ranks, Place(r)
  PROVE  Reaches(r, r)
BY Constants DEF Reaches, Leads, NextIteration, NextCursor, Place

\* A rank that is at a call, or at the end of an iteration, is not led from there.
LEMMA Stays ==
  ASSUME NEW i, NEW j, NEW c \in Nat, NEW d \in Nat, Leads(i, c, j, d),
         c \notin Targets, c \in Positions \/ i # 0
  PROVE  i = j /\ c = d
BY DEF Leads

\* Two ranks in calls are in the same call.
LEMMA SameCall ==
  ASSUME SyncInv, NEW r \in Ranks, NEW s \in Ranks, call[r] # NoCall, call[s] # NoCall
  PROVE  /\ call[r] = call[s] /\ pc[r] = pc[s] /\ iteration[r] = iteration[s]
         /\ pc[r] \in {"update", "report"} => cursor[r] = cursor[s]
<1>1. Place(r) /\ Place(s) /\ Meeting(r) /\ Meeting(s)
  BY DEF SyncInv, Alone
<1>2. Live(r) /\ Live(s)
  BY <1>1 DEF Meeting, Live, Gone
<1>3. Together(r, s)
  BY <1>2 DEF SyncInv, InStep
<1>4. CASE pc[r] = "start" \/ pc[s] = "start"
  BY <1>1, <1>3, <1>4 DEF Together, Meeting, Place, Computing
<1>5. CASE pc[r] \in {"schema", "pack"} \/ pc[s] \in {"schema", "pack"}
  BY <1>1, <1>3, <1>5 DEF Together, Meeting, Computing
<1>6. CASE pc[r] \in {"update", "report"} /\ pc[s] \in {"update", "report"}
  <2>1. Reaches(r, s) \/ Reaches(s, r)
    BY <1>3, <1>6 DEF Together, Computing
  <2>2. \A q \in {r, s} : /\ NextIteration(q) = iteration[q] /\ NextCursor(q) = cursor[q]
                          /\ cursor[q] \in Nat /\ iteration[q] \in Nat
    BY <1>1, <1>6, Constants DEF NextIteration, NextCursor, Place
  <2>3. \A q \in {r, s} : /\ cursor[q] \notin Targets
                          /\ cursor[q] \in Positions \/ iteration[q] # 0
    <3>1. SUFFICES ASSUME NEW q \in {r, s}
                   PROVE  /\ cursor[q] \notin Targets
                          /\ cursor[q] \in Positions \/ iteration[q] # 0
      OBVIOUS
    <3>2. CASE pc[q] = "update"
      BY <1>1, <3>2 DEF Meeting
    <3>3. CASE pc[q] = "report"
      BY <1>1, <3>3 DEF Place, Targets
    <3>4. QED
      BY <1>6, <3>2, <3>3
  <2>4. iteration[r] = iteration[s] /\ cursor[r] = cursor[s]
    BY <2>1, <2>2, <2>3, Stays DEF Reaches
  <2>5. pc[r] = pc[s]
    BY <1>1, <1>6, <2>4 DEF Meeting, Place
  <2>6. QED
    BY <1>1, <1>6, <2>4, <2>5 DEF Meeting
<1>7. QED
  BY <1>1, <1>4, <1>5, <1>6 DEF Meeting

\* A collective that ends finds every rank at the same place.
LEMMA AllAtOnePlace ==
  ASSUME SyncInv, NEW kind, kind # "none", AllIn(kind), NEW r \in Ranks, NEW s \in Ranks
  PROVE  /\ call[r].kind = kind /\ call[r] # NoCall /\ call[r] = call[s] /\ pc[r] = pc[s]
         /\ iteration[r] = iteration[s] /\ schema[r] = schema[s]
         /\ pc[r] \in {"update", "report"} => cursor[r] = cursor[s]
         /\ pc[r] = "schema" => source[r] = source[s] /\ gathered[r] = gathered[s]
         /\ Place(r) /\ Meeting(r)
<1>0. NoCall.kind = "none"
  BY DEF NoCall
<1>1. call[r].kind = kind /\ call[s].kind = kind /\ call[r] # NoCall /\ call[s] # NoCall
  BY <1>0 DEF AllIn
<1>2. Place(r) /\ Meeting(r) /\ Live(r) /\ Live(s)
  BY <1>1 DEF SyncInv, Alone, Meeting, Live, Gone
<1>3. Together(r, s)
  BY <1>2 DEF SyncInv, InStep
<1>4. QED
  BY <1>1, <1>2, <1>3, SameCall DEF Together, Computing

-----------------------------------------------------------------------------
\* A step that leaves what the ranks' order depends on alone.
LEMMA Keeps ==
  ASSUME SyncInv, UNCHANGED <<pc, call, iteration, cursor, schema, gathered, source>>
  PROVE  SyncInv'
<1>1. Functions'
  BY DEF SyncInv, Functions
<1>2. Alone'
  BY DEF SyncInv, Alone, Place, Meeting
<1>3. InStep'
  BY DEF SyncInv, InStep, Live, Together, Reaches, NextIteration, NextCursor
<1>4. QED
  BY <1>1, <1>2, <1>3 DEF SyncInv

\* A step of one rank that leaves its schema alone.
LEMMA OneMoves ==
  ASSUME SyncInv, NEW r \in Ranks, Functions',
         \A s \in Ranks \ {r} :
           /\ pc'[s] = pc[s] /\ call'[s] = call[s] /\ iteration'[s] = iteration[s]
           /\ cursor'[s] = cursor[s],
         UNCHANGED <<schema, gathered, source>>,
         Place(r)', Meeting(r)',
         Live(r)' => Together(r, r)' /\ \A s \in Ranks \ {r} : Live(s) => Together(r, s)'
  PROVE  SyncInv'
<1>1. Alone'
  <2>1. SUFFICES ASSUME NEW s \in Ranks \ {r} PROVE (Place(s) /\ Meeting(s))'
    BY DEF Alone
  <2>2. QED
    BY DEF SyncInv, Alone, Place, Meeting
<1>2. \A s, q \in Ranks \ {r} : (Live(s) /\ Live(q) => Together(s, q))'
  BY DEF SyncInv, InStep, Live, Together, Reaches, NextIteration, NextCursor
<1>3. \A s \in Ranks : Together(r, s)' => Together(s, r)'
  BY DEF Together
<1>4. InStep'
  BY <1>2, <1>3 DEF InStep, Live
<1>5. QED
  BY <1>1, <1>4 DEF SyncInv

\* Ranks that leave.
LEMMA Departs ==
  ASSUME SyncInv, NEW gone, Forget(gone), DOMAIN pc' = Ranks,
         \A r \in Ranks : IF r \in gone THEN pc'[r] \in Gone ELSE pc'[r] = pc[r]
  PROVE  SyncInv'
<1>1. Functions'
  BY DEF Forget, Functions
<1>2. ASSUME NEW r \in Ranks PROVE (Place(r) /\ Meeting(r))'
  <2>1. CASE r \in gone
    BY <2>1, Constants DEF Forget, Place, Meeting, Gone
  <2>2. CASE r \notin gone
    <3>1. /\ pc'[r] = pc[r] /\ call'[r] = call[r] /\ iteration'[r] = iteration[r]
          /\ cursor'[r] = cursor[r] /\ schema'[r] = schema[r] /\ source'[r] = source[r]
      BY <2>2 DEF Forget
    <3>2. QED
      BY <3>1 DEF SyncInv, Alone, Place, Meeting
  <2>3. QED
    BY <2>1, <2>2
<1>3. ASSUME NEW r \in Ranks, NEW s \in Ranks, Live(r)', Live(s)' PROVE Together(r, s)'
  <2>1. r \notin gone /\ s \notin gone
    BY <1>3 DEF Live
  <2>2. \A q \in {r, s} :
          /\ pc'[q] = pc[q] /\ iteration'[q] = iteration[q] /\ cursor'[q] = cursor[q]
          /\ schema'[q] = schema[q] /\ gathered'[q] = gathered[q] /\ source'[q] = source[q]
    BY <2>1 DEF Forget
  <2>3. Together(r, s)
    BY <1>3, <2>2 DEF SyncInv, InStep, Live
  <2>4. QED
    BY <2>2, <2>3 DEF Together, Reaches, NextIteration, NextCursor
<1>4. QED
  BY <1>1, <1>2, <1>3 DEF SyncInv, Alone, InStep

-----------------------------------------------------------------------------
\* A rank enters a call that is its next.
LEMMA Enters ==
  ASSUME SyncInv, NEW r \in Ranks, NEW kind, NEW of, NEW width, Enter(r, kind, of, width),
         UNCHANGED <<pc, iteration, cursor, schema, gathered, source>>, Meeting(r)',
         pc[r] # "report"
  PROVE  SyncInv'
<1>1. Functions'
  BY DEF SyncInv, Functions, Enter
<1>2. \A s \in Ranks \ {r} : call'[s] = call[s]
  BY DEF SyncInv, Functions, Enter
<1>3. Place(r)'
  BY DEF SyncInv, Alone, Place
<1>4. \A s \in Ranks : Live(r) /\ Live(s) => Together(r, s)'
  BY DEF SyncInv, InStep, Together, Reaches, NextIteration, NextCursor
<1>5. QED
  BY <1>1, <1>2, <1>3, <1>4, OneMoves DEF Live

LEMMA EnterInitStep ==
  ASSUME SyncInv, NEW r \in Ranks, EnterInit(r)
  PROVE  SyncInv'
<1>1. Meeting(r)'
  BY DEF EnterInit, At, Enter, Meeting, Call, SyncInv, Functions
<1>2. QED
  BY <1>1, Enters DEF EnterInit, At, progress, statistics

LEMMA BackwardStep ==
  ASSUME Gate # "host", SyncInv, NEW r \in Ranks, Backward(r)
  PROVE  SyncInv'
<1>1. /\ Updating(r) /\ Step(r) # "target" /\ Enter(r, "gradients", Step(r), 0)
      /\ UNCHANGED <<pc, iteration, cursor, schema, gathered, source>>
  BY DEF Backward, statistics
<1>2. cursor[r] \in Positions \ Targets
  BY <1>1 DEF SyncInv, Alone, Place, Updating, Step, Positions, Targets
<1>3. Meeting(r)'
  BY <1>1, <1>2 DEF Updating, At, Enter, Meeting, Call, Step, SyncInv, Functions
<1>4. QED
  BY <1>1, <1>3, Enters DEF Updating, At

LEMMA EnterSchemaStep ==
  ASSUME SyncInv, NEW r \in Ranks, EnterSchema(r)
  PROVE  SyncInv'
<1>1. Meeting(r)'
  BY DEF EnterSchema, At, Enter, Meeting, Call, SyncInv, Functions, statistics
<1>2. QED
  BY <1>1, Enters DEF EnterSchema, At, progress, statistics

LEMMA EnterPackedStep ==
  ASSUME SyncInv, NEW r \in Ranks, EnterPacked(r)
  PROVE  SyncInv'
<1>1. Meeting(r)'
  BY DEF EnterPacked, At, Enter, Meeting, Call, SyncInv, Functions, statistics
<1>2. QED
  BY <1>1, Enters DEF EnterPacked, At, progress, statistics

-----------------------------------------------------------------------------
\* A rank goes on among the positions of the updates.
LEMMA GoesOn ==
  ASSUME SyncInv, NEW r \in Ranks, Functions',
         \A s \in Ranks \ {r} :
           /\ pc'[s] = pc[s] /\ call'[s] = call[s] /\ iteration'[s] = iteration[s]
           /\ cursor'[s] = cursor[s],
         UNCHANGED <<schema, gathered, source>>,
         pc[r] \in Computing, pc'[r] \in Computing, Place(r)', Meeting(r)',
         \A s \in Ranks \ {r} : Place(s) /\ (Reaches(r, s) \/ Reaches(s, r)) =>
           (Reaches(r, s) \/ Reaches(s, r))'
  PROVE  SyncInv'
<1>1. Together(r, r)'
  <2>1. Reaches(r, r)'
    BY Constants DEF Reaches, Leads, NextIteration, NextCursor, Place
  <2>2. QED
    BY <2>1 DEF Together
<1>2. ASSUME NEW s \in Ranks \ {r}, Live(s) PROVE Together(r, s)'
  <2>1. Live(r) /\ Place(s)
    BY DEF Live, Computing, Gone, SyncInv, Alone
  <2>2. Together(r, s)
    BY <1>2, <2>1 DEF SyncInv, InStep
  <2>3. pc[s] \in Computing /\ schema[r] = schema[s] /\ (Reaches(r, s) \/ Reaches(s, r))
    BY <2>2 DEF Together, Computing
  <2>4. QED
    BY <2>1, <2>3 DEF Together
<1>3. QED
  BY <1>1, <1>2, OneMoves

\* The same position under another name.
LEMMA SamePosition ==
  ASSUME NEW r \in Ranks, NEW s \in Ranks,
         pc'[s] = pc[s], iteration'[s] = iteration[s], cursor'[s] = cursor[s],
         NextIteration(r)' = NextIteration(r), NextCursor(r)' = NextCursor(r),
         Reaches(r, s) \/ Reaches(s, r)
  PROVE  (Reaches(r, s) \/ Reaches(s, r))'
<1>1. NextIteration(s)' = NextIteration(s) /\ NextCursor(s)' = NextCursor(s)
  BY DEF NextIteration, NextCursor
<1>2. QED
  BY <1>1 DEF Reaches, Leads

LEMMA PastTarget ==
  ASSUME NEW i, NEW j, NEW c \in Nat, NEW d \in Nat, c \in Targets,
         Leads(i, c, j, d) \/ Leads(j, d, i, c)
  PROVE  Leads(i, c + 1, j, d) \/ Leads(j, d, i, c + 1)
<1>1. CASE i = j /\ c = d
  BY <1>1 DEF Leads
<1>2. CASE Leads(i, c, j, d) /\ ~(i = j /\ c = d)
  BY <1>2 DEF Leads
<1>3. CASE Leads(j, d, i, c)
  BY <1>3 DEF Leads
<1>4. QED
  BY <1>1, <1>2, <1>3

LEMMA PastWarmup ==
  ASSUME NEW j \in Nat, NEW c \in Nat \ {0}, NEW d \in Nat \ {0}, c \notin Positions,
         \A k \in Nat : 1 <= k /\ k < d => k \in Positions,
         Leads(0, c, j, d) \/ Leads(j, d, 0, c)
  PROVE  Leads(1, 1, j, d) \/ Leads(j, d, 1, 1)
<1>1. \A k \in Positions : k < c
  BY DEF Positions
<1>2. CASE j = 1
  BY <1>2 DEF Leads
<1>3. CASE j = 0
  BY <1>1, <1>3 DEF Leads
<1>4. QED
  BY <1>2, <1>3 DEF Leads

LEMMA StepOptimizerStep ==
  ASSUME SyncInv, NEW r \in Ranks, StepOptimizer(r)
  PROVE  SyncInv'
<1>1. /\ pc[r] = "step" /\ call[r] = NoCall /\ pc' = [pc EXCEPT ![r] = "update"]
      /\ cursor' = [cursor EXCEPT ![r] = @ + 1]
      /\ UNCHANGED <<iteration, call, schema, gathered, source>>
  BY DEF StepOptimizer, At, Goto, statistics
<1>2. /\ Functions' /\ pc'[r] = "update" /\ cursor'[r] = cursor[r] + 1
      /\ \A s \in Ranks \ {r} : pc'[s] = pc[s] /\ cursor'[s] = cursor[s]
  BY <1>1 DEF SyncInv, Functions
<1>3. Place(r) /\ pc[r] = "step"
  BY <1>1 DEF SyncInv, Alone
<1>4. Place(r)' /\ Meeting(r)'
  <2>1. cursor[r] \in Positions /\ cursor'[r] \in Nat \ {0}
    BY <1>2, <1>3 DEF Place, Positions
  <2>2. \A k \in Nat : 1 <= k /\ k < cursor'[r] => k \in Positions
    BY <1>2, <1>3, <2>1 DEF Place
  <2>3. QED
    BY <1>1, <1>2, <1>3, <2>1, <2>2 DEF Place, Meeting
<1>5. NextIteration(r)' = NextIteration(r) /\ NextCursor(r)' = NextCursor(r)
  BY <1>1, <1>2 DEF NextIteration, NextCursor
<1>6. QED
  BY <1>1, <1>2, <1>4, <1>5, GoesOn, SamePosition DEF Computing

LEMMA SoftUpdateTargetStep ==
  ASSUME SyncInv, NEW r \in Ranks, SoftUpdateTarget(r)
  PROVE  SyncInv'
<1>1. /\ pc[r] = "update" /\ call[r] = NoCall /\ cursor[r] \in DOMAIN Updates
      /\ Updates[cursor[r]] = "target"
      /\ cursor' = [cursor EXCEPT ![r] = @ + 1]
      /\ UNCHANGED <<pc, iteration, call, schema, gathered, source>>
  BY DEF SoftUpdateTarget, Updating, Step, At, statistics
<1>2. /\ Functions' /\ cursor'[r] = cursor[r] + 1
      /\ \A s \in Ranks \ {r} : cursor'[s] = cursor[s]
  BY <1>1 DEF SyncInv, Functions
<1>3. Place(r) /\ cursor[r] \in Targets
  BY <1>1 DEF SyncInv, Alone, Place, Targets, Positions
<1>4. Place(r)' /\ Meeting(r)'
  <2>1. cursor[r] \in Positions /\ cursor'[r] \in Nat \ {0}
    BY <1>2, <1>3 DEF Place, Positions, Targets
  <2>2. \A k \in Nat : 1 <= k /\ k < cursor'[r] => k \in Positions
    BY <1>2, <1>3, <2>1 DEF Place
  <2>3. QED
    BY <1>1, <1>2, <1>3, <2>1, <2>2 DEF Place, Meeting
<1>5. ASSUME NEW s \in Ranks \ {r}, Place(s), Reaches(r, s) \/ Reaches(s, r)
      PROVE  (Reaches(r, s) \/ Reaches(s, r))'
  <2>1. /\ NextIteration(s)' = NextIteration(s) /\ NextCursor(s)' = NextCursor(s)
        /\ NextIteration(r)' = NextIteration(r) /\ NextCursor(r)' = NextCursor(r) + 1
        /\ NextCursor(r) \in Targets /\ NextCursor(r) \in Nat
    BY <1>1, <1>2, <1>3 DEF NextIteration, NextCursor, Place
  <2>2. NextCursor(s) \in Nat
    BY <1>5 DEF NextCursor, Place
  <2>3. QED
    BY <1>5, <2>1, <2>2, PastTarget DEF Reaches
<1>6. QED
  BY <1>1, <1>2, <1>4, <1>5, GoesOn DEF Computing

LEMMA FinishWarmupStep ==
  ASSUME SyncInv, NEW r \in Ranks, FinishWarmup(r)
  PROVE  SyncInv'
<1>1. /\ pc[r] = "update" /\ call[r] = NoCall /\ cursor[r] \notin DOMAIN Updates
      /\ iteration[r] = 0 /\ pc' = [pc EXCEPT ![r] = "top"]
      /\ UNCHANGED <<iteration, cursor, call, schema, gathered, source>>
  BY DEF FinishWarmup, Updated, At, Goto, statistics, progress
<1>2. Functions' /\ pc'[r] = "top" /\ \A s \in Ranks \ {r} : pc'[s] = pc[s]
  BY <1>1 DEF SyncInv, Functions
<1>3. Place(r) /\ cursor[r] \notin Positions
  BY <1>1 DEF SyncInv, Alone, Place, Positions
<1>4. Place(r)' /\ Meeting(r)'
  BY <1>1, <1>2, <1>3 DEF Place, Meeting
<1>5. ASSUME NEW s \in Ranks \ {r}, Place(s), Reaches(r, s) \/ Reaches(s, r)
      PROVE  (Reaches(r, s) \/ Reaches(s, r))'
  <2>1. /\ NextIteration(s)' = NextIteration(s) /\ NextCursor(s)' = NextCursor(s)
        /\ NextIteration(r) = 0 /\ NextCursor(r) = cursor[r]
        /\ NextIteration(r)' = 1 /\ NextCursor(r)' = 1
    BY <1>1, <1>2, <1>3 DEF NextIteration, NextCursor, Place
  <2>2. /\ NextIteration(s) \in Nat /\ NextCursor(s) \in Nat \ {0}
        /\ \A k \in Nat : 1 <= k /\ k < NextCursor(s) => k \in Positions
    BY <1>5, Constants DEF NextIteration, NextCursor, Place
  <2>3. cursor[r] \in Nat \ {0}
    BY <1>3 DEF Place
  <2>4. QED
    BY <1>3, <1>5, <2>1, <2>2, <2>3, PastWarmup DEF Reaches
<1>6. QED
  BY <1>1, <1>2, <1>4, <1>5, GoesOn DEF Computing

LEMMA EnterChangedStep ==
  ASSUME SyncInv, NEW r \in Ranks, EnterChanged(r)
  PROVE  SyncInv'
<1>1. /\ pc[r] = "update" /\ cursor[r] \notin DOMAIN Updates
      /\ iteration[r] > 0 /\ pc' = [pc EXCEPT ![r] = "report"]
      /\ call' = [call EXCEPT ![r] = Call("changed", "none", 0)]
      /\ UNCHANGED <<iteration, cursor, schema, gathered, source>>
  BY DEF EnterChanged, Updated, At, Goto, Enter, Call, progress
<1>2. /\ Functions' /\ pc'[r] = "report" /\ call'[r] = Call("changed", "none", 0)
      /\ \A s \in Ranks \ {r} : pc'[s] = pc[s] /\ call'[s] = call[s]
  BY <1>1 DEF SyncInv, Functions
<1>3. Place(r) /\ cursor[r] \notin Positions
  <2>1. Place(r)
    BY DEF SyncInv, Alone
  <2>2. cursor[r] \in Nat \ {0} /\ cursor[r] \notin DOMAIN Updates
    BY <1>1, <2>1 DEF Place
  <2>3. QED
    BY <2>1, <2>2 DEF Positions
<1>4. call'[r] # NoCall
  BY <1>2, CallIsNotNone
<1>5. Place(r)' /\ Meeting(r)'
  BY <1>1, <1>2, <1>3, <1>4 DEF Place, Meeting
<1>6. NextIteration(r)' = NextIteration(r) /\ NextCursor(r)' = NextCursor(r)
  BY <1>1, <1>2 DEF NextIteration, NextCursor
<1>7. QED
  BY <1>1, <1>2, <1>5, <1>6, GoesOn, SamePosition DEF Computing

LEMMA IterateStep ==
  ASSUME SyncInv, NEW r \in Ranks, Iterate(r)
  PROVE  SyncInv'
<1>1. /\ pc[r] = "top" /\ call[r] = NoCall /\ iteration[r] < MaxIterations
      /\ pc' = [pc EXCEPT ![r] = "update"]
      /\ iteration' = [iteration EXCEPT ![r] = @ + 1] /\ cursor' = [cursor EXCEPT ![r] = 1]
      /\ UNCHANGED <<call, schema, gathered, source>>
  BY DEF Iterate, At, Goto
<1>2. /\ Functions' /\ pc'[r] = "update" /\ cursor'[r] = 1
      /\ iteration'[r] = iteration[r] + 1
      /\ \A s \in Ranks \ {r} :
           pc'[s] = pc[s] /\ cursor'[s] = cursor[s] /\ iteration'[s] = iteration[s]
  BY <1>1 DEF SyncInv, Functions
<1>3. Place(r)
  BY DEF SyncInv, Alone
<1>4. Place(r)' /\ Meeting(r)'
  <2>1. iteration'[r] \in 0..MaxIterations
    BY <1>1, <1>2, <1>3, Constants DEF Place
  <2>2. Meeting(r)'
    BY <1>1 DEF Meeting
  <2>3. \A k \in Nat : 1 <= k /\ k < cursor'[r] => k \in Positions
    BY <1>2
  <2>4. QED
    BY <1>2, <2>1, <2>2, <2>3 DEF Place
<1>5. NextIteration(r)' = NextIteration(r) /\ NextCursor(r)' = NextCursor(r)
  BY <1>1, <1>2 DEF NextIteration, NextCursor
<1>6. QED
  BY <1>1, <1>2, <1>4, <1>5, GoesOn, SamePosition DEF Computing

-----------------------------------------------------------------------------
\* The end of a collective takes every rank to the same place.
LEMMA AllMove ==
  ASSUME Functions', NEW label \in {"update", "step", "schema", "pack", "top"},
         \A r \in Ranks : pc'[r] = label /\ call'[r] = NoCall /\ Place(r)',
         \A r, s \in Ranks :
           /\ iteration'[r] = iteration'[s] /\ schema'[r] = schema'[s]
           /\ label \in {"update", "step"} => cursor'[r] = cursor'[s]
           /\ label = "schema" => source'[r] = source'[s] /\ gathered'[r] = gathered'[s]
  PROVE  SyncInv'
<1>1. Alone'
  BY DEF Alone, Meeting
<1>2. ASSUME NEW r \in Ranks, NEW s \in Ranks, label \in Computing PROVE Reaches(r, s)'
  <2>1. NextIteration(r)' = NextIteration(s)' /\ NextCursor(r)' = NextCursor(s)'
    BY <1>2 DEF NextIteration, NextCursor, Computing
  <2>2. NextCursor(r)' \in Nat
    BY DEF NextCursor, Place
  <2>3. QED
    BY <2>1, <2>2 DEF Reaches, Leads
<1>3. InStep'
  BY <1>2 DEF InStep, Together, Computing
<1>4. QED
  BY <1>1, <1>3 DEF SyncInv

\* What Leave does.
LEMMA LeaveFacts ==
  ASSUME NEW label, Leave(label)
  PROVE  /\ DOMAIN pc' = Ranks /\ DOMAIN call' = Ranks
         /\ \A r \in Ranks : pc'[r] = label /\ call'[r] = NoCall
BY DEF Leave

LEMMA BroadcastStep ==
  ASSUME SyncInv, BroadcastFromRank0
  PROVE  SyncInv'
<1>1. /\ AllIn("init") /\ Leave("update")
      /\ UNCHANGED <<iteration, cursor, schema, gathered, source>>
  BY DEF BroadcastFromRank0, progress, statistics
<1>2. Functions'
  BY <1>1, LeaveFacts DEF SyncInv, Functions
<1>3. ASSUME NEW r \in Ranks PROVE iteration[r] = 0 /\ cursor[r] = 1 /\ Place(r)'
  <2>1. Place(r) /\ Meeting(r) /\ call[r].kind = "init" /\ call[r] # NoCall
    BY <1>1, AllAtOnePlace
  <2>2. pc[r] = "start"
    BY <2>1, PlaceOfCall
  <2>3. QED
    BY <1>1, <2>1, <2>2, LeaveFacts DEF Place
<1>4. \A r, s \in Ranks : schema[r] = schema[s]
  BY <1>1, AllAtOnePlace
<1>5. QED
  BY <1>1, <1>2, <1>3, <1>4, LeaveFacts, AllMove

LEMMA AllreduceStep ==
  ASSUME SyncInv, AllreduceGradients
  PROVE  SyncInv'
<1>1. /\ AllIn("gradients") /\ Leave("step")
      /\ UNCHANGED <<iteration, cursor, schema, gathered, source>>
  BY DEF AllreduceGradients, progress, statistics
<1>2. Functions'
  BY <1>1, LeaveFacts DEF SyncInv, Functions
<1>3. ASSUME NEW r \in Ranks PROVE pc[r] = "update" /\ Place(r)'
  <2>1. Place(r) /\ Meeting(r) /\ call[r].kind = "gradients" /\ call[r] # NoCall
    BY <1>1, AllAtOnePlace
  <2>2. pc[r] = "update" /\ cursor[r] \in Positions
    BY <2>1, PlaceOfCall
  <2>3. QED
    BY <1>1, <2>1, <2>2, LeaveFacts DEF Place
<1>4. \A r, s \in Ranks :
        iteration[r] = iteration[s] /\ schema[r] = schema[s] /\ cursor[r] = cursor[s]
  BY <1>1, <1>3, AllAtOnePlace
<1>5. QED
  BY <1>1, <1>2, <1>3, <1>4, LeaveFacts, AllMove

LEMMA ChangedStep ==
  ASSUME SyncInv, ReduceChanged
  PROVE  SyncInv'
<1>1. PICK label \in {"schema", "pack"} : Leave(label)
  BY DEF ReduceChanged
<1>2. /\ AllIn("changed") /\ UNCHANGED <<iteration, cursor, schema>>
      /\ source' = [r \in Ranks |-> 0] /\ gathered' = [r \in Ranks |-> {}]
  BY DEF ReduceChanged, progress
<1>3. Functions'
  BY <1>1, <1>2, LeaveFacts DEF SyncInv, Functions
<1>4. ASSUME NEW r \in Ranks PROVE Place(r)'
  <2>1. Place(r) /\ Meeting(r) /\ call[r].kind = "changed" /\ call[r] # NoCall
    BY <1>2, AllAtOnePlace
  <2>2. iteration[r] > 0
    BY <2>1, PlaceOfCall DEF Place
  <2>3. QED
    BY <1>1, <1>2, <2>1, <2>2, LeaveFacts DEF Place
<1>5. \A r, s \in Ranks : iteration[r] = iteration[s] /\ schema[r] = schema[s]
  BY <1>2, AllAtOnePlace
<1>6. QED
  BY <1>1, <1>2, <1>3, <1>4, <1>5, LeaveFacts, AllMove

LEMMA SchemaStep ==
  ASSUME SyncInv, BroadcastSchema
  PROVE  SyncInv'
<1> DEFINE s0 == call[0].width
           received == [r \in Ranks |-> gathered[r] \cup FieldsOf(saved[s0])]
<1>1. PICK label \in {"schema", "pack"} : Leave(label)
  BY DEF BroadcastSchema
<1>2. /\ AllIn("schema") /\ UNCHANGED <<iteration, cursor>>
      /\ source' = [r \in Ranks |-> s0 + 1] /\ gathered' = received
      /\ \/ UNCHANGED schema
         \/ schema' = [r \in Ranks |-> schema[r] \cup received[r]]
  BY DEF BroadcastSchema, progress
<1>3. Functions'
  BY <1>1, <1>2, LeaveFacts DEF SyncInv, Functions
<1>4. ASSUME NEW r \in Ranks PROVE pc[r] = "schema" /\ Place(r)'
  <2>1. Place(r) /\ Meeting(r) /\ call[r].kind = "schema" /\ call[r] # NoCall
    BY <1>2, AllAtOnePlace
  <2>2. pc[r] = "schema"
    BY <2>1, PlaceOfCall
  <2>3. QED
    BY <1>1, <1>2, <2>1, <2>2, LeaveFacts DEF Place
<1>5. \A r, s \in Ranks :
        iteration[r] = iteration[s] /\ schema[r] = schema[s] /\ gathered[r] = gathered[s]
  BY <1>2, <1>4, AllAtOnePlace
<1>6. \A r, s \in Ranks :
        source'[r] = source'[s] /\ gathered'[r] = gathered'[s] /\ schema'[r] = schema'[s]
  <2>1. SUFFICES ASSUME NEW r \in Ranks, NEW s \in Ranks
                 PROVE  /\ source'[r] = source'[s] /\ gathered'[r] = gathered'[s]
                        /\ schema'[r] = schema'[s]
    OBVIOUS
  <2>2. received[r] = received[s]
    BY <1>5
  <2>3. source'[r] = source'[s] /\ gathered'[r] = gathered'[s]
    BY <1>2, <2>2
  <2>4. schema'[r] = schema'[s]
    <3> HIDE DEF received, s0
    <3>1. schema[r] = schema[s]
      BY <1>5
    <3>2. CASE UNCHANGED schema
      BY <3>1, <3>2
    <3>3. CASE schema' = [q \in Ranks |-> schema[q] \cup received[q]]
      BY <2>2, <3>1, <3>3
    <3>4. QED
      BY <1>2, <3>2, <3>3
  <2>5. QED
    BY <2>3, <2>4
<1>7. QED
  BY <1>1, <1>2, <1>3, <1>4, <1>5, <1>6, LeaveFacts, AllMove

LEMMA PackedStep ==
  ASSUME SyncInv, ReducePacked
  PROVE  SyncInv'
<1>1. /\ AllIn("packed") /\ Leave("top")
      /\ UNCHANGED <<iteration, cursor, schema, gathered, source>>
  BY DEF ReducePacked, progress
<1>2. Functions'
  BY <1>1, LeaveFacts DEF SyncInv, Functions
<1>3. ASSUME NEW r \in Ranks PROVE Place(r)'
  <2>1. Place(r)
    BY DEF SyncInv, Alone
  <2>2. QED
    BY <1>1, <2>1, LeaveFacts DEF Place
<1>4. \A r, s \in Ranks : iteration[r] = iteration[s] /\ schema[r] = schema[s]
  BY <1>1, AllAtOnePlace
<1>5. QED
  BY <1>1, <1>2, <1>3, <1>4, LeaveFacts, AllMove

\* A rank without a call moves to a place that has no calls either: it is born, or ends.
LEMMA Relabelled ==
  ASSUME SyncInv, NEW r \in Ranks, NEW label, pc' = [pc EXCEPT ![r] = label], call[r] = NoCall,
         label = "ended" \/ (label = "start" /\ pc[r] = "unborn"),
         UNCHANGED <<call, iteration, cursor, schema, gathered, source>>
  PROVE  SyncInv'
<1>1. Functions' /\ pc'[r] = label /\ \A s \in Ranks \ {r} : pc'[s] = pc[s]
  BY DEF SyncInv, Functions
<1>2. Place(r)' /\ Meeting(r)'
  BY <1>1 DEF SyncInv, Alone, Place, Meeting, Gone
<1>3. ASSUME Live(r)', NEW s \in Ranks, s = r \/ Live(s) PROVE Together(r, s)'
  <2>1. label = "start" /\ pc[r] = "unborn" /\ Live(r)
    BY <1>1, <1>3 DEF Live, Gone
  <2>2. Together(r, s)
    BY <1>3, <2>1 DEF SyncInv, InStep
  <2>3. QED
    BY <1>1, <2>1, <2>2 DEF Together, Computing
<1>4. QED
  BY <1>1, <1>2, <1>3, OneMoves

-----------------------------------------------------------------------------
\* A rank's networks when it has taken the optimizer step it is about to take.
Stepped(steps, optimizer, skipped) ==
  [steps EXCEPT ![optimizer] = IF skipped THEN @ ELSE @ + 1]
AppliedNext(r) ==
  IF pc[r] = "step" THEN Stepped(applied[r], Step(r), FoundInf(r)) ELSE applied[r]
FiniteNext(r) ==
  IF pc[r] = "step" /\ Step(r) = "critic" THEN ~FoundInf(r) ELSE finite[r]

\* The target updates between two positions have moved the target network or not.
Moved(r, distance) == IF FiniteNext(r) THEN distance ELSE 0

\* Two ranks behind the start have the same networks but for the target updates between
\* them, and a rank that is out of the warm-up before its peer has none but those.
Agree(r, s) ==
  pc[r] \notin {"unborn", "start"} /\ pc[s] \notin {"unborn", "start"} =>
    /\ origin[r] = origin[s]
    /\ NextIteration(r) > 0 /\ NextIteration(s) > 0 =>
         /\ AppliedNext(r) = AppliedNext(s) /\ FiniteNext(r) = FiniteNext(s)
         /\ pc[r] = "step" /\ pc[s] = "step" => applied[r] = applied[s]
         /\ IF pc[r] \in Computing
            THEN NextCursor(r) <= NextCursor(s) =>
                   target[s] = target[r] + Moved(r, NextCursor(s) - NextCursor(r))
            ELSE target[r] = target[s]
    /\ NextIteration(r) = 0 /\ NextIteration(s) > 0 =>
         /\ AppliedNext(s) = Untrained /\ FiniteNext(s) = TRUE
         /\ target[s] = NextCursor(s) - 1

NetworkFunctions ==
  /\ DOMAIN origin = Ranks /\ DOMAIN applied = Ranks /\ DOMAIN target = Ranks
  /\ DOMAIN finite = Ranks /\ DOMAIN mean = Ranks
  /\ \A r \in Ranks : target[r] \in Nat
AgreeInv ==
  NetworkFunctions /\ \A r, s \in Ranks : Live(r) /\ Live(s) => Agree(r, s)

Same(r) ==
  UNCHANGED <<pc[r], iteration[r], cursor[r], origin[r], applied[r], target[r], finite[r], mean[r]>>

\* Two ranks of which nothing has changed agree as before.
LEMMA SameAgree ==
  ASSUME Gate = "sac", NEW r \in Ranks, NEW s \in Ranks, Same(r), Same(s), Agree(r, s)
  PROVE  Agree(r, s)'
<1>1. ASSUME NEW q \in Ranks, Same(q)
      PROVE  /\ NextIteration(q)' = NextIteration(q) /\ NextCursor(q)' = NextCursor(q)
             /\ AppliedNext(q)' = AppliedNext(q) /\ FiniteNext(q)' = FiniteNext(q)
  <2>1. Step(q)' = Step(q) /\ FoundInf(q)' = FoundInf(q)
    BY <1>1 DEF Same, Step, FoundInf
  <2>2. QED
    BY <1>1, <2>1 DEF Same, NextIteration, NextCursor, AppliedNext, FiniteNext
<1>2. QED
  BY <1>1 DEF Same, Agree, Moved

\* One rank moves.
LEMMA AgreeOne ==
  ASSUME Gate = "sac", AgreeInv, NEW r \in Ranks, NetworkFunctions',
         \A s \in Ranks \ {r} : Same(s),
         Live(r)' => \A s \in Ranks : s = r \/ Live(s) => (Agree(r, s) /\ Agree(s, r))'
  PROVE  AgreeInv'
<1>1. SUFFICES ASSUME NEW q \in Ranks, NEW s \in Ranks, Live(q)', Live(s)' PROVE Agree(q, s)'
  BY DEF AgreeInv
<1>2. CASE q # r /\ s # r
  <2>1. Live(q) /\ Live(s) /\ Same(q) /\ Same(s)
    BY <1>1, <1>2 DEF Live, Same
  <2>2. QED
    BY <2>1, SameAgree DEF AgreeInv
<1>3. CASE q = r \/ s = r
  BY <1>1, <1>3 DEF Live, Same
<1>4. QED
  BY <1>2, <1>3

\* Nothing that matters to the networks changes.
LEMMA AgreeKeeps ==
  ASSUME Gate = "sac", AgreeInv, UNCHANGED <<pc, iteration, cursor, origin, applied, target, finite, mean>>
  PROVE  AgreeInv'
<1>1. \A r \in Ranks : Same(r)
  BY DEF Same
<1>2. QED
  BY <1>1, SameAgree DEF AgreeInv, NetworkFunctions, Live

LEMMA AgreeDeparts ==
  ASSUME Gate = "sac", AgreeInv, NEW gone, Forget(gone),
         \A r \in Ranks : IF r \in gone THEN pc'[r] \in Gone ELSE pc'[r] = pc[r]
  PROVE  AgreeInv'
<1>1. NetworkFunctions'
  BY DEF AgreeInv, NetworkFunctions, Forget
<1>2. \A r \in Ranks : r \notin gone => Same(r)
  BY DEF Same, Forget
<1>3. \A r \in Ranks : Live(r)' => Live(r) /\ r \notin gone
  BY DEF Live
<1>4. QED
  BY <1>1, <1>2, <1>3, SameAgree DEF AgreeInv

LEMMA AgreeRelabelled ==
  ASSUME Gate = "sac", AgreeInv, NEW r \in Ranks, NEW label, pc' = [pc EXCEPT ![r] = label],
         DOMAIN pc = Ranks, label \in {"ended", "start"},
         UNCHANGED <<iteration, cursor, origin, applied, target, finite, mean>>
  PROVE  AgreeInv'
<1>1. /\ NetworkFunctions' /\ pc'[r] = label /\ \A s \in Ranks \ {r} : Same(s)
  BY DEF AgreeInv, NetworkFunctions, Same
<1>2. Live(r)' => pc'[r] = "start"
  BY <1>1 DEF Live, Gone
<1>3. QED
  BY <1>1, <1>2, AgreeOne DEF Agree

LEMMA AgreesItself ==
  ASSUME NEW r \in Ranks, target'[r] \in Nat, NextCursor(r)' \in Nat
  PROVE  Agree(r, r)'
BY DEF Agree, Moved

-----------------------------------------------------------------------------
\* A rank that only changes its place's name agrees as before.
LEMMA AgreeSamePosition ==
  ASSUME Gate = "sac", SyncInv, SyncInv', AgreeInv, NetworkFunctions', NEW r \in Ranks,
         \A s \in Ranks \ {r} : Same(s),
         pc[r] \in Computing, pc'[r] \in Computing \ {"step"},
         NextIteration(r)' = NextIteration(r), NextCursor(r)' = NextCursor(r),
         AppliedNext(r)' = AppliedNext(r), FiniteNext(r)' = FiniteNext(r),
         origin'[r] = origin[r], target'[r] = target[r]
  PROVE  AgreeInv'
<1>1. Agree(r, r)'
  <2>1. Place(r)'
    BY DEF SyncInv, Alone
  <2>2. NextCursor(r)' \in Nat
    BY <2>1 DEF NextCursor, Place
  <2>3. QED
    BY <2>2, AgreesItself DEF NetworkFunctions
<1>2. ASSUME NEW s \in Ranks \ {r}, Live(s) PROVE (Agree(r, s) /\ Agree(s, r))'
  <2>1. Agree(r, s) /\ Agree(s, r)
    BY <1>2 DEF AgreeInv, Live, Computing, Gone
  <2>2. /\ NextIteration(s)' = NextIteration(s) /\ NextCursor(s)' = NextCursor(s)
        /\ AppliedNext(s)' = AppliedNext(s) /\ FiniteNext(s)' = FiniteNext(s)
        /\ pc'[s] = pc[s] /\ origin'[s] = origin[s] /\ target'[s] = target[s]
    BY DEF Same, NextIteration, NextCursor, AppliedNext, FiniteNext, Step, FoundInf
  <2>3. QED
    BY <2>1, <2>2 DEF Agree, Moved, Computing
<1>3. QED
  BY <1>1, <1>2, AgreeOne

LEMMA AgreeStepOptimizer ==
  ASSUME Gate = "sac", SyncInv, SyncInv', AgreeInv, NEW r \in Ranks, StepOptimizer(r)
  PROVE  AgreeInv'
<1>1. /\ pc[r] = "step" /\ pc' = [pc EXCEPT ![r] = "update"]
      /\ applied' = [applied EXCEPT ![r] = Stepped(applied[r], Step(r), FoundInf(r))]
      /\ finite' = IF Step(r) = "critic" THEN [finite EXCEPT ![r] = ~FoundInf(r)] ELSE finite
      /\ cursor' = [cursor EXCEPT ![r] = @ + 1]
      /\ UNCHANGED <<iteration, origin, target, mean>>
  BY DEF StepOptimizer, At, Goto, Stepped
<1>2. /\ NetworkFunctions' /\ pc'[r] = "update" /\ cursor'[r] = cursor[r] + 1
      /\ applied'[r] = Stepped(applied[r], Step(r), FoundInf(r))
      /\ finite'[r] = IF Step(r) = "critic" THEN ~FoundInf(r) ELSE finite[r]
      /\ \A s \in Ranks \ {r} : Same(s)
  BY <1>1 DEF SyncInv, Functions, AgreeInv, NetworkFunctions, Same
<1>3. /\ NextIteration(r)' = NextIteration(r) /\ NextCursor(r)' = NextCursor(r)
      /\ AppliedNext(r)' = AppliedNext(r) /\ FiniteNext(r)' = FiniteNext(r)
  BY <1>1, <1>2 DEF NextIteration, NextCursor, AppliedNext, FiniteNext
<1>4. QED
  BY <1>1, <1>2, <1>3, AgreeSamePosition DEF Computing

LEMMA AgreeEnterChanged ==
  ASSUME Gate = "sac", SyncInv, SyncInv', AgreeInv, NEW r \in Ranks, EnterChanged(r)
  PROVE  AgreeInv'
<1>1. /\ pc[r] = "update" /\ pc' = [pc EXCEPT ![r] = "report"]
      /\ UNCHANGED <<iteration, cursor, origin, applied, target, finite, mean>>
  BY DEF EnterChanged, Updated, At, Goto, progress, networks
<1>2. NetworkFunctions' /\ pc'[r] = "report" /\ \A s \in Ranks \ {r} : Same(s)
  BY <1>1 DEF SyncInv, Functions, AgreeInv, NetworkFunctions, Same
<1>3. /\ NextIteration(r)' = NextIteration(r) /\ NextCursor(r)' = NextCursor(r)
      /\ AppliedNext(r)' = AppliedNext(r) /\ FiniteNext(r)' = FiniteNext(r)
  BY <1>1, <1>2 DEF NextIteration, NextCursor, AppliedNext, FiniteNext
<1>4. QED
  BY <1>1, <1>2, <1>3, AgreeSamePosition DEF Computing

LEMMA AgreeIterate ==
  ASSUME Gate = "sac", SyncInv, SyncInv', AgreeInv, NEW r \in Ranks, Iterate(r)
  PROVE  AgreeInv'
<1>1. /\ pc[r] = "top" /\ pc' = [pc EXCEPT ![r] = "update"]
      /\ iteration' = [iteration EXCEPT ![r] = @ + 1] /\ cursor' = [cursor EXCEPT ![r] = 1]
      /\ UNCHANGED <<origin, applied, target, finite, mean>>
  BY DEF Iterate, At, Goto, networks
<1>2. /\ NetworkFunctions' /\ pc'[r] = "update" /\ cursor'[r] = 1
      /\ iteration'[r] = iteration[r] + 1 /\ \A s \in Ranks \ {r} : Same(s)
  BY <1>1 DEF SyncInv, Functions, AgreeInv, NetworkFunctions, Same
<1>3. /\ NextIteration(r)' = NextIteration(r) /\ NextCursor(r)' = NextCursor(r)
      /\ AppliedNext(r)' = AppliedNext(r) /\ FiniteNext(r)' = FiniteNext(r)
  BY <1>1, <1>2 DEF NextIteration, NextCursor, AppliedNext, FiniteNext
<1>4. QED
  BY <1>1, <1>2, <1>3, AgreeSamePosition DEF Computing

LEMMA AgreeSoftUpdateTarget ==
  ASSUME Gate = "sac", SyncInv, SyncInv', AgreeInv, NEW r \in Ranks, SoftUpdateTarget(r)
  PROVE  AgreeInv'
<1>1. /\ pc[r] = "update" /\ cursor' = [cursor EXCEPT ![r] = @ + 1]
      /\ target' = [target EXCEPT ![r] = IF finite[r] THEN @ + 1 ELSE @]
      /\ UNCHANGED <<pc, iteration, origin, applied, finite, mean>>
  BY DEF SoftUpdateTarget, Updating, At
<1>2. /\ NetworkFunctions' /\ cursor'[r] = cursor[r] + 1
      /\ target'[r] = IF finite[r] THEN target[r] + 1 ELSE target[r]
      /\ \A s \in Ranks \ {r} : Same(s)
  BY <1>1 DEF SyncInv, Functions, AgreeInv, NetworkFunctions, Same
<1>3. Place(r) /\ cursor[r] \in Nat /\ target[r] \in Nat
  BY DEF SyncInv, Alone, Place, AgreeInv, NetworkFunctions
<1>4. /\ NextIteration(r)' = NextIteration(r) /\ NextCursor(r)' = NextCursor(r) + 1
      /\ AppliedNext(r)' = AppliedNext(r) /\ FiniteNext(r)' = FiniteNext(r)
      /\ NextCursor(r) \in Nat /\ FiniteNext(r) = finite[r]
  BY <1>1, <1>2, <1>3 DEF NextIteration, NextCursor, AppliedNext, FiniteNext
<1>5. Agree(r, r)'
  BY <1>2, <1>4, AgreesItself DEF NetworkFunctions
<1>6. ASSUME NEW s \in Ranks \ {r}, Live(s) PROVE (Agree(r, s) /\ Agree(s, r))'
  <2>1. Agree(r, s) /\ Agree(s, r) /\ Together(r, s)
    BY <1>1, <1>6 DEF AgreeInv, SyncInv, InStep, Live, Gone
  <2>2. /\ NextIteration(s)' = NextIteration(s) /\ NextCursor(s)' = NextCursor(s)
        /\ AppliedNext(s)' = AppliedNext(s) /\ FiniteNext(s)' = FiniteNext(s)
        /\ pc'[s] = pc[s] /\ origin'[s] = origin[s] /\ target'[s] = target[s]
        /\ target[s] \in Nat
    BY <1>2 DEF Same, NextIteration, NextCursor, AppliedNext, FiniteNext, Step, FoundInf,
       AgreeInv, NetworkFunctions
  <2>3. pc[s] \in Computing /\ NextCursor(s) \in Nat
    BY <1>1, <2>1 DEF Together, Computing, SyncInv, Alone, Place, NextCursor
  <2>4. Agree(r, s)'
    BY <1>1, <1>2, <1>3, <1>4, <2>1, <2>2, <2>3 DEF Agree, Moved, Computing
  <2>5. Agree(s, r)'
    BY <1>1, <1>2, <1>3, <1>4, <2>1, <2>2, <2>3 DEF Agree, Moved, Computing
  <2>6. QED
    BY <2>4, <2>5
<1>7. QED
  BY <1>2, <1>5, <1>6, AgreeOne

LEMMA AgreeFinishWarmup ==
  ASSUME Gate = "sac", SyncInv, SyncInv', AgreeInv, NEW r \in Ranks, FinishWarmup(r)
  PROVE  AgreeInv'
<1>1. /\ pc[r] = "update" /\ iteration[r] = 0 /\ pc' = [pc EXCEPT ![r] = "top"]
      /\ applied' = [applied EXCEPT ![r] = Untrained]
      /\ target' = [target EXCEPT ![r] = 0] /\ finite' = [finite EXCEPT ![r] = TRUE]
      /\ UNCHANGED <<iteration, cursor, origin, mean>>
  BY DEF FinishWarmup, Updated, At, Goto, progress
<1>2. /\ NetworkFunctions' /\ pc'[r] = "top" /\ target'[r] = 0 /\ finite'[r] = TRUE
      /\ applied'[r] = Untrained /\ \A s \in Ranks \ {r} : Same(s)
  BY <1>1 DEF SyncInv, Functions, AgreeInv, NetworkFunctions, Same
<1>3. /\ NextIteration(r) = 0 /\ NextIteration(r)' = 1 /\ NextCursor(r)' = 1
      /\ AppliedNext(r)' = Untrained /\ FiniteNext(r)' = TRUE
  BY <1>1, <1>2 DEF NextIteration, NextCursor, AppliedNext, FiniteNext
<1>4. Agree(r, r)'
  BY <1>2, <1>3, AgreesItself DEF NetworkFunctions
<1>5. ASSUME NEW s \in Ranks \ {r}, Live(s) PROVE (Agree(r, s) /\ Agree(s, r))'
  <2>1. Agree(r, s) /\ Agree(s, r) /\ Together(r, s)
    BY <1>1, <1>5 DEF AgreeInv, SyncInv, InStep, Live, Gone
  <2>2. /\ NextIteration(s)' = NextIteration(s) /\ NextCursor(s)' = NextCursor(s)
        /\ AppliedNext(s)' = AppliedNext(s) /\ FiniteNext(s)' = FiniteNext(s)
        /\ pc'[s] = pc[s] /\ origin'[s] = origin[s] /\ target'[s] = target[s]
        /\ target[s] \in Nat
    BY <1>2 DEF Same, NextIteration, NextCursor, AppliedNext, FiniteNext, Step, FoundInf,
       AgreeInv, NetworkFunctions
  <2>3. pc[s] \in Computing /\ NextCursor(s) \in Nat \ {0} /\ NextIteration(s) \in Nat
    BY <1>1, <2>1, Constants DEF Together, Computing, SyncInv, Alone, Place, NextCursor, NextIteration
  <2>4. origin'[r] = origin'[s] /\ origin'[s] = origin'[r]
    BY <1>1, <2>1, <2>2, <2>3 DEF Agree, Computing
  <2>5. CASE NextIteration(s) = 0
    BY <1>2, <1>3, <2>2, <2>4, <2>5 DEF Agree
  <2>6. CASE NextIteration(s) > 0
    <3>1. /\ AppliedNext(s) = Untrained /\ FiniteNext(s) = TRUE
          /\ target[s] = NextCursor(s) - 1
      BY <1>1, <1>3, <2>1, <2>3, <2>6 DEF Agree, Computing
    <3>2. Agree(r, s)'
      BY <1>2, <1>3, <2>2, <2>3, <2>4, <3>1 DEF Agree, Moved, Computing
    <3>3. Agree(s, r)'
      BY <1>2, <1>3, <2>2, <2>3, <2>4, <3>1 DEF Agree, Moved
    <3>4. QED
      BY <3>2, <3>3
  <2>7. QED
    BY <2>3, <2>5, <2>6
<1>6. QED
  BY <1>2, <1>4, <1>5, AgreeOne

-----------------------------------------------------------------------------
\* Ranks that end a collective after the start have the same networks.
LEMMA AgreeAtCall ==
  ASSUME Gate = "sac", SyncInv, AgreeInv, NEW kind, kind # "none", AllIn(kind),
         NEW r \in Ranks, NEW s \in Ranks, pc[r] # "start"
  PROVE  /\ origin[r] = origin[s]
         /\ iteration[r] > 0 =>
              applied[r] = applied[s] /\ target[r] = target[s] /\ finite[r] = finite[s]
<1>1. /\ Meeting(r) /\ call[r] # NoCall /\ pc[s] = pc[r] /\ iteration[s] = iteration[r]
      /\ pc[r] \in {"update", "report"} => cursor[r] = cursor[s]
      /\ Place(r)
  BY AllAtOnePlace
<1>2. pc[r] \in {"update", "report", "schema", "pack"}
  BY <1>1 DEF Meeting
<1>3. Agree(r, s) /\ target[r] \in Nat /\ target[s] \in Nat
  BY <1>1, <1>2 DEF AgreeInv, Live, Gone, NetworkFunctions
<1>4. \A q \in {r, s} : /\ NextIteration(q) = iteration[r] /\ AppliedNext(q) = applied[q]
                        /\ FiniteNext(q) = finite[q]
  BY <1>1, <1>2 DEF NextIteration, AppliedNext, FiniteNext
<1>5. CASE pc[r] \in {"update", "report"}
  <2>1. NextCursor(r) = NextCursor(s) /\ NextCursor(r) \in Nat
    BY <1>1, <1>5 DEF NextCursor, Place
  <2>2. QED
    BY <1>1, <1>3, <1>4, <1>5, <2>1 DEF Agree, Moved, Computing
<1>6. CASE pc[r] \in {"schema", "pack"}
  BY <1>1, <1>3, <1>4, <1>6 DEF Agree, Computing
<1>7. QED
  BY <1>2, <1>5, <1>6

LEMMA AgreeBroadcast ==
  ASSUME Gate = "sac", SyncInv, SyncInv', AgreeInv, BroadcastFromRank0
  PROVE  AgreeInv'
<1>1. /\ AllIn("init") /\ Leave("update") /\ origin' = [r \in Ranks |-> origin[0]]
      /\ UNCHANGED <<iteration, applied, target, finite, mean>>
  BY DEF BroadcastFromRank0, progress
<1>2. NetworkFunctions'
  BY <1>1 DEF AgreeInv, NetworkFunctions
<1>3. ASSUME NEW r \in Ranks PROVE NextIteration(r)' = 0
  <2>1. Place(r) /\ Meeting(r) /\ call[r].kind = "init" /\ call[r] # NoCall
    BY <1>1, AllAtOnePlace
  <2>2. iteration[r] = 0
    BY <2>1, PlaceOfCall DEF Place
  <2>3. QED
    BY <1>1, <2>2, LeaveFacts DEF NextIteration
<1>4. QED
  BY <1>1, <1>2, <1>3 DEF AgreeInv, Agree

LEMMA AgreeAllreduce ==
  ASSUME Gate = "sac", SyncInv, SyncInv', AgreeInv, AllreduceGradients
  PROVE  AgreeInv'
<1>1. /\ AllIn("gradients") /\ Leave("step")
      /\ UNCHANGED <<iteration, cursor, origin, applied, target, finite>>
      /\ mean' = [r \in Ranks |-> [loss |-> \E s \in Ranks : own[s].loss,
                                   gradients |-> \E s \in Ranks : own[s].gradients]]
  BY DEF AllreduceGradients, progress, networks
<1>2. NetworkFunctions'
  BY <1>1 DEF AgreeInv, NetworkFunctions
<1>3. ASSUME NEW r \in Ranks, NEW s \in Ranks PROVE Agree(r, s)'
  <2>1. /\ call[r] # NoCall /\ call[r].kind = "gradients" /\ Meeting(r) /\ Place(r) /\ Place(s)
        /\ iteration[r] = iteration[s]
    BY <1>1, AllAtOnePlace
  <2>2. pc[r] = "update"
    BY <2>1, PlaceOfCall
  <2>3. cursor[r] = cursor[s]
    BY <1>1, <2>2, AllAtOnePlace
  <2>4. /\ origin[r] = origin[s]
        /\ iteration[r] > 0 =>
             applied[r] = applied[s] /\ target[r] = target[s] /\ finite[r] = finite[s]
    BY <1>1, <2>2, AgreeAtCall
  <2>5. mean'[r] = mean'[s]
    BY <1>1
  <2>6. FoundInf(r)' = FoundInf(s)' /\ Step(r)' = Step(s)'
    BY <1>1, <2>3, <2>5 DEF FoundInf, Step
  <2>7. pc'[r] = "step" /\ pc'[s] = "step"
    BY <1>1, LeaveFacts
  <2>8. /\ NextIteration(r)' = iteration[r] /\ NextIteration(s)' = iteration[r]
        /\ NextCursor(r)' = NextCursor(s)' /\ NextCursor(r)' \in Nat
    BY <1>1, <2>1, <2>3, <2>7 DEF NextIteration, NextCursor, Place
  <2>9. iteration[r] > 0 => AppliedNext(r)' = AppliedNext(s)' /\ FiniteNext(r)' = FiniteNext(s)'
    BY <1>1, <2>4, <2>6, <2>7 DEF AppliedNext, FiniteNext
  <2>10. target[r] \in Nat /\ target[s] \in Nat /\ iteration[r] \in Nat
    BY <2>1, Constants DEF AgreeInv, NetworkFunctions, Place
  <2>11. QED
    BY <1>1, <2>4, <2>7, <2>8, <2>9, <2>10 DEF Agree, Moved, Computing
<1>4. QED
  BY <1>2, <1>3 DEF AgreeInv

\* The exchange of the statistics leaves the networks alone.
LEMMA AgreeStatistics ==
  ASSUME Gate = "sac", SyncInv, SyncInv', AgreeInv, ReduceChanged \/ BroadcastSchema \/ ReducePacked
  PROVE  AgreeInv'
<1>1. PICK kind \in {"changed", "schema", "packed"}, label \in {"schema", "pack", "top"} :
        AllIn(kind) /\ Leave(label)
  BY DEF ReduceChanged, BroadcastSchema, ReducePacked
<1>2. UNCHANGED <<iteration, cursor, origin, applied, target, finite, mean>>
  BY DEF ReduceChanged, BroadcastSchema, ReducePacked, progress, networks
<1>3. NetworkFunctions'
  BY <1>2 DEF AgreeInv, NetworkFunctions
<1>4. ASSUME NEW r \in Ranks, NEW s \in Ranks PROVE Agree(r, s)'
  <2>1. /\ call[r] # NoCall /\ call[r].kind = kind /\ Meeting(r) /\ Place(r)
        /\ iteration[r] = iteration[s]
    BY <1>1, AllAtOnePlace
  <2>2. pc[r] \in {"report", "schema", "pack"} /\ iteration[r] > 0
    BY <1>1, <2>1 DEF Meeting, Call, Place
  <2>3. /\ origin[r] = origin[s] /\ applied[r] = applied[s] /\ target[r] = target[s]
        /\ finite[r] = finite[s]
    BY <1>1, <2>2, AgreeAtCall
  <2>4. pc'[r] = label /\ pc'[s] = label
    BY <1>1, LeaveFacts
  <2>5. /\ AppliedNext(r)' = applied[r] /\ AppliedNext(s)' = applied[s]
        /\ FiniteNext(r)' = finite[r] /\ FiniteNext(s)' = finite[s]
        /\ NextIteration(r)' = NextIteration(s)' /\ NextIteration(r)' > 0
    BY <1>1, <1>2, <2>1, <2>2, <2>4 DEF AppliedNext, FiniteNext, NextIteration, Place
  <2>6. label = "top" => NextCursor(r)' = 1 /\ NextCursor(s)' = 1
    BY <2>4 DEF NextCursor
  <2>7. target[r] \in Nat
    BY DEF AgreeInv, NetworkFunctions
  <2>8. QED
    BY <1>1, <1>2, <2>3, <2>4, <2>5, <2>6, <2>7 DEF Agree, Moved, Computing
<1>5. QED
  BY <1>3, <1>4 DEF AgreeInv

-----------------------------------------------------------------------------
\* Both invariants together; the second one is that of the learner which gates on every
\* rank's loss.
RanksInv == SyncInv /\ (Gate = "sac" => AgreeInv)

LEMMA Starts ==
  ASSUME LearnersInit, DOMAIN pc = Ranks, \A r \in Ranks : pc[r] \in {"unborn", "start"}
  PROVE  RanksInv
<1>1. Functions
  BY DEF LearnersInit, Functions
<1>2. Alone
  BY Constants DEF LearnersInit, Alone, Place, Meeting
<1>3. InStep
  BY DEF LearnersInit, InStep, Together
<1>4. NetworkFunctions
  BY DEF LearnersInit, NetworkFunctions
<1>5. QED
  BY <1>1, <1>2, <1>3, <1>4 DEF RanksInv, SyncInv, AgreeInv, Agree

LEMMA Stands ==
  ASSUME RanksInv, UNCHANGED <<pc, call, iteration, cursor, schema, gathered, source, networks, mean>>
  PROVE  RanksInv'
BY Keeps, AgreeKeeps DEF RanksInv, networks

LEMMA RanksDepart ==
  ASSUME RanksInv, NEW gone, Forget(gone), DOMAIN pc' = Ranks,
         \A r \in Ranks : IF r \in gone THEN pc'[r] \in Gone ELSE pc'[r] = pc[r]
  PROVE  RanksInv'
BY Departs, AgreeDeparts DEF RanksInv

LEMMA RankLeaves ==
  ASSUME RanksInv, NEW r \in Ranks, NEW label \in Gone, NEW status, Leaves(r, label, status)
  PROVE  RanksInv'
<1>1. Forget({r}) /\ pc' = [pc EXCEPT ![r] = label]
  BY DEF Leaves, Goto
<1>2. DOMAIN pc' = Ranks /\ \A s \in Ranks : IF s \in {r} THEN pc'[s] \in Gone ELSE pc'[s] = pc[s]
  BY <1>1 DEF RanksInv, SyncInv, Functions
<1>3. QED
  BY <1>1, <1>2, RanksDepart

LEMMA RankRelabelled ==
  ASSUME RanksInv, NEW r \in Ranks, NEW label, pc' = [pc EXCEPT ![r] = label], call[r] = NoCall,
         label = "ended" \/ (label = "start" /\ pc[r] = "unborn"),
         UNCHANGED <<call, iteration, cursor, schema, gathered, source, networks, mean>>
  PROVE  RanksInv'
<1>1. SyncInv'
  BY Relabelled DEF RanksInv
<1>2. ASSUME Gate = "sac" PROVE AgreeInv'
  BY <1>2, AgreeRelabelled DEF RanksInv, SyncInv, Functions, networks
<1>3. QED
  BY <1>1, <1>2 DEF RanksInv

LEMMA LearnerStep ==
  ASSUME Gate # "host", RanksInv, NEW r \in Ranks, Learner(r)
  PROVE  RanksInv'
<1>1. CASE Finalize(r)
  BY <1>1, RankLeaves DEF Finalize, Gone
<1>2. CASE Close(r)
  <2>1. pc[r] = "closing" /\ pc' = [pc EXCEPT ![r] = "ended"]
        /\ UNCHANGED <<call, iteration, cursor, schema, gathered, source, networks, mean>>
    BY <1>2 DEF Close, Goto, progress, statistics
  <2>2. call[r] = NoCall
    BY <2>1 DEF RanksInv, SyncInv, Alone, Meeting
  <2>3. QED
    BY <2>1, <2>2, RankRelabelled
<1>3. CASE EnterInit(r) \/ Backward(r) \/ EnterSchema(r) \/ EnterPacked(r)
  <2>1. SyncInv'
    BY <1>3, EnterInitStep, BackwardStep, EnterSchemaStep, EnterPackedStep DEF RanksInv
  <2>2. UNCHANGED <<pc, iteration, cursor, origin, applied, target, finite, mean>>
    BY <1>3 DEF EnterInit, Backward, EnterSchema, EnterPacked, progress, networks
  <2>3. QED
    BY <2>1, <2>2, AgreeKeeps DEF RanksInv
<1>4. CASE StepOptimizer(r)
  BY <1>4, StepOptimizerStep, AgreeStepOptimizer DEF RanksInv
<1>5. CASE SoftUpdateTarget(r)
  BY <1>5, SoftUpdateTargetStep, AgreeSoftUpdateTarget DEF RanksInv
<1>6. CASE FinishWarmup(r)
  BY <1>6, FinishWarmupStep, AgreeFinishWarmup DEF RanksInv
<1>7. CASE EnterChanged(r)
  BY <1>7, EnterChangedStep, AgreeEnterChanged DEF RanksInv
<1>8. CASE Iterate(r)
  BY <1>8, IterateStep, AgreeIterate DEF RanksInv
<1>9. QED
  BY <1>1, <1>2, <1>3, <1>4, <1>5, <1>6, <1>7, <1>8 DEF Learner

LEMMA FailuresStep ==
  ASSUME RanksInv, NEW r \in Ranks, Failures(r)
  PROVE  RanksInv'
BY RankLeaves DEF Failures, Raise, TimesOut, Kill, Gone

LEMMA CollectivesStep ==
  ASSUME RanksInv, Collectives
  PROVE  RanksInv'
<1>1. SyncInv'
  BY BroadcastStep, AllreduceStep, ChangedStep, SchemaStep, PackedStep DEF Collectives, RanksInv
<1>2. QED
  BY <1>1, AgreeBroadcast, AgreeAllreduce, AgreeStatistics DEF Collectives, RanksInv

LEMMA Matches == RanksInv => CollectivesMatch
BY SameCall DEF CollectivesMatch, RanksInv

LEMMA ReplicasMatch ==
  ASSUME Gate = "sac", RanksInv
  PROVE  ReplicasAgree
<1>1. SUFFICES ASSUME NEW r \in Ranks, NEW s \in Ranks, SamePlace(r, s)
               PROVE  origin[r] = origin[s] /\ applied[r] = applied[s] /\ target[r] = target[s]
  BY DEF ReplicasAgree
<1>2. /\ pc[r] = pc[s] /\ pc[r] \notin Gone \cup {"unborn", "start"}
      /\ iteration[r] = iteration[s] /\ cursor[r] = cursor[s] /\ iteration[r] > 0
  BY <1>1 DEF SamePlace
<1>3. Agree(r, s) /\ Place(r) /\ target[r] \in Nat /\ target[s] \in Nat
  BY <1>2 DEF RanksInv, AgreeInv, NetworkFunctions, SyncInv, Alone, Live
<1>4. /\ NextIteration(r) = NextIteration(s) /\ NextIteration(r) > 0
      /\ NextCursor(r) = NextCursor(s) /\ NextCursor(r) \in Nat
  BY <1>2, <1>3, Constants DEF NextIteration, NextCursor, Place
<1>5. origin[r] = origin[s] /\ target[r] = target[s]
  BY <1>2, <1>3, <1>4 DEF Agree, Moved
<1>6. applied[r] = applied[s]
  BY <1>2, <1>3, <1>4 DEF Agree, AppliedNext
<1>7. QED
  BY <1>5, <1>6

\* The ranks alone, without a supervisor: no rank's loss, schema or data takes it another
\* way through the collectives than its peers (allreduce_gradients, allreduce_statistics
\* and their callers), unless the checks of losses run on the host.
THEOREM RanksMatch ==
  ASSUME Gate # "host"
  PROVE  Spec => []CollectivesMatch
<1>1. Init => RanksInv
  BY Starts DEF Init
<1>2. RanksInv /\ [Next]_vars => RanksInv'
  <2>1. SUFFICES ASSUME RanksInv, [Next]_vars PROVE RanksInv'
    OBVIOUS
  <2>2. CASE UNCHANGED vars
    BY <2>1, <2>2, Stands DEF vars, progress, statistics
  <2>3. QED
    BY <2>1, <2>2, LearnerStep, FailuresStep, CollectivesStep DEF Next
<1>3. QED
  BY <1>1, <1>2, Matches, PTL DEF Spec

-----------------------------------------------------------------------------
\* Rank 0 makes no call before the other ranks have been spawned.
SpawnInv == sup \in {"spawn", "append"} => call[0] = NoCall

LEMMA ForgetCalls ==
  ASSUME NEW gone, Forget(gone), call[0] = NoCall
  PROVE  call'[0] = NoCall
BY Constants DEF Forget

LEMMA OthersCalls ==
  ASSUME RanksInv, NEW r \in Ranks \ {0}, Learner(r), call[0] = NoCall
  PROVE  call'[0] = NoCall
<1>1. CASE Finalize(r)
  BY <1>1, ForgetCalls DEF Finalize, Leaves
<1>2. CASE EnterInit(r) \/ EnterSchema(r) \/ EnterPacked(r) \/ EnterChanged(r) \/ Backward(r)
  BY <1>2, Constants DEF RanksInv, SyncInv, Functions, EnterInit, EnterSchema, EnterPacked, EnterChanged,
     Backward, Enter
<1>3. CASE StepOptimizer(r) \/ SoftUpdateTarget(r) \/ FinishWarmup(r) \/ Iterate(r) \/ Close(r)
  BY <1>3 DEF StepOptimizer, SoftUpdateTarget, FinishWarmup, Iterate, Close
<1>4. QED
  BY <1>1, <1>2, <1>3 DEF Learner

LEMMA CollectivesFree ==
  ASSUME Collectives
  PROVE  call'[0] = NoCall
BY Constants, LeaveFacts DEF Collectives, BroadcastFromRank0, AllreduceGradients, ReduceChanged,
   BroadcastSchema, ReducePacked

-----------------------------------------------------------------------------
DpInv == RanksInv /\ SpawnInv

\* What a step of the supervisor, of its watchdog or of the user does to the learners.
LEMMA SupervisionStep ==
  ASSUME DpInv, UNCHANGED vars,
         sup' \in {"spawn", "append"} => sup \in {"spawn", "append"}
  PROVE  DpInv'
<1>1. call' = call
  BY DEF vars
<1>2. QED
  BY <1>1, Stands DEF DpInv, SpawnInv, vars, progress, statistics

\* What the end of a rank does.
LEMMA EndStep ==
  ASSUME DpInv, NEW r \in Ranks, NEW label \in Gone, NEW status, Leaves(r, label, status),
         sup' \in {"spawn", "append"} => sup \in {"spawn", "append"}
  PROVE  DpInv'
<1>1. call[0] = NoCall => call'[0] = NoCall
  BY ForgetCalls DEF Leaves
<1>2. QED
  BY <1>1, RankLeaves DEF DpInv, SpawnInv

LEMMA SupervisesStep ==
  ASSUME DpInv, Supervises
  PROVE  DpInv'
<1>1. CASE \E r \in Spawned : Popen(r)
  <2>1. PICK r \in Ranks \ {0} : Popen(r)
    BY <1>1 DEF Spawned
  <2>2. /\ pc' = [pc EXCEPT ![r] = "start"] /\ pc[r] = "unborn" /\ sup = "spawn"
        /\ UNCHANGED <<call, iteration, cursor, schema, gathered, source, networks, mean>>
    BY <2>1 DEF Popen, Main, Goto, learners, progress, statistics
  <2>3. call[r] = NoCall
    BY <2>2 DEF DpInv, RanksInv, SyncInv, Alone, Meeting
  <2>4. QED
    BY <2>2, <2>3, RankRelabelled DEF DpInv, SpawnInv
<1>2. CASE \E r \in Spawned : AppendChild(r)
  BY <1>2, SupervisionStep DEF AppendChild, Main
<1>3. CASE LeaveBody \/ StopWatchdog \/ JoinWatchdog \/ WaitForFinish \/ WaitForGrace
            \/ TerminateGroups
  BY <1>3, SupervisionStep DEF LeaveBody, StopWatchdog, JoinWatchdog, WaitForFinish, WaitForGrace,
     TerminateGroups
<1>4. CASE KillGroups
  <2>1. Forget(LiveGroups) /\ sup' = "restore"
        /\ pc' = [r \in Ranks |-> IF r \in LiveGroups THEN "ended" ELSE pc[r]]
    BY <1>4 DEF KillGroups
  <2>2. RanksInv'
    BY <2>1, RanksDepart DEF DpInv, Gone
  <2>3. QED
    BY <2>1, <2>2 DEF DpInv, SpawnInv
<1>5. CASE RaiseIfFailed
  <2>1. /\ UNCHANGED <<pc, call, iteration, cursor, schema, gathered, source, networks, mean>> /\ sup' = "done"
    BY <1>5 DEF RaiseIfFailed, learners, progress, statistics
  <2>2. QED
    BY <2>1, Stands DEF DpInv, SpawnInv
<1>6. CASE \E s \in {"int", "term"} : HandleSignal(s)
  <2>1. PICK s : HandleSignal(s)
    BY <1>6
  <2>2. sup' \notin {"spawn", "append"}
    BY <2>1 DEF HandleSignal, Unwound, Out
  <2>3. PICK label \in Gone : Leaves(0, label, 1)
    BY <2>1 DEF HandleSignal, Gone
  <2>4. QED
    BY <2>2, <2>3, EndStep, Constants
<1>7. QED
  BY <1>1, <1>2, <1>3, <1>4, <1>5, <1>6 DEF Supervises

LEMMA PopenFailsStep ==
  ASSUME DpInv, PopenFails
  PROVE  DpInv'
<1>1. /\ pc' = [pc EXCEPT ![0] = "ended"] /\ call[0] = NoCall /\ sup' = "grace"
      /\ UNCHANGED <<call, iteration, cursor, schema, gathered, source, networks, mean>>
  BY DEF PopenFails, Main, Goto, learners, progress, statistics, DpInv, SpawnInv
<1>2. QED
  BY <1>1, RankRelabelled, Constants DEF DpInv, SpawnInv

LEMMA RankStep ==
  ASSUME Gate # "host", DpInv, NEW r \in Ranks,
         Process(r) \/ Breaks(r) \/ GivesUp(r) \/ Dies(r)
  PROVE  DpInv'
<1>1. CASE Trains(r)
  <2>1. Learner(r) /\ sup' = sup /\ (r = 0 => sup = "run")
    BY <1>1 DEF Trains
  <2>2. SpawnInv'
    BY <2>1, OthersCalls DEF DpInv, SpawnInv
  <2>3. QED
    BY <2>1, <2>2, LearnerStep DEF DpInv
<1>2. CASE HandleInt(r) \/ HandleTerm(r)
  <2>1. PICK label, status : label \in Gone /\ Leaves(r, label, status)
    BY <1>2 DEF HandleInt, HandleTerm, Gone
  <2>2. QED
    BY <1>2, <2>1, EndStep DEF HandleInt, HandleTerm
<1>3. CASE OrphanEnds(r)
  BY <1>3, SupervisionStep DEF OrphanEnds
<1>4. CASE Breaks(r) \/ GivesUp(r) \/ Dies(r)
  <2>1. PICK label, status : label \in Gone /\ Leaves(r, label, status)
    BY <1>4 DEF Breaks, Raise, GivesUp, TimesOut, Dies, Kill, Gone
  <2>2. sup' \in {sup, "dead"}
    BY <1>4 DEF Breaks, GivesUp, Dies, processes
  <2>3. QED
    BY <2>1, <2>2, EndStep
<1>5. QED
  BY <1>1, <1>2, <1>3, <1>4 DEF Process

LEMMA DpStep ==
  ASSUME Gate # "host", DpInv, [DpNext]_dpVars
  PROVE  DpInv'
<1>1. CASE Meets
  BY <1>1, CollectivesStep, CollectivesFree DEF Meets, DpInv, SpawnInv
<1>2. CASE WatchdogStops \/ \E r \in Ranks : WatchdogPoll(r)
  BY <1>2, SupervisionStep DEF WatchdogStops, WatchdogPoll
<1>3. CASE Interrupt
  BY <1>3, SupervisionStep DEF Interrupt
<1>4. CASE UNCHANGED dpVars
  BY <1>4, SupervisionStep DEF dpVars, processes
<1>5. QED
  BY <1>1, <1>2, <1>3, <1>4, SupervisesStep, PopenFailsStep, RankStep DEF DpNext, Waits

LEMMA RunInvariant ==
  ASSUME Gate # "host"
  PROVE  DpSpec => []DpInv
<1>1. DpInit => DpInv
  <2>1. SUFFICES ASSUME DpInit PROVE DpInv
    OBVIOUS
  <2>2. LearnersInit /\ DOMAIN pc = Ranks /\ \A r \in Ranks : pc[r] \in {"unborn", "start"}
    BY <2>1 DEF DpInit
  <2>3. SpawnInv
    BY <2>2, Constants DEF SpawnInv, LearnersInit
  <2>4. QED
    BY <2>2, <2>3, Starts DEF DpInv
<1>2. QED
  BY <1>1, DpStep, PTL DEF DpSpec

\* Under the supervisor, with its signals and its teardown, as well: a rank that is told to
\* stop, ended or never spawned leaves the others waiting, never in another collective
\* (_dp_sync's collectives under DpRankSupervisor).
THEOREM RunMatches ==
  ASSUME Gate # "host"
  PROVE  DpSpec => []CollectivesMatch
<1>1. DpInv => CollectivesMatch
  BY Matches DEF DpInv
<1>2. QED
  BY <1>1, RunInvariant, PTL

\* Ranks that have finished the same steps have the same networks, whatever losses or
\* gradients were not finite on which rank and whichever ranks failed, were killed or told to
\* stop meanwhile: every optimizer step and every target update reaches all replicas or none
\* (_sync_loss_gradients, _arm_optimizer_finite_gate and soft_update_target of SAC's learner).
THEOREM ReplicasStayEqual ==
  ASSUME Gate = "sac"
  PROVE  DpSpec => []ReplicasAgree
<1>1. DpInv => ReplicasAgree
  BY ReplicasMatch DEF DpInv
<1>2. DpSpec => []DpInv
  BY RunInvariant
<1>3. QED
  BY <1>1, <1>2, PTL

-----------------------------------------------------------------------------
\* The teardown: what the supervisor has done with its children, and what rank 0's exit code
\* says of theirs.
Stopped == \A r \in children : pc[r] = "ended" /\ r \notin groups
ExitInv ==
  /\ DOMAIN code = Ranks /\ children \subseteq Spawned
  /\ sup \in {"spawn", "append"} => code[0] # 0
  /\ sup = "run" \/ code[0] = 0 => children = Spawned
  /\ sup = "grace" /\ code[0] = 0 => failed # {}
  /\ sup \in {"terminate", "stopping", "restore", "done"} /\ code[0] = 0 /\ failed = {} =>
       \A r \in children : pc[r] = "ended" /\ code[r] = 0
  /\ sup \in {"restore", "done"} => Stopped
  /\ sup = "done" /\ code[0] = 0 => failed = {}

LEMMA LeavesFacts ==
  ASSUME DpInv, ExitInv, NEW r \in Ranks, NEW label, NEW status, Leaves(r, label, status)
  PROVE  /\ DOMAIN code' = Ranks /\ pc'[r] = label /\ code'[r] = status
         /\ \A s \in Ranks \ {r} : pc'[s] = pc[s] /\ code'[s] = code[s]
BY DEF Leaves, Goto, ExitInv, DpInv, RanksInv, SyncInv, Functions

\* The end of a process is final.
LEMMA LearnerLeavesEnded ==
  ASSUME DpInv, ExitInv, NEW s \in Ranks, Learner(s), NEW r \in Ranks, pc[r] = "ended"
  PROVE  pc'[r] = "ended" /\ code'[r] = code[r]
<1>0. DOMAIN pc = Ranks /\ DOMAIN code = Ranks
  BY DEF DpInv, RanksInv, SyncInv, Functions, ExitInv
<1>1. CASE Finalize(s)
  BY <1>0, <1>1, LeavesFacts DEF Finalize, At
<1>2. CASE Close(s)
  BY <1>0, <1>2 DEF Close, Goto, outcome
<1>3. CASE EnterInit(s) \/ Backward(s) \/ EnterSchema(s) \/ EnterPacked(s) \/ SoftUpdateTarget(s)
  BY <1>0, <1>3 DEF EnterInit, Backward, EnterSchema, EnterPacked, SoftUpdateTarget, outcome
<1>4. CASE StepOptimizer(s) \/ FinishWarmup(s) \/ EnterChanged(s) \/ Iterate(s)
  <2>1. pc[s] # "ended" /\ \E label : pc' = [pc EXCEPT ![s] = label]
    BY <1>4 DEF StepOptimizer, FinishWarmup, EnterChanged, Iterate, Updated, At, Goto
  <2>2. code' = code
    BY <1>4 DEF StepOptimizer, FinishWarmup, EnterChanged, Iterate, outcome
  <2>3. QED
    BY <1>0, <2>1, <2>2
<1>5. QED
  BY <1>1, <1>2, <1>3, <1>4 DEF Learner

LEMMA LearnerCodes ==
  ASSUME DpInv, ExitInv, NEW r \in Ranks, Learner(r)
  PROVE  DOMAIN code' = Ranks /\ \A s \in Ranks \ {r} : code'[s] = code[s]
<1>1. CASE Finalize(r)
  BY <1>1, LeavesFacts DEF Finalize
<1>2. CASE ~Finalize(r)
  <2>1. code' = code
    BY <1>2 DEF Learner, EnterInit, Backward, StepOptimizer, SoftUpdateTarget, FinishWarmup,
       EnterChanged, EnterSchema, EnterPacked, Iterate, Close, outcome
  <2>2. QED
    BY <2>1 DEF ExitInv
<1>3. QED
  BY <1>1, <1>2

LEMMA EndedStays ==
  ASSUME DpInv, ExitInv, DpNext, NEW r \in Ranks, pc[r] = "ended"
  PROVE  /\ pc'[r] = "ended" /\ (r # 0 => code'[r] = code[r])
         /\ r \notin groups => r \notin groups'
<1>0. /\ call[r] = NoCall /\ DOMAIN pc = Ranks /\ DOMAIN code = Ranks
  BY DEF DpInv, RanksInv, SyncInv, Alone, Meeting, Functions, ExitInv
<1>1. CASE Meets
  <2>1. \A kind : AllIn(kind) => kind = "none"
    BY <1>0 DEF AllIn, NoCall
  <2>2. QED
    BY <1>1, <2>1 DEF Meets, Collectives, BroadcastFromRank0, AllreduceGradients, ReduceChanged,
       BroadcastSchema, ReducePacked
<1>2. CASE \E s \in Spawned : Popen(s)
  BY <1>0, <1>2 DEF Popen, Goto, Spawned, outcome
<1>3. CASE KillGroups
  BY <1>0, <1>3 DEF KillGroups
<1>4. CASE RaiseIfFailed
  BY <1>0, <1>4 DEF RaiseIfFailed
<1>5. CASE \E s \in {"int", "term"} : HandleSignal(s)
  <2>1. PICK label \in Gone : /\ Leaves(0, label, 1) /\ groups' = groups
                              /\ pc[0] = "ended" => label = "ended"
    BY <1>5 DEF HandleSignal, Gone
  <2>2. QED
    BY <2>1, LeavesFacts, Constants
<1>6. CASE PopenFails
  BY <1>0, <1>6 DEF PopenFails, Goto
<1>7. CASE \E s \in Ranks : Trains(s)
  BY <1>7, LearnerLeavesEnded DEF Trains
<1>8. CASE \E s \in Ranks : HandleInt(s) \/ HandleTerm(s) \/ Breaks(s) \/ GivesUp(s) \/ Dies(s)
  <2>1. PICK s \in Ranks : HandleInt(s) \/ HandleTerm(s) \/ Breaks(s) \/ GivesUp(s) \/ Dies(s)
    BY <1>8
  <2>2. CASE HandleTerm(s)
    <3>1. PICK status : /\ Leaves(s, "ended", status)
                        /\ pc[s] = "ended" => status = code[s]
      BY <2>2 DEF HandleTerm
    <3>2. groups' = groups \ {s}
      BY <2>2 DEF HandleTerm
    <3>3. QED
      BY <3>1, <3>2, LeavesFacts
  <2>3. CASE HandleInt(s) \/ Breaks(s) \/ GivesUp(s) \/ Dies(s)
    <3>1. s # r /\ \E label, status : Leaves(s, label, status)
      BY <1>0, <2>3 DEF HandleInt, Breaks, Raise, GivesUp, TimesOut, Dies, Kill, Gone
    <3>2. groups' \in {groups, groups \ {s}}
      BY <2>3 DEF HandleInt, Breaks, GivesUp, Dies, processes
    <3>3. QED
      BY <3>1, <3>2, LeavesFacts
  <2>4. QED
    BY <2>1, <2>2, <2>3
<1>9. CASE UNCHANGED <<pc, code>> /\ groups' \subseteq groups
  BY <1>0, <1>9
<1>10. QED
  <2>1. \A s \in Spawned : AppendChild(s) => UNCHANGED <<pc, code>> /\ groups' = groups
    BY DEF AppendChild, vars, outcome
  <2>2. LeaveBody \/ StopWatchdog \/ JoinWatchdog \/ WaitForFinish \/ WaitForGrace \/ TerminateGroups
          => UNCHANGED <<pc, code>> /\ groups' = groups
    BY DEF LeaveBody, StopWatchdog, JoinWatchdog, WaitForFinish, WaitForGrace, TerminateGroups,
       vars, outcome
  <2>3. \A s \in Ranks : WatchdogPoll(s) \/ WatchdogStops \/ Interrupt \/ OrphanEnds(s) \/ Waits
          => UNCHANGED <<pc, code>> /\ groups' \subseteq groups
    BY DEF WatchdogPoll, WatchdogStops, Interrupt, OrphanEnds, Waits, dpVars, processes, vars,
       outcome
  <2>4. QED
    BY <1>1, <1>2, <1>3, <1>4, <1>5, <1>6, <1>7, <1>8, <1>9, <2>1, <2>2, <2>3, Constants
       DEF DpNext, Supervises, Process

LEMMA StoppedStays ==
  ASSUME DpInv, ExitInv, DpNext, Stopped, children' = children
  PROVE  Stopped'
BY EndedStays DEF Stopped, ExitInv, Spawned

\* A step in which the supervisor stays where it is.
LEMMA ExitElsewhere ==
  ASSUME DpInv, ExitInv, DpNext, DOMAIN code' = Ranks,
         sup' \in {sup, "dead"}, code'[0] = 0 => code[0] = 0,
         UNCHANGED <<children, failed>>
  PROVE  ExitInv'
<1>1. \A r \in children : pc[r] = "ended" /\ code[r] = 0 => pc'[r] = "ended" /\ code'[r] = 0
  BY EndedStays DEF ExitInv, Spawned
<1>2. Stopped => Stopped'
  BY StoppedStays
<1>3. QED
  BY <1>1, <1>2 DEF ExitInv

LEMMA SupervisesExit ==
  ASSUME DpInv, ExitInv, DpNext, Supervises
  PROVE  ExitInv'
<1>0. DOMAIN pc = Ranks /\ DOMAIN code = Ranks /\ 0 \in Ranks
  BY Constants DEF DpInv, RanksInv, SyncInv, Functions, ExitInv
<1>1. CASE \E r \in Spawned : Popen(r)
  BY <1>1 DEF Popen, Main, outcome, ExitInv
<1>2. CASE \E r \in Spawned : AppendChild(r)
  BY <1>2 DEF AppendChild, Main, vars, outcome, ExitInv
<1>3. CASE LeaveBody \/ StopWatchdog
  BY <1>3 DEF LeaveBody, StopWatchdog, Main, vars, outcome, ExitInv
<1>4. CASE JoinWatchdog
  BY <1>4 DEF JoinWatchdog, Main, vars, outcome, ExitInv
<1>5. CASE WaitForFinish
  <2>1. /\ sup = "finish" /\ sup' = "terminate" /\ failed' = FailedAfterWait
        /\ UNCHANGED <<pc, code, children>>
    BY <1>5 DEF WaitForFinish, Main, vars, outcome
  <2>2. failed' = {} => \A r \in children : pc[r] = "ended" /\ code[r] = 0
    BY <2>1 DEF FailedAfterWait, EndedChildren, Failing
  <2>3. QED
    BY <2>1, <2>2 DEF ExitInv
<1>6. CASE WaitForGrace
  BY <1>6 DEF WaitForGrace, Main, vars, outcome, ExitInv
<1>7. CASE TerminateGroups
  BY <1>7 DEF TerminateGroups, Main, vars, outcome, ExitInv
<1>8. CASE KillGroups
  <2>1. /\ sup = "stopping" /\ sup' = "restore" /\ UNCHANGED <<children, failed>>
        /\ pc' = [r \in Ranks |-> IF r \in LiveGroups THEN "ended" ELSE pc[r]]
        /\ code' = [r \in Ranks |-> IF r \in LiveGroups /\ pc[r] # "ended" THEN -9 ELSE code[r]]
        /\ groups' = groups \ LiveGroups
    BY <1>8 DEF KillGroups, Main
  <2>2. children \subseteq Ranks /\ 0 \notin children
    BY DEF ExitInv, Spawned
  <2>3. Stopped'
    BY <2>1, <2>2 DEF Stopped, LiveGroups, GroupExists
  <2>4. DOMAIN code' = Ranks /\ code'[0] = code[0]
    BY <1>0, <2>1, <2>2 DEF LiveGroups
  <2>5. \A r \in children : pc[r] = "ended" /\ code[r] = 0 => pc'[r] = "ended" /\ code'[r] = 0
    BY <2>1, <2>2
  <2>6. QED
    BY <2>1, <2>3, <2>4, <2>5 DEF ExitInv
<1>9. CASE RaiseIfFailed
  <2>1. /\ sup = "restore" /\ sup' = "done" /\ UNCHANGED <<pc, children, failed, groups>>
        /\ code' = [code EXCEPT ![0] = IF failed = {} THEN @ ELSE 1]
    BY <1>9 DEF RaiseIfFailed, Main
  <2>2. DOMAIN code' = Ranks /\ code'[0] = IF failed = {} THEN code[0] ELSE 1
    BY <1>0, <2>1
  <2>3. \A r \in children : code'[r] = code[r]
    BY <1>0, <2>1 DEF ExitInv, Spawned
  <2>4. Stopped'
    BY <2>1 DEF ExitInv, Stopped
  <2>5. QED
    BY <2>1, <2>2, <2>3, <2>4 DEF ExitInv
<1>10. CASE \E s \in {"int", "term"} : HandleSignal(s)
  <2>1. PICK label : Leaves(0, label, 1)
    BY <1>10 DEF HandleSignal
  <2>2. DOMAIN code' = Ranks /\ code'[0] = 1
    BY <1>0, <2>1, LeavesFacts
  <2>3. /\ sup' \in {"grace", "run", "terminate", "dead"} /\ UNCHANGED <<children, failed>>
        /\ sup' = "run" => sup = "run"
    BY <1>10 DEF HandleSignal, Unwound, Out
  <2>4. QED
    BY <2>2, <2>3 DEF ExitInv
<1>11. QED
  BY <1>1, <1>2, <1>3, <1>4, <1>5, <1>6, <1>7, <1>8, <1>9, <1>10 DEF Supervises

LEMMA ExitStep ==
  ASSUME DpInv, ExitInv, [DpNext]_dpVars
  PROVE  ExitInv'
<1>0. DOMAIN pc = Ranks /\ DOMAIN code = Ranks /\ 0 \in Ranks
  BY Constants DEF DpInv, RanksInv, SyncInv, Functions, ExitInv
<1>1. CASE DpNext /\ Supervises
  BY <1>1, SupervisesExit
<1>2. CASE PopenFails
  BY <1>0, <1>2 DEF PopenFails, Main, ExitInv
<1>3. CASE DpNext /\ \E r \in Ranks : Trains(r)
  <2>1. PICK r \in Ranks : Trains(r)
    BY <1>3
  <2>2. /\ DOMAIN code' = Ranks /\ UNCHANGED <<sup, children, failed>>
        /\ code'[0] = code[0] \/ (r = 0 /\ sup = "run")
    BY <1>0, <2>1, LearnerCodes DEF Trains
  <2>3. CASE code'[0] = code[0]
    BY <1>3, <2>2, <2>3, ExitElsewhere
  <2>4. CASE sup = "run"
    BY <2>2, <2>4 DEF ExitInv
  <2>5. QED
    BY <2>2, <2>3, <2>4
<1>4. CASE DpNext /\ \E r \in Ranks : HandleInt(r) \/ HandleTerm(r) \/ Breaks(r) \/ GivesUp(r) \/ Dies(r)
  <2>1. PICK r \in Ranks : HandleInt(r) \/ HandleTerm(r) \/ Breaks(r) \/ GivesUp(r) \/ Dies(r)
    BY <1>4
  <2>2. PICK label, status : Leaves(r, label, status) /\ (r = 0 => status # 0)
    BY <2>1 DEF HandleInt, HandleTerm, Breaks, Raise, GivesUp, TimesOut, Dies, Kill
  <2>3. DOMAIN code' = Ranks /\ (code'[0] = 0 => code[0] = 0)
    BY <1>0, <2>2, LeavesFacts
  <2>4. sup' \in {sup, "dead"} /\ UNCHANGED <<children, failed>>
    BY <2>1 DEF HandleInt, HandleTerm, Breaks, GivesUp, Dies, processes
  <2>5. QED
    BY <1>4, <2>3, <2>4, ExitElsewhere
<1>5. CASE DpNext /\ (Meets \/ \E r \in Ranks : WatchdogPoll(r) \/ WatchdogStops \/ Interrupt
                                                  \/ OrphanEnds(r) \/ Waits)
  <2>1. UNCHANGED <<code, sup, children, failed>>
    <3>1. CASE Meets
      BY <3>1 DEF Meets, Collectives, BroadcastFromRank0, AllreduceGradients, ReduceChanged,
         BroadcastSchema, ReducePacked, outcome, processes
    <3>2. CASE ~Meets
      BY <1>5, <3>2 DEF WatchdogPoll, WatchdogStops, Interrupt, OrphanEnds, Waits, dpVars,
         processes, vars, outcome
    <3>3. QED
      BY <3>1, <3>2
  <2>2. QED
    BY <1>0, <1>5, <2>1, ExitElsewhere
<1>6. CASE UNCHANGED dpVars
  BY <1>6 DEF dpVars, processes, vars, outcome, ExitInv, Stopped
<1>7. QED
  BY <1>0, <1>1, <1>2, <1>3, <1>4, <1>5, <1>6 DEF DpNext, Process

LEMMA ExitInvariant ==
  ASSUME Gate # "host"
  PROVE  DpSpec => [](DpInv /\ ExitInv)
<1>1. DpInit => ExitInv
  BY Constants DEF DpInit, LearnersInit, ExitInv, Stopped
<1>2. ExitInv /\ DpInv /\ [DpNext]_dpVars => ExitInv'
  BY ExitStep
<1>3. QED
  BY <1>1, <1>2, RunInvariant, PTL DEF DpSpec

\* A supervisor that has gone through its teardown leaves neither a rank nor a rank's collector
\* behind, whatever signals and failures came in between (__exit__, _terminate_children).
THEOREM NothingIsLeft ==
  ASSUME Gate # "host"
  PROVE  DpSpec => []NothingSurvives
<1>1. ExitInv => NothingSurvives
  BY DEF ExitInv, Stopped, NothingSurvives, GroupExists
<1>2. QED
  BY <1>1, ExitInvariant, PTL

\* Rank 0's exit code is 0 only if every rank's is, however many ranks there are and whenever
\* the failing one failed (__exit__, _watchdog_loop).
THEOREM FailureIsReported ==
  ASSUME Gate # "host"
  PROVE  DpSpec => []FailureReported
<1>1. ExitInv => FailureReported
  BY DEF ExitInv, FailureReported, Spawned
<1>2. QED
  BY <1>1, ExitInvariant, PTL

-----------------------------------------------------------------------------
\* What a rank's logger shows while the rank is on its way to the exchange of the statistics,
\* in it, and behind it: between the snapshot and the reduction it is the rank's own counter
\* and its own last report; the aggregate stays until what was saved is restored.
Own(r) == [steps |-> iteration[r], episode |-> latest[r]]
Recent(r) == saved[r] = NotSaved /\ shown[r].episode = latest[r]
LoggerShows(r) ==
  /\ shown[r] = [steps |-> shown[r].steps, episode |-> shown[r].episode]
  /\ pc[r] \in {"unborn", "start", "update", "step"} => Recent(r)
  /\ pc[r] \in {"report", "schema", "pack"} => saved[r] = Own(r) /\ shown[r] = Own(r)
  /\ pc[r] = "top" => saved[r] = Own(r) \/ Recent(r)
LoggersInv ==
  /\ DOMAIN shown = Ranks /\ DOMAIN saved = Ranks /\ DOMAIN latest = Ranks
  /\ iteration \in [Ranks -> Nat]
  /\ \A r \in Ranks : LoggerShows(r)

LEMMA PackedAtPack ==
  ASSUME SyncInv, AllIn("packed"), NEW r \in Ranks
  PROVE  pc[r] = "pack"
<1>1. Meeting(r) /\ call[r].kind = "packed" /\ call[r] # NoCall
  BY AllAtOnePlace
<1>2. QED
  BY <1>1 DEF Meeting, Call

LEMMA LoggersStart ==
  ASSUME LearnersInit, \A r \in Ranks : pc[r] \in {"unborn", "start"}
  PROVE  LoggersInv
BY DEF LearnersInit, LoggersInv, LoggerShows, Recent, NoStatistics

LEMMA LoggersStay ==
  ASSUME LoggersInv, UNCHANGED <<shown, saved, latest, iteration>>,
         \A r \in Ranks : \/ pc'[r] = pc[r] \/ pc'[r] \in Gone
                          \/ {pc[r], pc'[r]} \subseteq {"unborn", "start", "update", "step"}
                          \/ {pc[r], pc'[r]} \subseteq {"report", "schema", "pack"}
                          \/ pc[r] = "update" /\ pc'[r] = "top"
  PROVE  LoggersInv'
BY DEF LoggersInv, LoggerShows, Own, Recent, Gone

LEMMA LoggersDepart ==
  ASSUME LoggersInv, NEW gone, Forget(gone),
         \A r \in Ranks : IF r \in gone THEN pc'[r] \in Gone ELSE pc'[r] = pc[r]
  PROVE  LoggersInv'
BY DEF LoggersInv, LoggerShows, Own, Recent, Gone, Forget, NoStatistics

LEMMA LoggerLeaves ==
  ASSUME SyncInv, LoggersInv, NEW r \in Ranks, NEW label \in Gone, NEW status,
         Leaves(r, label, status)
  PROVE  LoggersInv'
<1>1. Forget({r}) /\ \A s \in Ranks : IF s \in {r} THEN pc'[s] \in Gone ELSE pc'[s] = pc[s]
  BY DEF Leaves, Goto, SyncInv, Functions
<1>2. QED
  BY <1>1, LoggersDepart

LEMMA EnterChangedLoggers ==
  ASSUME SyncInv, LoggersInv, NEW r \in Ranks, EnterChanged(r)
  PROVE  LoggersInv'
<1>1. /\ pc' = [pc EXCEPT ![r] = "report"] /\ pc[r] = "update"
      /\ shown' = [shown EXCEPT ![r] = [shown[r] EXCEPT !.steps = iteration[r]]]
      /\ saved' = [saved EXCEPT ![r] = [shown[r] EXCEPT !.steps = iteration[r]]]
      /\ iteration' = iteration /\ latest' = latest
  BY DEF EnterChanged, Updated, At, Goto, Snapshot, progress
<1>2. [shown[r] EXCEPT !.steps = iteration[r]] = Own(r)
  BY <1>1 DEF LoggersInv, LoggerShows, Recent, Own
<1>3. /\ pc'[r] = "report" /\ shown'[r] = Own(r) /\ saved'[r] = Own(r) /\ Own(r)' = Own(r)
      /\ \A s \in Ranks \ {r} : pc'[s] = pc[s] /\ shown'[s] = shown[s] /\ saved'[s] = saved[s]
  BY <1>1, <1>2 DEF SyncInv, Functions, LoggersInv, Own
<1>4. LoggerShows(r)'
  BY <1>3 DEF LoggerShows, Own
<1>5. \A s \in Ranks \ {r} : LoggerShows(s)'
  BY <1>1, <1>3 DEF LoggersInv, LoggerShows, Recent, Own
<1>6. QED
  BY <1>1, <1>4, <1>5 DEF LoggersInv

LEMMA IterateLoggers ==
  ASSUME SyncInv, LoggersInv, NEW r \in Ranks, Iterate(r)
  PROVE  LoggersInv'
<1>1. /\ pc' = [pc EXCEPT ![r] = "update"] /\ pc[r] = "top"
      /\ iteration' = [iteration EXCEPT ![r] = @ + 1]
      /\ saved' = [saved EXCEPT ![r] = NotSaved]
      /\ Drain(r, RestoreLocal(r))
  BY DEF Iterate, At, Goto
<1>2. RestoreLocal(r) = [steps |-> RestoreLocal(r).steps, episode |-> latest[r]]
  <2>1. iteration[r] # -1
    BY DEF SyncInv, Alone, Place
  <2>2. Own(r).steps # NotSaved.steps
    BY <2>1 DEF Own, NotSaved
  <2>3. QED
    BY <1>1, <2>2 DEF LoggersInv, LoggerShows, Recent, Own, RestoreLocal
<1>3. PICK shows : shown' = [shown EXCEPT ![r] = shows]
                   /\ shows = [steps |-> RestoreLocal(r).steps, episode |-> latest'[r]]
                   /\ DOMAIN latest' = Ranks
                   /\ \A s \in Ranks \ {r} : latest'[s] = latest[s]
  <2>1. CASE shown' = [shown EXCEPT ![r] = RestoreLocal(r)] /\ UNCHANGED latest
    BY <1>2, <2>1 DEF LoggersInv
  <2>2. CASE /\ shown' = [shown EXCEPT ![r] = [RestoreLocal(r) EXCEPT !.episode = Report(r)]]
             /\ latest' = [latest EXCEPT ![r] = Report(r)]
    <3>1. [RestoreLocal(r) EXCEPT !.episode = Report(r)]
            = [steps |-> RestoreLocal(r).steps, episode |-> Report(r)]
      BY <1>2
    <3>2. QED
      BY <2>2, <3>1 DEF LoggersInv
  <2>3. QED
    BY <1>1, <2>1, <2>2 DEF Drain
<1>4. /\ pc'[r] = "update" /\ shown'[r] = shows /\ saved'[r] = NotSaved
      /\ \A s \in Ranks \ {r} : /\ pc'[s] = pc[s] /\ iteration'[s] = iteration[s]
                                /\ shown'[s] = shown[s] /\ saved'[s] = saved[s]
  BY <1>1, <1>3 DEF SyncInv, Functions, LoggersInv
<1>5. LoggerShows(r)'
  BY <1>3, <1>4 DEF LoggerShows, Recent
<1>6. \A s \in Ranks \ {r} : LoggerShows(s)'
  BY <1>3, <1>4 DEF LoggersInv, LoggerShows, Recent, Own
<1>7. QED
  BY <1>1, <1>3, <1>5, <1>6 DEF LoggersInv

LEMMA LearnerLoggers ==
  ASSUME SyncInv, LoggersInv, NEW r \in Ranks, Learner(r)
  PROVE  LoggersInv'
<1>0. DOMAIN pc = Ranks
  BY DEF SyncInv, Functions
<1>1. CASE Finalize(r)
  BY <1>1, LoggerLeaves DEF Finalize, Gone
<1>2. CASE Close(r)
  BY <1>0, <1>2, LoggersStay DEF Close, Goto, progress, statistics, Gone
<1>3. CASE EnterInit(r) \/ Backward(r) \/ EnterSchema(r) \/ EnterPacked(r) \/ SoftUpdateTarget(r)
  <2>1. UNCHANGED <<pc, shown, saved, latest, iteration>>
    BY <1>3 DEF EnterInit, Backward, EnterSchema, EnterPacked, SoftUpdateTarget, progress,
       statistics
  <2>2. QED
    BY <2>1, LoggersStay
<1>4. CASE StepOptimizer(r) \/ FinishWarmup(r)
  <2>1. /\ UNCHANGED <<shown, saved, latest, iteration>>
        /\ \/ pc[r] = "step" /\ pc' = [pc EXCEPT ![r] = "update"]
           \/ pc[r] = "update" /\ pc' = [pc EXCEPT ![r] = "top"]
    BY <1>4 DEF StepOptimizer, FinishWarmup, Updated, At, Goto, progress, statistics
  <2>2. QED
    BY <1>0, <2>1, LoggersStay
<1>5. QED
  BY <1>1, <1>2, <1>3, <1>4, EnterChangedLoggers, IterateLoggers DEF Learner

LEMMA CollectiveLoggers ==
  ASSUME SyncInv, LoggersInv, Collectives
  PROVE  LoggersInv'
<1>1. CASE BroadcastFromRank0 \/ AllreduceGradients \/ ReduceChanged \/ BroadcastSchema
  <2>1. /\ UNCHANGED <<shown, saved, latest, iteration>>
        /\ \/ AllIn("init") /\ Leave("update")
           \/ AllIn("gradients") /\ Leave("step")
           \/ AllIn("changed") /\ (Leave("schema") \/ Leave("pack"))
           \/ AllIn("schema") /\ (Leave("schema") \/ Leave("pack"))
    BY <1>1 DEF BroadcastFromRank0, AllreduceGradients, ReduceChanged, BroadcastSchema, progress,
       statistics
  <2>2. \A r \in Ranks :
          \/ pc[r] = "start" /\ pc'[r] = "update"
          \/ pc[r] = "update" /\ pc'[r] = "step"
          \/ pc[r] \in {"report", "schema"} /\ pc'[r] \in {"schema", "pack"}
    <3>1. SUFFICES ASSUME NEW r \in Ranks
                   PROVE  \/ pc[r] = "start" /\ pc'[r] = "update"
                          \/ pc[r] = "update" /\ pc'[r] = "step"
                          \/ pc[r] \in {"report", "schema"} /\ pc'[r] \in {"schema", "pack"}
      OBVIOUS
    <3>2. \A kind \in {"init", "gradients", "changed", "schema"} :
            AllIn(kind) => Meeting(r) /\ call[r] # NoCall /\ call[r].kind = kind
      BY AllAtOnePlace
    <3>3. QED
      BY <2>1, <3>2, LeaveFacts, PlaceOfCall
  <2>3. QED
    BY <2>1, <2>2, LoggersStay
<1>2. CASE ReducePacked
  <2>1. /\ AllIn("packed") /\ shown' = [r \in Ranks |-> Aggregate]
        /\ UNCHANGED <<saved, latest, iteration>> /\ \A r \in Ranks : pc'[r] = "top"
    BY <1>2, LeaveFacts DEF ReducePacked, progress
  <2>2. \A r \in Ranks : saved[r] = Own(r)
    BY <2>1, PackedAtPack DEF LoggersInv, LoggerShows
  <2>3. Aggregate = [steps |-> Aggregate.steps, episode |-> Aggregate.episode]
    BY DEF Aggregate
  <2>4. \A r \in Ranks : LoggerShows(r)'
    BY <2>1, <2>2, <2>3 DEF LoggerShows, Own
  <2>5. QED
    BY <2>1, <2>4 DEF LoggersInv
<1>3. QED
  BY <1>1, <1>2 DEF Collectives

LEMMA LoggersStep ==
  ASSUME DpInv, LoggersInv, [DpNext]_dpVars
  PROVE  LoggersInv'
<1>0. SyncInv /\ DOMAIN pc = Ranks /\ 0 \in Ranks
  BY Constants DEF DpInv, RanksInv, SyncInv, Functions
<1>1. CASE Meets
  BY <1>0, <1>1, CollectiveLoggers DEF Meets
<1>2. CASE \E r \in Ranks : Trains(r)
  BY <1>0, <1>2, LearnerLoggers DEF Trains
<1>3. CASE \E s \in {"int", "term"} : HandleSignal(s)
  <2>1. PICK label \in Gone : Leaves(0, label, 1)
    BY <1>3 DEF HandleSignal, Gone
  <2>2. QED
    BY <1>0, <2>1, LoggerLeaves
<1>4. CASE \E r \in Ranks : HandleInt(r) \/ HandleTerm(r) \/ Breaks(r) \/ GivesUp(r) \/ Dies(r)
  <2>1. PICK r \in Ranks, label \in Gone : \E status : Leaves(r, label, status)
    BY <1>4 DEF HandleInt, HandleTerm, Breaks, Raise, GivesUp, TimesOut, Dies, Kill, Gone
  <2>2. QED
    BY <1>0, <2>1, LoggerLeaves
<1>5. CASE KillGroups
  <2>1. /\ Forget(LiveGroups)
        /\ \A r \in Ranks : IF r \in LiveGroups THEN pc'[r] \in Gone ELSE pc'[r] = pc[r]
    BY <1>5 DEF KillGroups, Gone
  <2>2. QED
    BY <2>1, LoggersDepart
<1>6. CASE (\E r \in Spawned : Popen(r)) \/ PopenFails \/ RaiseIfFailed
  <2>1. /\ UNCHANGED <<shown, saved, latest, iteration>>
        /\ \/ \E r \in Spawned : pc[r] = "unborn" /\ pc' = [pc EXCEPT ![r] = "start"]
           \/ pc' = [pc EXCEPT ![0] = "ended"]
           \/ pc' = pc
    BY <1>6 DEF Popen, PopenFails, RaiseIfFailed, Goto, learners, progress, statistics
  <2>2. QED
    BY <1>0, <2>1, LoggersStay DEF Spawned, Gone
<1>7. CASE UNCHANGED vars
  BY <1>7, LoggersStay DEF vars, progress, statistics
<1>8. QED
  <2>1. \/ Supervises \/ PopenFails \/ Meets \/ UNCHANGED vars
        \/ \E r \in Ranks : Process(r) \/ Breaks(r) \/ GivesUp(r) \/ Dies(r)
    BY DEF DpNext, WatchdogStops, WatchdogPoll, Interrupt, Waits, dpVars
  <2>2. CASE Supervises
    BY <1>3, <1>5, <1>6, <1>7, <2>2 DEF Supervises, AppendChild, LeaveBody, StopWatchdog,
       JoinWatchdog, WaitForFinish, WaitForGrace, TerminateGroups
  <2>3. CASE \E r \in Ranks : Process(r)
    BY <1>2, <1>4, <1>7, <2>3 DEF Process, OrphanEnds
  <2>4. QED
    BY <1>1, <1>4, <1>6, <1>7, <2>1, <2>2, <2>3

\* A call for the statistics ends with the reduction, if its rank goes on.
LEMMA PackedCallEnds ==
  ASSUME DpInv, [DpNext]_dpVars, NEW r \in Ranks, call[r].kind = "packed",
         call'[r] = NoCall, pc'[r] = "top"
  PROVE  ReducePacked
<1>0. /\ SyncInv /\ DOMAIN call = Ranks /\ DOMAIN pc = Ranks /\ 0 \in Ranks
      /\ call[r] # NoCall /\ Meeting(r)
  BY Constants DEF DpInv, RanksInv, SyncInv, Functions, Alone, NoCall
<1>1. ASSUME NEW gone, Forget(gone), r \notin gone PROVE FALSE
  BY <1>0, <1>1 DEF Forget
<1>2. ASSUME NEW s \in Ranks, NEW label \in Gone, NEW status, Leaves(s, label, status) PROVE FALSE
  <2>1. Forget({s}) /\ pc' = [pc EXCEPT ![s] = label]
    BY <1>2 DEF Leaves, Goto
  <2>2. s = r
    BY <1>1, <2>1
  <2>3. QED
    BY <1>0, <2>1, <2>2 DEF Gone
<1>3. ASSUME UNCHANGED call PROVE FALSE
  BY <1>0, <1>3
<1>4. ASSUME NEW s \in Ranks, Learner(s) PROVE FALSE
  <2>1. CASE Finalize(s)
    BY <1>2, <2>1 DEF Finalize, Gone
  <2>2. CASE EnterInit(s) \/ Backward(s) \/ EnterSchema(s) \/ EnterPacked(s) \/ EnterChanged(s)
    <3>1. call[s] = NoCall /\ (UNCHANGED call \/ \E c : call' = [call EXCEPT ![s] = c])
      BY <2>2 DEF EnterInit, Backward, EnterSchema, EnterPacked, EnterChanged, Updating, Updated,
         At, Enter
    <3>2. QED
      BY <1>0, <3>1
  <2>3. CASE StepOptimizer(s) \/ SoftUpdateTarget(s) \/ FinishWarmup(s) \/ Iterate(s) \/ Close(s)
    BY <1>3, <2>3 DEF StepOptimizer, SoftUpdateTarget, FinishWarmup, Iterate, Close
  <2>4. QED
    BY <1>4, <2>1, <2>2, <2>3 DEF Learner
<1>5. CASE Collectives
  BY <1>0, <1>5 DEF Collectives, BroadcastFromRank0, AllreduceGradients, ReduceChanged,
     BroadcastSchema, AllIn
<1>6. CASE Supervises \/ PopenFails
  <2>1. CASE \E s \in {"int", "term"} : HandleSignal(s)
    <3>1. PICK label \in Gone : Leaves(0, label, 1)
      BY <2>1 DEF HandleSignal, Gone
    <3>2. QED
      BY <1>0, <1>2, <3>1
  <2>2. CASE KillGroups
    <3>1. Forget(LiveGroups) /\ (r \in LiveGroups => pc'[r] = "ended")
      BY <2>2 DEF KillGroups
    <3>2. QED
      BY <1>1, <3>1
  <2>3. QED
    BY <1>3, <1>6, <2>1, <2>2 DEF Supervises, PopenFails, Popen, AppendChild, LeaveBody,
       StopWatchdog, JoinWatchdog, WaitForFinish, WaitForGrace, TerminateGroups, RaiseIfFailed,
       learners, vars
<1>7. CASE \E s \in Ranks : Process(s) \/ Breaks(s) \/ GivesUp(s) \/ Dies(s)
  <2>1. PICK s \in Ranks : Process(s) \/ Breaks(s) \/ GivesUp(s) \/ Dies(s)
    BY <1>7
  <2>2. CASE Trains(s)
    BY <1>4, <2>2 DEF Trains
  <2>3. CASE HandleInt(s) \/ HandleTerm(s) \/ Breaks(s) \/ GivesUp(s) \/ Dies(s)
    <3>1. PICK label \in Gone : \E status : Leaves(s, label, status)
      BY <2>3 DEF HandleInt, HandleTerm, Breaks, Raise, GivesUp, TimesOut, Dies, Kill, Gone
    <3>2. QED
      BY <1>2, <3>1
  <2>4. CASE OrphanEnds(s)
    BY <1>3, <2>4 DEF OrphanEnds, vars
  <2>5. QED
    BY <2>1, <2>2, <2>3, <2>4 DEF Process
<1>8. QED
  BY <1>3, <1>5, <1>6, <1>7 DEF DpNext, Meets, WatchdogStops, WatchdogPoll, Interrupt, Waits,
     dpVars, vars

\* What every rank's logger shows after the exchange is the sum over all ranks of their own
\* counters and the mean of their own last reports: never a sum of earlier sums, whichever rank
\* reports when (_aggregate_log_statistics, _restore_local_logger_statistics).
THEOREM LoggersShowTheRun ==
  ASSUME Gate # "host"
  PROVE  DpSpec => StatisticsAreGlobal
<1>1. DpInit => LoggersInv
  BY LoggersStart DEF DpInit
<1>2. DpInv /\ LoggersInv /\ [DpNext]_dpVars => LoggersInv'
  BY LoggersStep
<1>3. ASSUME DpInv, LoggersInv, [DpNext]_dpVars, NEW r \in Ranks,
             call[r].kind = "packed", call'[r] = NoCall, pc'[r] = "top"
      PROVE  /\ shown'[r].steps = SumOver(iteration)
             /\ shown'[r].episode.sum = SumOver([s \in Ranks |-> latest[s].sum])
             /\ shown'[r].episode.count = Cardinality({s \in Ranks : latest[s].count > 0})
  <2>1. AllIn("packed") /\ shown' = [s \in Ranks |-> Aggregate]
    BY <1>3, PackedCallEnds DEF ReducePacked
  <2>2. ASSUME NEW s \in Ranks PROVE shown[s].steps = iteration[s] /\ shown[s].episode = latest[s]
    <3>1. pc[s] = "pack"
      BY <1>3, <2>1, PackedAtPack DEF DpInv, RanksInv
    <3>2. QED
      BY <1>3, <3>1 DEF LoggersInv, LoggerShows, Own
  <2>3. [s \in Ranks |-> shown[s].steps] = iteration
    BY <1>3, <2>2 DEF LoggersInv
  <2>4. [s \in Ranks |-> shown[s].episode.sum] = [s \in Ranks |-> latest[s].sum]
    BY <2>2
  <2>5. {s \in Ranks : shown[s].episode.count > 0} = {s \in Ranks : latest[s].count > 0}
    BY <2>2
  <2>6. QED
    BY <2>1, <2>3, <2>4, <2>5 DEF Aggregate
<1>4. DpInv /\ LoggersInv /\ [DpNext]_dpVars =>
        [\A r \in Ranks :
           call[r].kind = "packed" /\ call'[r] = NoCall /\ pc'[r] = "top" =>
             /\ shown'[r].steps = SumOver(iteration)
             /\ shown'[r].episode.sum = SumOver([s \in Ranks |-> latest[s].sum])
             /\ shown'[r].episode.count = Cardinality({s \in Ranks : latest[s].count > 0})]_vars
  BY <1>3
<1>5. QED
  BY <1>1, <1>2, <1>4, RunInvariant, PTL DEF DpSpec, StatisticsAreGlobal

\* Every rank's place, iteration and position stay within their ranges (the loop's counters).
THEOREM TypeCorrect ==
  ASSUME Gate # "host"
  PROVE  DpSpec => []TypeOK
<1>1. DpInv => TypeOK
  BY DEF DpInv, RanksInv, SyncInv, Alone, Place, TypeOK
<1>2. QED
  BY <1>1, RunInvariant, PTL
=============================================================================
