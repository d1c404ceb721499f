------------------------ MODULE WorkerDispatch_proofs ------------------------
(* Theorems about the dispatchers, the Worker and the staging objects, for   *)
(* every value of the constants.  Those about the Worker and the objects are *)
(* about a system with one dispatcher.                                       *)
EXTENDS WorkerDispatch, TransformJobs_proofs

------------------------------------------------------------------------------
(* Leases in the table.                                                     *)

LeaseOf(j) == [job |-> j, attempt |-> jobs[j].attempt, token |-> jobs[j].token]

\* A fence is a lease some claim granted, and a granted token is never null.
FencesAreGranted ==
    /\ \A j \in Jobs : Fenced(j) => LeaseOf(j) \in granted
    /\ \A l \in granted : l.token # 0

\* A step that gives row j neither a new attempt nor a new token.
SameFence(j) ==
    Fenced(j)' => Fenced(j) /\ jobs'[j].attempt = jobs[j].attempt
                            /\ jobs'[j].token = jobs[j].token

\* No step but a claim changes the lease of a fenced row.
LEMMA FenceMoves ==
    ASSUME TypeOK, [Next]_vars
    PROVE  \/ \A j \in Jobs : SameFence(j)
           \/ \E j \in Jobs : ClaimNext(j)
<1>0. ASSUME NEW j \in Jobs, Exists(j)
      PROVE  jobs[j] \in Rows
  BY <1>0 DEF TypeOK, Exists
<1>1. ASSUME jobs' = jobs
      PROVE  \A j \in Jobs : SameFence(j)
  BY <1>1 DEF SameFence, Fenced, Exists
<1>2. ASSUME NEW j \in Jobs, NEW r, Write(j, r),
             \/ r.token = 0
             \/ (Exists(j) /\ r.token = jobs[j].token /\ r.attempt = jobs[j].attempt)
      PROVE  \A i \in Jobs : SameFence(i)
  <2>1. jobs'[j] = r /\ \A i \in Jobs \ {j} : jobs'[i] = jobs[i]
    BY <1>2 DEF Write, TypeOK
  <2> QED
    BY <1>2, <2>1 DEF SameFence, Fenced, Exists
<1>w. ASSUME NEW j \in Jobs, NEW r, Write(j, r), r.token = 0
      PROVE  \A i \in Jobs : SameFence(i)
  BY <1>2, <1>w
<1>3. ASSUME NEW c \in Clients, CreateStep(c)
      PROVE  \A j \in Jobs : SameFence(j)
  <2> DEFINE t == create[c]
             q == jobs[t.job]
  <2>1. CASE CreateInsert(c)
    <3>1. \A run, ref : NewRow(run, ref).token = 0
      BY DEF NewRow
    <3>2. \E run, ref : Write(t.job, NewRow(run, ref))
      BY <2>1 DEF CreateInsert
    <3>3. PICK run, ref : Write(t.job, NewRow(run, ref))
      BY <3>2
    <3>4. t.job \in Jobs
      BY <2>1 DEF CreateInsert, TypeOK
    <3> DEFINE r == NewRow(run, ref)
    <3>5. r.token = 0 /\ Write(t.job, r)
      BY <3>1, <3>3
    <3> HIDE DEF r
    <3> QED
      BY <1>w, <3>4, <3>5
  <2>2. CASE CreateCommit(c)
    <3> DEFINE r == CurrentRow(t)
               h == HitRow(t)
    <3>1. t.job \in Jobs /\ Exists(t.job) /\ t.pc = "row"
      BY <2>2 DEF CreateCommit, TypeOK
    <3>2. q \in Rows
      BY <3>1, <1>0
    <3>3. r \in Rows
      BY <3>1, WorkingRowType
    <3>4. r.token = q.token /\ r.attempt = q.attempt
      <4>1. CASE Attaches(t)
        <5>1. PICK ref : r = [q EXCEPT !.resultRef = ref]
          BY <4>1 DEF CurrentRow, WorkingRow
        <5> HIDE DEF r
        <5> QED BY <3>2, <5>1 DEF Rows
      <4>2. CASE ~Attaches(t)
        BY <4>2 DEF CurrentRow
      <4> QED BY <4>1, <4>2
    <3>5. h.token = r.token /\ h.attempt = r.attempt
      BY <3>3 DEF HitRow, Rows
    <3>6. Write(t.job, IF Hits(t) THEN h ELSE r)
      BY <2>2 DEF CreateCommit
    <3> HIDE DEF r, h
    <3> QED
      BY <1>2, <3>1, <3>4, <3>5, <3>6
  <2> QED
    BY <1>1, <1>3, <2>1, <2>2 DEF CreateStep, CreateBegin, CreateRead, CreateAbort,
       CreateRefused
<1>4. ASSUME NEW l \in granted, LeaseStep(l)
      PROVE  \A j \in Jobs : SameFence(j)
  <2> DEFINE j == l.job
             q == jobs[j]
  <2>1. j \in Jobs
    BY DEF TypeOK, Leases
  <2>2. Exists(j) /\ q \in Rows
    BY <1>0, <1>4, <2>1 DEF LeaseStep, MarkRunning, MarkFinalizing, MarkFailed,
       MarkCancelled, Transition, SetStagingKeys, ClearStagingKeys, ClearLeaseFence,
       CompleteTransformJob, Holds, HoldsFence, Is
  <2>3. ASSUME NEW S, NEW s, Transition(l, S, s)
        PROVE  \A i \in Jobs : SameFence(i)
    <3>1. [q EXCEPT !.status = s].token = q.token /\ [q EXCEPT !.status = s].attempt = q.attempt
      BY <2>2 DEF Rows
    <3> QED
      BY <1>2, <2>1, <2>2, <2>3, <3>1 DEF Transition
  <2>4. \A k : [q EXCEPT !.keys = k].token = q.token /\ [q EXCEPT !.keys = k].attempt = q.attempt
    BY <2>2 DEF Rows
  <2>5. CASE SetStagingKeys(l) \/ ClearStagingKeys(l)
    <3>1. \E k : Write(j, [q EXCEPT !.keys = k])
      BY <2>5 DEF SetStagingKeys, ClearStagingKeys
    <3>2. PICK k : Write(j, [q EXCEPT !.keys = k])
      BY <3>1
    <3> QED
      BY <1>2, <2>1, <2>2, <2>4, <3>2
  <2>6. CASE ClearLeaseFence(l)
    <3> DEFINE r == [q EXCEPT !.token = 0, !.live = FALSE]
    <3>1. r.token = 0 /\ Write(j, r)
      BY <2>2, <2>6 DEF Rows, ClearLeaseFence
    <3> HIDE DEF r
    <3> QED
      BY <1>w, <2>1, <3>1
  <2>7. ASSUME NEW v \in Versions, CompleteTransformJob(l, v)
        PROVE  \A i \in Jobs : SameFence(i)
    <3> DEFINE a == Adopted(q.resultRef.name, v)
               b == runs[j] # None
               r == [q EXCEPT !.status = "completed", !.output = v, !.resultRef = a,
                              !.cacheHit = b, !.token = 0, !.live = FALSE]
    <3>1. Write(j, r)
      BY <2>7 DEF CompleteTransformJob
    <3> HIDE DEF a, b
    <3>2. r.token = 0
      BY <2>2 DEF Rows
    <3> HIDE DEF r
    <3> QED
      BY <1>w, <2>1, <3>1, <3>2
  <2> QED
    BY <1>4, <2>3, <2>5, <2>6, <2>7 DEF LeaseStep, MarkRunning, MarkFinalizing, MarkFailed,
       MarkCancelled
<1>5. ASSUME NEW j \in Jobs, RowStep(j), ~ClaimNext(j)
      PROVE  \A i \in Jobs : SameFence(i)
  <2> DEFINE q == jobs[j]
  <2>1. ASSUME NEW r, Write(j, r), Exists(j), r.token = q.token, r.attempt = q.attempt
        PROVE  \A i \in Jobs : SameFence(i)
    BY <1>2, <2>1
  <2>2. CASE LeaseExpires(j)
    BY <1>0, <2>1, <2>2 DEF LeaseExpires, Fenced, Rows
  <2>3. CASE RequestCancellation(j)
    BY <1>0, <2>1, <2>3 DEF RequestCancellation, Is, Rows
  <2>4. CASE Retry(j)
    BY <1>0, <2>1, <2>4 DEF Retry, Is, Rows
  <2>5. ASSUME NEW a, NEW v, ClearCompletedStagingKeys(j, a, v)
        PROVE  \A i \in Jobs : SameFence(i)
    BY <1>0, <2>1, <2>5 DEF ClearCompletedStagingKeys, Is, Rows
  <2> QED
    BY <1>1, <1>5, <2>2, <2>3, <2>4, <2>5 DEF RowStep, RegisterTransformResult
<1>6. CASE FailExpired
  <2>1. \A j \in Jobs : Expired(j) => Exists(j) /\ jobs[j] \in Rows
    BY <1>0 DEF Expired, Is
  <2> QED
    BY <1>6, <2>1 DEF FailExpired, SameFence, Rows, Fenced, Exists
<1>7. CASE RefStep
  BY <1>1, <1>7 DEF RefStep, TrashRef, SetRef
<1>8. CASE UNCHANGED vars
  BY <1>1, <1>8 DEF vars
<1> QED
  BY <1>3, <1>4, <1>5, <1>6, <1>7, <1>8 DEF Next

\* What a claim does: the row of the job gets a lease nobody has had.
LEMMA ClaimFacts ==
    ASSUME TypeOK, Outcome, NEW j \in Jobs, ClaimNext(j)
    PROVE  /\ NoFence /\ Is(j, {"queued"})
           /\ LeaseOf(j)' \notin granted /\ granted' = granted \cup {LeaseOf(j)'}
           /\ LeaseOf(j)'.token # 0 /\ LeaseOf(j)' \in Leases
           /\ Exists(j)' /\ jobs'[j].status = "leased" /\ jobs'[j].keys = jobs[j].keys
           /\ jobs'[j].token # 0
           /\ \A i \in Jobs \ {j} : jobs'[i] = jobs[i]
<1> DEFINE q == jobs[j]
           a == q.attempt + 1
           k == Cardinality(granted) + 1
           r == [q EXCEPT !.status = "leased", !.attempt = a, !.token = k, !.live = TRUE]
           l == [job |-> j, attempt |-> a, token |-> k]
<1>1. /\ NoFence /\ Is(j, {"queued"}) /\ Exists(j)
      /\ Write(j, r) /\ granted' = granted \cup {l}
  BY DEF ClaimNext, Is
<1>2. q \in Rows /\ q.attempt \in Nat
  BY <1>1, RowFacts
<1>3. k \in Nat /\ k # 0 /\ a \in Nat
  <2>1. Cardinality(granted) \in Nat
    BY FS_CardinalityType DEF TypeOK
  <2> QED BY <1>2, <2>1
<1>4. l \notin granted
  <2>1. \A m \in granted : m.job = j => m.attempt <= q.attempt
    BY DEF Outcome, LeasesArePast
  <2> QED BY <1>2, <2>1
<1> HIDE DEF k
<1>5. /\ r.attempt = a /\ r.token = k /\ r.status = "leased" /\ r.keys = q.keys
      /\ r \in Rows
  BY <1>2, <1>3 DEF Rows, Status, Active
<1> HIDE DEF r
<1>6. jobs'[j] = r /\ r # None /\ \A i \in Jobs \ {j} : jobs'[i] = jobs[i]
  BY <1>1, <1>5, NullIsNoRow DEF Write, TypeOK
<1>7. LeaseOf(j)' = l
  BY <1>5, <1>6 DEF LeaseOf
<1>8. l.token = k /\ l \in Leases
  BY <1>3 DEF Leases
<1> HIDE DEF l
<1> QED
  BY <1>1, <1>3, <1>4, <1>5, <1>6, <1>7, <1>8 DEF Exists

\* Only a claim grants a lease.
LEMMA GrantMoves ==
    ASSUME [Next]_vars
    PROVE  granted' = granted \/ \E j \in Jobs : ClaimNext(j)
BY DEF Next, vars, CreateStep, CreateBegin, CreateInsert, CreateRead, CreateAbort,
   CreateRefused, CreateCommit, LeaseStep, MarkRunning, MarkFinalizing, MarkFailed,
   MarkCancelled, Transition, SetStagingKeys, ClearStagingKeys, ClearLeaseFence,
   CompleteTransformJob, RowStep, LeaseExpires, RequestCancellation, Retry,
   RegisterTransformResult, ClearCompletedStagingKeys, FailExpired, RefStep, TrashRef, SetRef

\* Every fence stays a granted lease, and no grant is withdrawn.
LEMMA FencesStep ==
    ASSUME TypeOK, Outcome, FencesAreGranted, [Next]_vars
    PROVE  FencesAreGranted' /\ granted \subseteq granted'
<1>1. ASSUME NEW j \in Jobs, ClaimNext(j)
      PROVE  FencesAreGranted' /\ granted \subseteq granted'
  <2>1. /\ granted' = granted \cup {LeaseOf(j)'} /\ LeaseOf(j)'.token # 0 /\ NoFence
        /\ \A i \in Jobs \ {j} : jobs'[i] = jobs[i]
    BY <1>1, ClaimFacts
  <2>2. \A i \in Jobs \ {j} : ~Fenced(i)'
    BY <2>1 DEF NoFence, Fenced, Exists
  <2> QED
    BY <2>1, <2>2 DEF FencesAreGranted
<1>2. ASSUME ~\E j \in Jobs : ClaimNext(j)
      PROVE  FencesAreGranted' /\ granted \subseteq granted'
  <2>1. granted' = granted /\ \A j \in Jobs : SameFence(j)
    BY <1>2, GrantMoves, FenceMoves
  <2> QED
    BY <2>1 DEF FencesAreGranted, SameFence, LeaseOf
<1> QED
  BY <1>1, <1>2

------------------------------------------------------------------------------
(* Every step of the system is a step of the table.                         *)

\* The places in which a dispatcher works with a lease.
Working == Processing \cup Draining \cup {"final"}

LeasesAreGranted == \A d \in Dispatchers : disp[d].pc \in Working => disp[d].lease \in granted

\* A statement under a lease that is granted is a step of the table.
LEMMA HeldStep ==
    ASSUME NEW l \in granted, LeaseStep(l)
    PROVE  Next
BY DEF Next

\* Dispatchers, Worker, users and faults write the table by its own statements.
LEMMA TableStep ==
    ASSUME TypeOK, LeasesAreGranted, [DispatchNext]_system
    PROVE  [Next]_vars
<1>0. ASSUME UNCHANGED table
      PROVE  [Next]_vars
  BY <1>0 DEF table, vars
<1>1. ASSUME NEW d \in Dispatchers, DispatcherStep(d)
      PROVE  [Next]_vars
  <2> DEFINE l == disp[d].lease
  <2>1. ASSUME disp[d].pc \in Working
        PROVE  l \in granted /\ l.job \in Jobs
    BY <2>1 DEF LeasesAreGranted, TypeOK, Leases
  <2>2. CASE FailExpiredLeases(d)
    BY <1>0, <2>2 DEF FailExpiredLeases, Next
  <2>3. CASE Claim(d)
    BY <1>0, <2>3 DEF Claim, Next, RowStep
  <2>4. CASE Unsupported(d) \/ HandleEnded(d) \/ HandleExecutionError(d)
    <3>1. l \in granted
      BY <2>1, <2>4 DEF Unsupported, HandleEnded, HandleExecutionError, Handle, At, Working,
         Processing
    <3>2. MarkFailed(l) \/ MarkCancelled(l) \/ UNCHANGED table
      BY <2>4 DEF Unsupported, HandleEnded, HandleExecutionError, IfHeld
    <3> QED
      BY <1>0, <3>1, <3>2, HeldStep DEF LeaseStep
  <2>5. CASE PersistKeys(d) \/ HandleStarted(d) \/ HandleCompleted(d) \/ ClearKeys(d) \/ ClearFence(d)
    <3>1. l \in granted
      BY <2>1, <2>5 DEF PersistKeys, HandleStarted, HandleCompleted, ClearKeys, ClearFence,
         Handle, At, Working, Processing, Draining
    <3>2. \/ SetStagingKeys(l) \/ MarkRunning(l) \/ MarkFinalizing(l)
          \/ ClearStagingKeys(l) \/ ClearLeaseFence(l) \/ UNCHANGED table
      BY <2>5 DEF PersistKeys, HandleStarted, HandleCompleted, ClearKeys, ClearFence
    <3> QED
      BY <1>0, <3>1, <3>2, HeldStep DEF LeaseStep
  <2>6. CASE Finalize(d)
    <3>1. l \in granted
      BY <2>1, <2>6 DEF Finalize, At, Working, Processing
    <3>2. (\E v \in Versions : CompleteTransformJob(l, v)) \/ UNCHANGED table
      BY <2>6 DEF Finalize
    <3> QED
      BY <1>0, <3>1, <3>2, HeldStep DEF LeaseStep
  <2>7. CASE ClearCompleted(d)
    <3>1. l \in granted /\ l.job \in Jobs
      BY <2>1, <2>7 DEF ClearCompleted, At, Working, Processing
    <3>2. \/ \E v \in Versions : ClearCompletedStagingKeys(l.job, l.attempt, v)
          \/ UNCHANGED table
      BY <2>7 DEF ClearCompleted
    <3>3. (\E v \in Versions : ClearCompletedStagingKeys(l.job, l.attempt, v)) => RowStep(l.job)
      BY <3>1 DEF RowStep
    <3> QED
      BY <1>0, <3>1, <3>2, <3>3 DEF Next
  <2> QED
    BY <1>0, <1>1, <2>2, <2>3, <2>4, <2>5, <2>6, <2>7 DEF DispatcherStep, FindFence,
       CreateInput, CreateOutputTarget, UndoPreparation, Send, HandleProgress, HandleBroken,
       StreamAborted, SweepCompleted, Reread, CancelExecution, AwaitStopped, Sweep, Exit,
       Start
<1>2. ASSUME NEW d \in Dispatchers, Stop(d)
      PROVE  [Next]_vars
  <2>1. disp[d].pc \in Processing => disp[d].lease.job \in Jobs
    BY DEF LeasesAreGranted, TypeOK, Leases, Working
  <2>2. \/ disp[d].pc \in Processing /\ RequestCancellation(disp[d].lease.job)
        \/ UNCHANGED table
    BY <1>2 DEF Stop
  <2> QED
    BY <1>0, <2>1, <2>2 DEF Next, RowStep
<1>3. ASSUME NEW d \in Dispatchers, RenewalFails(d) \/ Crash(d)
      PROVE  [Next]_vars
  BY <1>0, <1>3 DEF RenewalFails, Crash
<1>4. CASE WorkerStep \/ NoticeHangup \/ WorkerCrash \/ Land
  BY <1>0, <1>4 DEF WorkerStep, RunJob, Download, Upload, End, NoticeHangup, WorkerCrash, Land
<1>5. ASSUME NEW j \in Jobs, Expire(j)
      PROVE  [Next]_vars
  BY <1>5 DEF Expire, Next, RowStep
<1>6. CASE User
  BY <1>6 DEF User, Next, RowStep, CreateStep
<1>7. CASE UNCHANGED system
  BY <1>0, <1>7 DEF system
<1> QED
  BY <1>1, <1>2, <1>3, <1>4, <1>5, <1>6, <1>7 DEF DispatchNext

------------------------------------------------------------------------------
(* Types.                                                                   *)

Standing == [pc : Places, lease : Leases \cup {NoLease}, lost : BOOLEAN, aborted : BOOLEAN,
             stopping : BOOLEAN]

DispatchersOK == disp \in [Dispatchers -> Standing] /\ LeasesAreGranted
WorkerOK ==
    /\ calls \subseteq [lease : granted, from : Dispatchers]
    /\ worker # None => worker \in Executions /\ worker.lease \in granted
    /\ stream \in [Dispatchers -> Seq(Events)]
ObjectsOK == objects \cup late \cup overtaken \subseteq Jobs \X Nat \X {"input", "output"}
FaultsOK  == faults \in 0 .. MaxFaults

\* The table half of the invariant, and the whole of it.
TableOK  == TypeOK /\ Outcome /\ SingleFence /\ FencesAreGranted
SystemOK == TableOK /\ DispatchersOK /\ WorkerOK /\ ObjectsOK /\ FaultsOK

\* One dispatcher moves to a standing that is right.
LEMMA DispatcherMoves ==
    ASSUME DispatchersOK, granted \subseteq granted',
           NEW d \in Dispatchers, NEW p \in Standing, disp' = [disp EXCEPT ![d] = p],
           p.pc \in Working => p.lease \in granted'
    PROVE  DispatchersOK'
BY DEF DispatchersOK, LeasesAreGranted

\* Nobody moves.
LEMMA NobodyMoves ==
    ASSUME DispatchersOK, granted \subseteq granted', disp' = disp
    PROVE  DispatchersOK'
BY DEF DispatchersOK, LeasesAreGranted

\* A dispatcher that goes on with its lease, or back to the loop.
LEMMA GoesOn ==
    ASSUME DispatchersOK, granted \subseteq granted',
           NEW d \in Dispatchers, NEW pc \in Places, Goto(d, pc),
           pc \in Working => disp[d].pc \in Working
    PROVE  DispatchersOK'
<1> DEFINE p == [disp[d] EXCEPT !.pc = pc]
<1>1. disp[d] \in Standing /\ (disp[d].pc \in Working => disp[d].lease \in granted)
  BY DEF DispatchersOK, LeasesAreGranted
<1>2. p \in Standing /\ p.pc = pc /\ p.lease = disp[d].lease
  BY <1>1 DEF Standing
<1>3. disp' = [disp EXCEPT ![d] = p]
  BY DEF Goto
<1> HIDE DEF p
<1> QED
  BY <1>1, <1>2, <1>3, DispatcherMoves

\* A dispatcher that finds its lease lost.
LEMMA LosesLease ==
    ASSUME DispatchersOK, granted \subseteq granted',
           NEW d \in Dispatchers, LoseLease(d), disp[d].pc \in Working
    PROVE  DispatchersOK'
<1> DEFINE p == [disp[d] EXCEPT !.pc = "error", !.lost = TRUE]
<1>1. disp[d] \in Standing /\ disp[d].lease \in granted
  BY DEF DispatchersOK, LeasesAreGranted
<1>2. p \in Standing /\ p.lease = disp[d].lease
  BY <1>1 DEF Standing, Places, Processing
<1>3. disp' = [disp EXCEPT ![d] = p]
  BY <1>1 DEF LoseLease, Standing
<1> HIDE DEF p
<1> QED
  BY <1>1, <1>2, <1>3, DispatcherMoves

\* A dispatcher that takes up a fence.
LEMMA TakesFence ==
    ASSUME TableOK, DispatchersOK, granted \subseteq granted',
           NEW d \in Dispatchers, NEW j \in Jobs, Fenced(j), Drain(d, j, "cancel")
    PROVE  DispatchersOK'
<1> DEFINE p == [disp[d] EXCEPT !.pc = "cancel", !.lease = LeaseOf(j)]
<1>1. disp[d] \in Standing /\ LeaseOf(j) \in granted /\ LeaseOf(j) \in Leases
  BY DEF DispatchersOK, TableOK, FencesAreGranted, TypeOK
<1>2. p \in Standing /\ p.lease = LeaseOf(j)
  BY <1>1 DEF Standing, Places, Draining
<1>3. disp' = [disp EXCEPT ![d] = p]
  BY <1>1 DEF Drain, LeaseOf, Standing
<1> HIDE DEF p
<1> QED
  BY <1>1, <1>2, <1>3, DispatcherMoves

\* Every dispatcher works with a lease that was granted.
LEMMA DispatchersKeep ==
    ASSUME TableOK, TableOK', DispatchersOK, granted \subseteq granted', [DispatchNext]_system
    PROVE  DispatchersOK'
<1>0. ASSUME NEW d \in Dispatchers
      PROVE  disp[d] \in Standing
  BY <1>0 DEF DispatchersOK
<1>p. /\ {"loop", "scan", "claim", "final", "down"} \cup Processing \cup Draining \subseteq Places
      /\ {"final"} \cup Processing \cup Draining = Working
      /\ {"loop", "scan", "claim", "down"} \cap Working = {}
      /\ {"input", "target", "keys", "undo", "send", "stream", "finalize", "sweepDone",
          "clearDone", "error"} = Processing
      /\ {"cancel", "await", "sweep", "clearKeys", "clearFence"} = Draining
  BY DEF Places, Working, Processing, Draining
<1>1. ASSUME NEW d \in Dispatchers, DispatcherStep(d)
      PROVE  DispatchersOK'
  <2>1. ASSUME Goto(d, "loop") \/ Goto(d, "scan") \/ Goto(d, "claim")
        PROVE  DispatchersOK'
    BY <1>p, <2>1, GoesOn
  <2>2. ASSUME NEW pc \in Working, Goto(d, pc), disp[d].pc \in Working
        PROVE  DispatchersOK'
    BY <1>p, <2>2, GoesOn
  <2>3. CASE FailExpiredLeases(d)
    BY <2>1, <2>3 DEF FailExpiredLeases
  <2>4. CASE FindFence(d)
    BY <2>1, <2>4, TakesFence DEF FindFence
  <2>5. CASE Claim(d)
    <3>1. ASSUME NEW j \in Jobs, ClaimNext(j),
                 disp' = [disp EXCEPT ![d] =
                   [@ EXCEPT !.pc = "input", !.lost = FALSE, !.aborted = FALSE,
                             !.lease = CHOOSE l \in granted' : l \notin granted]]
          PROVE  DispatchersOK'
      <4> DEFINE l == CHOOSE l \in granted' : l \notin granted
                 p == [disp[d] EXCEPT !.pc = "input", !.lost = FALSE, !.aborted = FALSE,
                                      !.lease = l]
      <4>1. \E m \in granted' : m \notin granted
        BY <3>1, ClaimFacts DEF TableOK
      <4>2. l \in granted'
        BY <4>1
      <4>3. l \in Leases
        BY <4>2 DEF TableOK, TypeOK
      <4>4. disp' = [disp EXCEPT ![d] = p]
        BY <3>1 DEF DispatchersOK
      <4> HIDE DEF l
      <4>5. p \in Standing /\ p.lease = l
        BY <1>0, <1>p, <4>3 DEF Standing
      <4> HIDE DEF p
      <4> QED
        BY <4>2, <4>4, <4>5, DispatcherMoves
    <3> QED
      BY <2>1, <2>5, <3>1 DEF Claim
  <2>6. CASE \/ Unsupported(d) \/ CreateInput(d) \/ CreateOutputTarget(d) \/ PersistKeys(d)
             \/ UndoPreparation(d) \/ Send(d)
    <3>1. disp[d].pc \in Working /\ \E pc \in Working : Goto(d, pc)
      BY <1>p, <2>6 DEF Unsupported, CreateInput, CreateOutputTarget, PersistKeys,
         UndoPreparation, Send, At
    <3> QED BY <2>2, <3>1
  <2>7. CASE HandleStarted(d) \/ HandleProgress(d) \/ HandleCompleted(d)
    <3>1. /\ disp[d].pc \in Working
          /\ disp' = disp \/ LoseLease(d) \/ Goto(d, "finalize")
      BY <1>p, <2>7 DEF HandleStarted, HandleProgress, HandleCompleted, Handle, At
    <3> QED BY <1>p, <2>2, <3>1, NobodyMoves, LosesLease
  <2>8. CASE \/ HandleEnded(d) \/ HandleBroken(d) \/ StreamAborted(d) \/ Finalize(d)
             \/ SweepCompleted(d) \/ ClearCompleted(d) \/ HandleExecutionError(d)
    <3>1. disp[d].pc \in Working /\ \E pc \in Working : Goto(d, pc)
      BY <1>p, <2>8 DEF HandleEnded, HandleBroken, StreamAborted, Finalize, SweepCompleted,
         ClearCompleted, HandleExecutionError, Handle, At
    <3> QED BY <2>2, <3>1
  <2>9. CASE Reread(d)
    <3>1. disp[d].pc \in Working
      BY <1>p, <2>9 DEF Reread, At
    <3>2. disp[d].lease.job \in Jobs
      BY <3>1 DEF DispatchersOK, LeasesAreGranted, TableOK, TypeOK, Leases
    <3> QED BY <2>1, <2>9, <3>2, TakesFence DEF Reread
  <2>10. CASE CancelExecution(d) \/ AwaitStopped(d) \/ Sweep(d) \/ ClearKeys(d) \/ ClearFence(d)
    <3>1. disp[d].pc \in Working /\ \E pc \in Working \cup {"loop"} : Goto(d, pc)
      BY <1>p, <2>10 DEF CancelExecution, AwaitStopped, Sweep, ClearKeys, ClearFence, At
    <3> QED BY <2>1, <2>2, <3>1
  <2>11. CASE Exit(d) \/ Start(d)
    <3>1. Looping \in Standing /\ [Looping EXCEPT !.pc = "down"] \in Standing
      BY <1>p DEF Looping, Standing
    <3>2. /\ Looping.pc \notin Working
          /\ [Looping EXCEPT !.pc = "down"].pc \notin Working
      BY <1>p DEF Looping
    <3> QED BY <2>11, <3>1, <3>2, DispatcherMoves DEF Exit, Start
  <2> QED
    BY <1>1, <2>3, <2>4, <2>5, <2>6, <2>7, <2>8, <2>9, <2>10, <2>11 DEF DispatcherStep
<1>2. ASSUME NEW d \in Dispatchers, RenewalFails(d) \/ Stop(d)
      PROVE  DispatchersOK'
  <2>1. ASSUME NEW lost \in BOOLEAN, NEW aborted \in BOOLEAN, NEW stopping \in BOOLEAN,
               disp' = [disp EXCEPT ![d] =
                  [disp[d] EXCEPT !.lost = lost, !.aborted = aborted, !.stopping = stopping]]
        PROVE  DispatchersOK'
    <3> DEFINE p == [disp[d] EXCEPT !.lost = lost, !.aborted = aborted, !.stopping = stopping]
    <3>1. p \in Standing /\ p.lease = disp[d].lease /\ p.pc = disp[d].pc
      BY <1>0 DEF Standing
    <3> HIDE DEF p
    <3>2. disp' = [disp EXCEPT ![d] = p]
      BY <2>1 DEF p
    <3> QED
      BY <3>1, <3>2, DispatcherMoves DEF DispatchersOK, LeasesAreGranted
  <2>2. PICK lost \in BOOLEAN, aborted \in BOOLEAN, stopping \in BOOLEAN :
           disp' = [disp EXCEPT ![d] =
             [disp[d] EXCEPT !.lost = lost, !.aborted = aborted, !.stopping = stopping]]
    <3>1. /\ disp[d] \in Standing /\ disp[d].lost \in BOOLEAN
          /\ disp[d].aborted \in BOOLEAN /\ disp[d].stopping \in BOOLEAN
      BY <1>0 DEF Standing
    <3>2. CASE RenewalFails(d)
      <4>1. disp' = [disp EXCEPT ![d].lost = TRUE, ![d].aborted = TRUE]
        BY <3>2 DEF RenewalFails
      <4>2. disp' = [disp EXCEPT ![d] = [disp[d] EXCEPT !.lost = TRUE, !.aborted = TRUE,
                                                       !.stopping = disp[d].stopping]]
        BY <3>1, <4>1 DEF Standing, DispatchersOK
      <4> QED BY <3>1, <4>2
    <3>3. CASE Stop(d)
      <4>1. \/ disp' = [disp EXCEPT ![d].stopping = TRUE, ![d].aborted = TRUE]
            \/ disp' = [disp EXCEPT ![d].stopping = TRUE]
        BY <3>3 DEF Stop
      <4>2. disp' = [disp EXCEPT ![d].stopping = TRUE, ![d].aborted = TRUE] =>
              disp' = [disp EXCEPT ![d] = [disp[d] EXCEPT !.lost = disp[d].lost,
                                              !.aborted = TRUE, !.stopping = TRUE]]
        BY <3>1 DEF Standing, DispatchersOK
      <4>3. disp' = [disp EXCEPT ![d].stopping = TRUE] =>
              disp' = [disp EXCEPT ![d] = [disp[d] EXCEPT !.lost = disp[d].lost,
                                     !.aborted = disp[d].aborted, !.stopping = TRUE]]
        BY <3>1 DEF Standing, DispatchersOK
      <4> QED BY <3>1, <4>1, <4>2, <4>3
    <3> QED BY <1>2, <3>2, <3>3
  <2> QED
    BY <2>1, <2>2
<1>3. ASSUME NEW d \in Dispatchers, Crash(d)
      PROVE  DispatchersOK'
  <2>1. [Looping EXCEPT !.pc = "down"] \in Standing
    BY <1>p DEF Looping, Standing
  <2>2. [Looping EXCEPT !.pc = "down"].pc \notin Working
    BY <1>p DEF Looping
  <2> QED BY <1>3, <2>1, <2>2, DispatcherMoves DEF Crash
<1>4. CASE WorkerCrash
  <2>1. ASSUME NEW d \in Dispatchers
        PROVE  /\ [disp[d] EXCEPT !.pc = "loop"] \in Standing
               /\ [disp[d] EXCEPT !.pc = "loop"].pc \notin Working
    BY <1>0, <1>p DEF Standing
  <2>2. disp' = [d \in Dispatchers |->
                  IF At(d, "await") /\ Executes(disp[d].lease)
                  THEN [disp[d] EXCEPT !.pc = "loop"] ELSE disp[d]]
    BY <1>4 DEF WorkerCrash
  <2> QED
    BY <1>0, <2>1, <2>2 DEF DispatchersOK, LeasesAreGranted
<1>5. CASE \/ WorkerStep \/ NoticeHangup \/ Land
           \/ (\E j \in Jobs : Expire(j)) \/ User \/ UNCHANGED system
  BY <1>5, NobodyMoves DEF WorkerStep, RunJob, Download, Upload, End, NoticeHangup, Land,
     Expire, User, system, dvars
<1> QED
  BY <1>1, <1>2, <1>3, <1>4, <1>5 DEF DispatchNext

\* An event is pushed to a stream of events.
LEMMA PushTyped ==
    ASSUME stream \in [Dispatchers -> Seq(Events)], NEW d, NEW l, NEW event \in Events,
           Push(d, l, event)
    PROVE  stream' \in [Dispatchers -> Seq(Events)]
<1>1. ASSUME d \in Dispatchers
      PROVE  Append(stream[d], event) \in Seq(Events)
  BY <1>1
<1>2. CASE d \in Dispatchers
  BY <1>1, <1>2 DEF Push
<1>3. CASE d \notin Dispatchers
  BY <1>3 DEF Push
<1> QED
  BY <1>2, <1>3

\* What a dispatcher reads leaves a stream of events.
LEMMA HandleTyped ==
    ASSUME stream \in [Dispatchers -> Seq(Events)], NEW d \in Dispatchers, NEW event,
           Handle(d, event)
    PROVE  stream' \in [Dispatchers -> Seq(Events)]
<1>1. stream[d] \in Seq(Events) /\ stream[d] # <<>>
  BY DEF Handle
<1>2. Tail(stream[d]) \in Seq(Events)
  BY <1>1
<1> QED
  BY <1>2 DEF Handle

\* Requests and the execution in the slot carry granted leases, and the streams
\* carry events.
LEMMA WorkerKeeps ==
    ASSUME TableOK, DispatchersOK, WorkerOK, granted \subseteq granted', [DispatchNext]_system
    PROVE  WorkerOK'
<1> DEFINE Waiting(cs) == cs \subseteq [lease : granted, from : Dispatchers]
           Slot(w) == w # None => w \in Executions /\ w.lease \in granted
           Streams(t) == t \in [Dispatchers -> Seq(Events)]
<1>0. [lease : granted, from : Dispatchers] \subseteq [lease : granted', from : Dispatchers]
  OBVIOUS
<1>1. ASSUME Waiting(calls'), Slot(worker'), Streams(stream')
      PROVE  WorkerOK'
  BY <1>0, <1>1 DEF WorkerOK
<1>2. Waiting(calls) /\ Slot(worker) /\ Streams(stream)
  BY DEF WorkerOK
<1>3. ASSUME Stays
      PROVE  WorkerOK'
  BY <1>1, <1>2, <1>3 DEF Stays
<1>4. ASSUME NEW d, Hangup(d)
      PROVE  Waiting(calls') /\ Slot(worker')
  <2>1. worker # None => [worker EXCEPT !.gone = TRUE] \in Executions
                         /\ [worker EXCEPT !.gone = TRUE].lease = worker.lease
    BY <1>2 DEF Executions
  <2> QED BY <1>2, <1>4, <2>1 DEF Hangup
<1>5. worker # None => /\ [worker EXCEPT !.cancelled = TRUE] \in Executions
                       /\ [worker EXCEPT !.cancelled = TRUE].lease = worker.lease
  BY <1>2 DEF Executions
<1>6. {"started", "progress", "completed", "failed", "cancelled", "broken"} = Events
  BY DEF Events
<1>7. ASSUME NEW d \in Dispatchers, DispatcherStep(d)
      PROVE  WorkerOK'
  <2>1. CASE Send(d)
    <3>1. disp[d].lease \in granted
      BY <2>1 DEF Send, At, DispatchersOK, LeasesAreGranted, Working, Processing
    <3>2. Waiting(calls')
      BY <1>2, <2>1, <3>1 DEF Send
    <3>3. <<>> \in Seq(Events)
      OBVIOUS
    <3>4. Streams(stream')
      BY <1>2, <2>1, <3>3 DEF Send
    <3>5. worker' = worker
      BY <2>1 DEF Send
    <3> HIDE DEF Waiting, Streams
    <3> QED BY <1>1, <1>2, <3>2, <3>4, <3>5
  <2>2. CASE \/ HandleStarted(d) \/ HandleProgress(d) \/ HandleEnded(d) \/ HandleCompleted(d)
             \/ HandleBroken(d)
    <3>1. \E event : Handle(d, event)
      BY <2>2 DEF HandleStarted, HandleProgress, HandleEnded, HandleCompleted, HandleBroken
    <3>2. Streams(stream')
      BY <1>2, <3>1, HandleTyped
    <3>3. calls' = calls /\ worker' = worker
      BY <3>1 DEF Handle
    <3> HIDE DEF Waiting, Streams
    <3> QED BY <1>1, <1>2, <3>2, <3>3
  <2>3. CASE CancelExecution(d)
    <3>1. /\ calls' = calls /\ stream' = stream
          /\ worker' = worker \/ (worker # None /\ worker' = [worker EXCEPT !.cancelled = TRUE])
      BY <2>3 DEF CancelExecution, Executes
    <3> QED BY <1>1, <1>2, <1>5, <3>1
  <2> QED
    BY <1>3, <1>7, <2>1, <2>2, <2>3 DEF DispatcherStep, FailExpiredLeases, FindFence, Claim,
       Unsupported, CreateInput, CreateOutputTarget, PersistKeys, UndoPreparation,
       StreamAborted, Finalize, SweepCompleted, ClearCompleted, HandleExecutionError, Reread,
       AwaitStopped, Sweep, ClearKeys, ClearFence, Exit, Start
<1>8. ASSUME NEW d \in Dispatchers, RenewalFails(d) \/ Crash(d) \/ Stop(d)
      PROVE  WorkerOK'
  <2>1. Hangup(d) \/ UNCHANGED <<calls, worker>>
    BY <1>8 DEF RenewalFails, Crash, Stop
  <2>2. Waiting(calls') /\ Slot(worker')
    BY <1>2, <1>4, <2>1
  <2>3. stream' = stream \/ stream' = [stream EXCEPT ![d] = <<>>]
    BY <1>8 DEF RenewalFails, Crash, Stop
  <2>4. <<>> \in Seq(Events)
    OBVIOUS
  <2>5. Streams(stream')
    BY <1>2, <2>3, <2>4
  <2> HIDE DEF Waiting, Slot, Streams
  <2> QED
    BY <1>1, <2>2, <2>5
<1>9. ASSUME NEW c \in calls, RunJob(c)
      PROVE  WorkerOK'
  <2>1. c.lease \in granted /\ c.from \in Dispatchers /\ Waiting(calls')
    BY <1>2, <1>9 DEF RunJob
  <2>2. Streams(stream')
    BY <1>2, <1>6, <1>9, PushTyped DEF RunJob
  <2>3. worker = None \/ worker' = worker
    BY <1>9 DEF RunJob
  <2>4. CASE worker = None
    <3> DEFINE w == [lease |-> c.lease, from |-> c.from, gone |-> FALSE,
                     cancelled |-> FALSE, phase |-> "started"]
    <3>1. worker' = w
      BY <1>9, <2>4 DEF RunJob
    <3>2. c.lease \in Leases
      BY <2>1 DEF TableOK, TypeOK
    <3> QED BY <1>1, <2>1, <2>2, <3>1, <3>2 DEF Executions
  <2>5. CASE worker' = worker
    <3> HIDE DEF Waiting, Slot, Streams
    <3> QED BY <1>1, <1>2, <2>1, <2>2, <2>5
  <2> QED BY <2>3, <2>4, <2>5
<1>10. CASE Download \/ Upload \/ End \/ WorkerCrash
  <2>1. calls' = calls
    BY <1>10 DEF Download, Upload, End, WorkerCrash
  <2>2. \/ worker' = None
        \/ worker # None /\ worker' = [worker EXCEPT !.phase = "processing"]
        \/ worker # None /\ worker' = [worker EXCEPT !.phase = "uploaded"]
    BY <1>10 DEF Download, Upload, End, WorkerCrash
  <2>3. Slot(worker')
    BY <1>2, <2>2 DEF Executions
  <2>4. stream' = stream \/ \E event \in Events : Push(worker.from, worker.lease, event)
    BY <1>6, <1>10 DEF Download, Upload, End, WorkerCrash
  <2>5. Streams(stream')
    BY <1>2, <2>4, PushTyped
  <2> HIDE DEF Waiting, Slot, Streams
  <2> QED
    BY <1>1, <1>2, <2>1, <2>3, <2>5
<1>11. CASE NoticeHangup
  BY <1>1, <1>2, <1>5, <1>11 DEF NoticeHangup
<1>12. CASE (\E j \in Jobs : Expire(j)) \/ User \/ Land \/ UNCHANGED system
  BY <1>3, <1>12 DEF Expire, User, Land, system, dvars, Stays
<1> QED
  BY <1>7, <1>8, <1>9, <1>10, <1>11, <1>12 DEF DispatchNext, WorkerStep

\* Staging objects are named after a job and an attempt.
LEMMA ObjectsKeep ==
    ASSUME TableOK, DispatchersOK, WorkerOK, ObjectsOK, [DispatchNext]_system
    PROVE  ObjectsOK'
<1> DEFINE All == objects \cup late \cup overtaken
<1>1. ASSUME All' \subseteq All
      PROVE  ObjectsOK'
  BY <1>1 DEF ObjectsOK
<1>2. ASSUME NEW l \in granted, NEW name \in {"input", "output"},
             All' \subseteq All \cup {Object(l, name)}
      PROVE  ObjectsOK'
  BY <1>2 DEF ObjectsOK, Object, TableOK, TypeOK, Leases
<1>s. ASSUME staging' = staging
      PROVE  ObjectsOK'
  BY <1>1, <1>s DEF staging
<1>3. ASSUME NEW d \in Dispatchers, CreateInput(d) \/ (Crash(d) /\ At(d, "input"))
      PROVE  ObjectsOK'
  <2>1. disp[d].lease \in granted
    BY <1>3 DEF CreateInput, At, DispatchersOK, LeasesAreGranted, Working, Processing
  <2>2. All' \subseteq All \cup {Object(disp[d].lease, "input")}
    BY <1>3 DEF CreateInput, Crash, MayLand
  <2> QED BY <1>2, <2>1, <2>2
<1>4. CASE Upload \/ End \/ WorkerCrash
  <2>1. worker.lease \in granted
    BY <1>4 DEF Upload, End, WorkerCrash, WorkerOK
  <2>2. CASE Upload \/ LeavesUpload
    <3>1. All' \subseteq All \cup {Object(worker.lease, "output")}
      BY <2>2 DEF Upload, LeavesUpload, MayLand
    <3> QED BY <1>2, <2>1, <3>1
  <2> QED BY <1>4, <1>s, <2>2 DEF End, WorkerCrash
<1>5. ASSUME NEW d \in Dispatchers,
             \/ UndoPreparation(d) \/ SweepCompleted(d) \/ Sweep(d)
             \/ (Crash(d) /\ ~At(d, "input")) \/ Land
      PROVE  ObjectsOK'
  BY <1>1, <1>5 DEF UndoPreparation, SweepCompleted, Sweep, SweepAll, SweepSome, Crash, Land
<1>6. ASSUME NEW d \in Dispatchers, DispatcherStep(d),
             ~(CreateInput(d) \/ UndoPreparation(d) \/ SweepCompleted(d) \/ Sweep(d))
      PROVE  ObjectsOK'
  <2>1. CASE \/ FailExpiredLeases(d) \/ FindFence(d) \/ Claim(d) \/ Unsupported(d)
             \/ CreateOutputTarget(d) \/ PersistKeys(d) \/ Send(d)
    BY <1>s, <2>1 DEF FailExpiredLeases, FindFence, Claim, Unsupported, CreateOutputTarget,
       PersistKeys, Send
  <2>2. CASE \/ HandleStarted(d) \/ HandleProgress(d) \/ HandleEnded(d) \/ HandleCompleted(d)
             \/ HandleBroken(d) \/ StreamAborted(d) \/ HandleExecutionError(d)
    BY <1>s, <2>2 DEF HandleStarted, HandleProgress, HandleEnded, HandleCompleted,
       HandleBroken, Handle, StreamAborted, HandleExecutionError
  <2>3. CASE \/ Finalize(d) \/ ClearCompleted(d) \/ Reread(d)
             \/ CancelExecution(d) \/ AwaitStopped(d) \/ ClearKeys(d)
             \/ ClearFence(d) \/ Exit(d) \/ Start(d)
    BY <1>s, <2>3 DEF Finalize, ClearCompleted, Reread, CancelExecution,
       AwaitStopped, ClearKeys, ClearFence, Exit, Start
  <2> QED
    BY <1>6, <2>1, <2>2, <2>3 DEF DispatcherStep
<1>7. CASE \/ (\E d \in Dispatchers : RenewalFails(d) \/ Stop(d))
           \/ (\E c \in calls : RunJob(c)) \/ Download \/ NoticeHangup
           \/ (\E j \in Jobs : Expire(j)) \/ User \/ UNCHANGED system
  BY <1>s, <1>7 DEF RenewalFails, Stop, RunJob, Download, NoticeHangup, Expire, User, system,
     dvars
<1>8. CASE Land
  BY <1>1, <1>8 DEF Land
<1> HIDE DEF All
<1> QED
  BY <1>3, <1>4, <1>5, <1>6, <1>7, <1>8 DEF DispatchNext, WorkerStep

\* Faults are counted up to their bound.
LEMMA FaultsKeep ==
    ASSUME FaultsOK, [DispatchNext]_system
    PROVE  FaultsOK'
<1>1. ASSUME NEW d \in Dispatchers, DispatcherStep(d)
      PROVE  Fault \/ Fine
  <2>1. CASE \/ FailExpiredLeases(d) \/ FindFence(d) \/ Claim(d) \/ Unsupported(d)
             \/ CreateInput(d) \/ CreateOutputTarget(d) \/ PersistKeys(d)
             \/ UndoPreparation(d) \/ Send(d)
    BY <2>1 DEF FailExpiredLeases, FindFence, Claim, Unsupported, CreateInput,
       CreateOutputTarget, PersistKeys, UndoPreparation, Send
  <2>2. CASE \/ HandleStarted(d) \/ HandleProgress(d) \/ HandleEnded(d) \/ HandleCompleted(d)
             \/ HandleBroken(d) \/ StreamAborted(d) \/ HandleExecutionError(d)
    BY <2>2 DEF HandleStarted, HandleProgress, HandleEnded, HandleCompleted, HandleBroken,
       Handle, StreamAborted, HandleExecutionError
  <2>3. CASE \/ Finalize(d) \/ SweepCompleted(d) \/ ClearCompleted(d) \/ Reread(d)
             \/ CancelExecution(d) \/ AwaitStopped(d) \/ Sweep(d) \/ ClearKeys(d)
             \/ ClearFence(d) \/ Exit(d) \/ Start(d)
    BY <2>3 DEF Finalize, SweepCompleted, ClearCompleted, Reread, CancelExecution,
       AwaitStopped, Sweep, ClearKeys, ClearFence, Exit, Start
  <2> QED
    BY <1>1, <2>1, <2>2, <2>3 DEF DispatcherStep
<1>2. ASSUME NEW d \in Dispatchers, RenewalFails(d) \/ Crash(d) \/ Stop(d)
      PROVE  Fault \/ Fine
  BY <1>2 DEF RenewalFails, Crash, Stop
<1>3. ASSUME WorkerStep \/ NoticeHangup \/ WorkerCrash \/ Land
      PROVE  Fault \/ Fine
  <2>1. CASE WorkerCrash \/ Land
    BY <2>1 DEF WorkerCrash, Land
  <2>2. CASE WorkerStep \/ NoticeHangup
    BY <2>2 DEF WorkerStep, RunJob, Download, Upload, End, NoticeHangup
  <2> QED BY <1>3, <2>1, <2>2
<1>4. ASSUME (\E j \in Jobs : Expire(j)) \/ User \/ UNCHANGED system
      PROVE  Fault \/ Fine
  <2>1. faults' = faults
    BY <1>4 DEF Expire, User, system, dvars
  <2> QED BY <2>1 DEF Fine
<1>5. Fault \/ Fine
  BY <1>1, <1>2, <1>3, <1>4 DEF DispatchNext
<1> QED
  BY <1>5, DispatchAssumption DEF Fault, Fine, FaultsOK

------------------------------------------------------------------------------
(* The composed system implements the table.                                *)

\* The system starts right.
LEMMA SystemInit == DispatchInit => SystemOK
<1> SUFFICES ASSUME DispatchInit
             PROVE  SystemOK
  OBVIOUS
<1>1. TypeOK /\ Outcome /\ SingleFence /\ FencesAreGranted
  BY InitTyped, OutcomeInit DEF DispatchInit, Init, SingleFence, Fenced, Exists,
     FencesAreGranted
<1>2. Looping \in Standing /\ Looping.pc \notin Working
  BY DEF Looping, Standing, Places, Working, Processing, Draining
<1>3. DispatchersOK
  BY <1>2 DEF DispatchInit, DispatchersOK, LeasesAreGranted
<1>4. WorkerOK
  <2>1. <<>> \in Seq(Events)
    OBVIOUS
  <2> QED BY <2>1 DEF DispatchInit, WorkerOK
<1>5. ObjectsOK /\ FaultsOK
  BY DispatchAssumption DEF DispatchInit, ObjectsOK, FaultsOK
<1> QED
  BY <1>1, <1>3, <1>4, <1>5 DEF SystemOK, TableOK

\* Every step keeps the system right, and is a step of the table.
LEMMA SystemStep ==
    ASSUME SystemOK, [DispatchNext]_system
    PROVE  SystemOK' /\ [Next]_vars
<1>1. [Next]_vars
  BY TableStep DEF SystemOK, TableOK, DispatchersOK
<1>2. TypeOK'
  BY <1>1, NextTyped DEF SystemOK, TableOK
<1>3. Outcome' /\ SingleFence' /\ FencesAreGranted' /\ granted \subseteq granted'
  BY <1>1, <1>2, OutcomeStep, SingleFenceStep, FencesStep DEF SystemOK, TableOK
<1>4. TableOK'
  BY <1>2, <1>3 DEF TableOK
<1> QED
  BY <1>1, <1>3, <1>4, DispatchersKeep, WorkerKeeps, ObjectsKeep, FaultsKeep DEF SystemOK

\* Every reachable state of the system is right.
LEMMA SystemAlways == DispatchSpec => []SystemOK
BY SystemInit, SystemStep, PTL DEF DispatchSpec

\* The system of dispatchers, Worker and users is an implementation of the
\* table, which assumes nothing of its callers: what holds of it holds here.
THEOREM DispatchUsesTheTable == DispatchSpec => Spec
<1>1. DispatchInit => Init
  BY DEF DispatchInit
<1>2. SystemOK /\ [DispatchNext]_system => [Next]_vars
  BY SystemStep
<1> QED
  BY <1>1, <1>2, SystemAlways, PTL DEF DispatchSpec, Spec

\* So the system keeps the promises of the ledger, however its processes crash.
THEOREM DispatchKeepsThePromise == DispatchSpec => ImplementsLedger
BY DispatchUsesTheTable, Implements, PTL

\* Every variable of the system has its type.
THEOREM DispatchTypeCorrect == DispatchSpec => []DispatchTypeOK
<1>1. SystemOK => DispatchTypeOK
  <2> SUFFICES ASSUME SystemOK
               PROVE  DispatchTypeOK
    OBVIOUS
  <2>1. TypeOK /\ granted \subseteq Leases
    BY DEF SystemOK, TableOK, TypeOK
  <2>2. disp \in [Dispatchers -> Standing]
    BY DEF SystemOK, DispatchersOK
  <2>3. \A d \in Dispatchers :
           disp[d].pc \in Processing \cup Draining \cup {"final"} => disp[d].lease \in Leases
    BY <2>1 DEF SystemOK, DispatchersOK, LeasesAreGranted, Working
  <2>4. calls \subseteq [lease : Leases, from : Dispatchers] /\ worker \in Executions \cup {None}
        /\ stream \in [Dispatchers -> Seq(Events)]
    BY <2>1 DEF SystemOK, WorkerOK
  <2>5. /\ objects \cup late \cup overtaken \subseteq Jobs \X Nat \X {"input", "output"}
        /\ faults \in 0 .. MaxFaults
    BY DEF SystemOK, ObjectsOK, FaultsOK
  <2> QED
    BY <2>1, <2>2, <2>3, <2>4, <2>5 DEF DispatchTypeOK, Standing
<1> QED
  BY <1>1, SystemAlways, PTL

------------------------------------------------------------------------------
(* One dispatcher: the Worker and the staging objects.                       *)

HasFence(l) == Exists(l.job) /\ jobs[l.job].attempt = l.attempt /\ jobs[l.job].token = l.token
Executing   == {"running", "finalizing"}

\* The objects that are there or still land, but for those a sweep missed.
Kept == (objects \cup late) \ overtaken

\* An object belongs to the attempt that has the fence, or to the completed
\* attempt whose row still names it.
Owned(o) ==
    /\ jobs[o[1]].attempt = o[2]
    /\ Fenced(o[1]) \/ (Is(o[1], {"completed"}) /\ jobs[o[1]].keys = o[2])

World ==
    /\ worker # None => HasFence(worker.lease)
    /\ \A o \in Kept : Owned(o)
    /\ \A j \in Jobs : Is(j, Executing) =>
          jobs[j].keys = jobs[j].attempt /\ <<j, jobs[j].attempt, "input">> \in objects

\* What the place of a dispatcher says about the table, the Worker and the store.
Holding == {"input", "target", "keys", "undo", "send", "stream", "finalize"} \cup Draining

\* The places after a sweep.
Swept == {"clearKeys", "clearFence", "clearDone"}

Stands(pc, l) ==
    /\ pc \in Holding => HasFence(l)
    /\ pc \in {"input", "target", "keys", "undo"} => ~Is(l.job, Executing)
    /\ pc \in {"input", "target", "keys", "send", "finalize"} => worker = None
    /\ pc \in {"target", "keys", "send", "stream", "finalize"} => Object(l, "input") \in objects
    /\ pc \in {"send", "stream", "finalize"} => jobs[l.job].keys = l.attempt
    /\ pc \in {"sweepDone", "clearDone"} => Is(l.job, {"completed"})
    /\ pc \in Draining => Is(l.job, Stopped)
    /\ pc \in {"sweep", "clearKeys", "clearFence"} => ~Executes(l)
    /\ pc \in Swept => Kept \cap Staged(l) = {}

\* The request of a dispatcher waits only while its stream is open and empty, and
\* nothing executes; a completion is only read once the slot is free.
Calling(d) ==
    /\ calls \subseteq {[lease |-> disp[d].lease, from |-> d]}
    /\ calls # {} => /\ At(d, "stream") /\ ~disp[d].aborted /\ stream[d] = <<>>
                     /\ worker = None
    /\ At(d, "stream") /\ (\E i \in 1 .. Len(stream[d]) : stream[d][i] = "completed") =>
          worker = None

Alone(d) == World /\ Stands(disp[d].pc, disp[d].lease) /\ Calling(d)

------------------------------------------------------------------------------
(* Statements that do not concern what the place of a dispatcher says.       *)

\* The row keeps lease and keys, a completed row and a fenced stopped one keep
\* their status, and nothing starts to execute.
Calm(j) ==
    /\ Exists(j) =>
          /\ Exists(j)' /\ jobs'[j].attempt = jobs[j].attempt
          /\ jobs'[j].token = jobs[j].token /\ jobs'[j].keys = jobs[j].keys
          /\ Is(j, {"completed"}) => Is(j, {"completed"})'
          /\ Is(j, Stopped) /\ Fenced(j) => Is(j, Stopped)'
    /\ Is(j, Executing)' => Is(j, Executing)

Quiet == \A j \in Jobs : Calm(j)

\* Nothing happened to the table.
LEMMA SameIsQuiet ==
    ASSUME jobs' = jobs
    PROVE  Quiet
BY DEF Quiet, Calm, Exists, Is, Fenced

\* One row was written.
LEMMA WriteIsQuiet ==
    ASSUME TypeOK, NEW j \in Jobs, NEW r \in Rows, Write(j, r),
           Exists(j) =>
             /\ r.attempt = jobs[j].attempt /\ r.token = jobs[j].token /\ r.keys = jobs[j].keys
             /\ jobs[j].status = "completed" => r.status = "completed"
             /\ jobs[j].status \in Stopped /\ jobs[j].token # 0 => r.status \in Stopped,
           r.status \in Executing => Is(j, Executing)
    PROVE  Quiet
<1>1. jobs'[j] = r /\ r # None /\ \A i \in Jobs \ {j} : jobs'[i] = jobs[i]
  BY NullIsNoRow DEF Write, TypeOK
<1>2. Calm(j)
  BY <1>1 DEF Calm, Exists, Is, Fenced
<1>3. \A i \in Jobs \ {j} : Calm(i)
  BY <1>1 DEF Calm, Exists, Is, Fenced
<1> QED
  BY <1>2, <1>3 DEF Quiet

\* One status was written.
LEMMA StatusIsQuiet ==
    ASSUME TypeOK, NEW j \in Jobs, Exists(j), NEW s \in Status,
           Write(j, [jobs[j] EXCEPT !.status = s]),
           jobs[j].status # "completed",
           jobs[j].status \in Stopped /\ jobs[j].token # 0 => s \in Stopped,
           s \in Executing => Is(j, Executing)
    PROVE  Quiet
<1> DEFINE r == [jobs[j] EXCEPT !.status = s]
<1>1. jobs[j] \in Rows
  BY DEF TypeOK, Exists
<1>2. /\ r.status = s /\ r.attempt = jobs[j].attempt /\ r.token = jobs[j].token
      /\ r.keys = jobs[j].keys /\ r \in Rows /\ Write(j, r)
  BY <1>1 DEF Rows
<1> HIDE DEF r
<1> QED
  BY <1>2, WriteIsQuiet

\* Failing or cancelling under a lease, and going on to finalize.
LEMMA MarkIsQuiet ==
    ASSUME TypeOK, NEW l \in granted,
           MarkFailed(l) \/ MarkCancelled(l) \/ MarkFinalizing(l)
    PROVE  Quiet
<1>1. l.job \in Jobs
  BY DEF TypeOK, Leases
<1>2. /\ Exists(l.job) /\ jobs[l.job].status \notin Stopped \cup {"completed"}
      /\ \E s \in Status : /\ Write(l.job, [jobs[l.job] EXCEPT !.status = s])
                           /\ s \in Executing => Is(l.job, Executing)
  BY DEF MarkFailed, MarkCancelled, MarkFinalizing, Transition, Holds, Is, Active, Stopped,
     Status, Executing
<1> QED
  BY <1>1, <1>2, StatusIsQuiet

\* The statement that fails expired rows.
LEMMA ExpiryIsQuiet ==
    ASSUME TypeOK, FailExpired
    PROVE  Quiet
<1>1. ASSUME NEW j \in Jobs
      PROVE  Calm(j)
  <2>1. jobs'[j] = IF Expired(j) THEN [jobs[j] EXCEPT !.status = "failed"] ELSE jobs[j]
    BY DEF FailExpired
  <2>2. CASE Expired(j)
    <3> DEFINE r == [jobs[j] EXCEPT !.status = "failed"]
    <3>1. Exists(j) /\ jobs[j] \in Rows /\ jobs[j].status \in Active
      BY <2>2 DEF Expired, Is, TypeOK, Exists
    <3>2. /\ r.status = "failed" /\ r.attempt = jobs[j].attempt /\ r.token = jobs[j].token
          /\ r.keys = jobs[j].keys /\ r \in Rows
      BY <3>1 DEF Rows, Status, Stopped
    <3>3. jobs'[j] = r /\ r # None
      BY <2>1, <2>2, <3>2, NullIsNoRow
    <3> HIDE DEF r
    <3> QED
      BY <3>1, <3>2, <3>3 DEF Calm, Exists, Is, Fenced, Active, Stopped, Executing
  <2>3. CASE ~Expired(j)
    BY <2>1, <2>3 DEF Calm, Exists, Is, Fenced
  <2> QED BY <2>2, <2>3
<1> QED
  BY <1>1 DEF Quiet

\* What users and the clock do.
LEMMA UserIsQuiet ==
    ASSUME TypeOK, NEW j \in Jobs,
           RequestCancellation(j) \/ Retry(j) \/ LeaseExpires(j)
    PROVE  Quiet
<1>1. ASSUME Exists(j)
      PROVE  jobs[j] \in Rows
  BY <1>1 DEF TypeOK, Exists
<1>2. CASE RequestCancellation(j)
  <2>1. /\ Exists(j) /\ jobs[j].status \notin Stopped \cup {"completed"}
        /\ Write(j, [jobs[j] EXCEPT !.status = "cancelled"])
        /\ "cancelled" \in Status /\ "cancelled" \notin Executing
    BY <1>2 DEF RequestCancellation, Is, Active, Stopped, Status, Executing
  <2> QED BY <2>1, StatusIsQuiet
<1>3. CASE Retry(j)
  <2>1. /\ Exists(j) /\ jobs[j].status # "completed" /\ jobs[j].token = 0
        /\ Write(j, [jobs[j] EXCEPT !.status = "queued"])
        /\ "queued" \in Status /\ "queued" \notin Executing
    BY <1>3 DEF Retry, Is, Active, Stopped, Status, Executing
  <2> QED BY <2>1, StatusIsQuiet
<1>4. CASE LeaseExpires(j)
  <2> DEFINE r == [jobs[j] EXCEPT !.live = FALSE]
  <2>1. Exists(j) /\ Write(j, r)
    BY <1>4 DEF LeaseExpires, Fenced
  <2>2. /\ r.status = jobs[j].status /\ r.attempt = jobs[j].attempt /\ r.keys = jobs[j].keys
        /\ r.token = jobs[j].token /\ r \in Rows
    BY <1>1, <2>1 DEF Rows
  <2> HIDE DEF r
  <2> QED
    BY <2>1, <2>2, WriteIsQuiet DEF Is
<1> QED
  BY <1>2, <1>3, <1>4

\* A job is submitted.
LEMMA SubmitIsQuiet ==
    ASSUME TypeOK, NEW c \in Clients, CreateInsert(c)
    PROVE  Quiet
<1>1. PICK j \in Jobs : ~Exists(j) /\ \E run, ref : Write(j, NewRow(run, ref))
  BY DEF CreateInsert, TypeOK
<1>2. PICK run, ref : Write(j, NewRow(run, ref))
  BY <1>1
<1>3. NewRow(run, ref).status \in {"queued", "completed"}
  BY DEF NewRow
<1>4. jobs'[j] = NewRow(run, ref) /\ \A i \in Jobs \ {j} : jobs'[i] = jobs[i]
  BY <1>2 DEF Write, TypeOK
<1>5. \A i \in Jobs \ {j} : Calm(i)
  BY <1>4 DEF Calm, Exists, Is, Fenced
<1>6. ~Is(j, Executing)'
  BY <1>3, <1>4 DEF Is, Executing
<1>7. Calm(j)
  BY <1>1, <1>6 DEF Calm
<1> QED
  BY <1>5, <1>7 DEF Quiet

------------------------------------------------------------------------------
(* What quiet steps keep.                                                   *)

\* The Worker goes on with the same execution, or has ended it.
SameExecution == worker' = None \/ (worker # None /\ worker'.lease = worker.lease)

\* At most PUTs of attempts with a fence are given up, none of them after a sweep.
GivenUp ==
    /\ objects' = objects
    /\ \A o \in Kept' \ Kept :
          /\ o[1] \in Jobs /\ Owned(o)
          /\ \A d \in Dispatchers : disp'[d].pc \in Swept => o \notin Staged(disp'[d].lease)

\* The objects stay as they were, or such PUTs are given up.
LEMMA StagingStays ==
    ASSUME staging' = staging \/ GivenUp
    PROVE  /\ objects' = objects
           /\ \A o \in Kept' : o \in Kept \/ (o[1] \in Jobs /\ Owned(o))
           /\ \A d \in Dispatchers : disp'[d].pc \in Swept =>
                 Kept' \cap Staged(disp'[d].lease) \subseteq Kept
<1>1. CASE staging' = staging
  BY <1>1 DEF staging, Kept
<1>2. CASE GivenUp
  BY <1>2 DEF GivenUp
<1> QED BY <1>1, <1>2

\* Untouched staging keeps what is there or may land.
LEMMA SameStaging ==
    ASSUME staging' = staging
    PROVE  objects' = objects /\ Kept' = Kept
BY DEF staging, Kept

\* The Worker and the objects still rely on what is so.
LEMMA WorldStays ==
    ASSUME SystemOK, World, Quiet, staging' = staging \/ GivenUp,
           worker' = worker \/ SameExecution
    PROVE  World'
<1>1. worker' # None => worker # None /\ worker'.lease = worker.lease
  BY DEF SameExecution
<1>2. worker # None => worker.lease.job \in Jobs
  BY DEF SystemOK, TableOK, WorkerOK, TypeOK, Leases
<1>3. worker' # None => HasFence(worker.lease)'
  BY <1>1, <1>2 DEF World, HasFence, Quiet, Calm
<1>4. ASSUME NEW o \in Kept'
      PROVE  Owned(o)'
  <2>1. o[1] \in Jobs /\ Owned(o)
    BY StagingStays DEF SystemOK, ObjectsOK, Kept, World
  <2>2. Owned(o) /\ Exists(o[1]) /\ Calm(o[1])
    BY <2>1 DEF Owned, Fenced, Is, Quiet
  <2> QED
    BY <2>2 DEF Owned, Calm, Fenced
<1>5. ASSUME NEW j \in Jobs, Is(j, Executing)'
      PROVE  jobs'[j].keys = jobs'[j].attempt /\ <<j, jobs'[j].attempt, "input">> \in objects'
  <2>1. Is(j, Executing) /\ Exists(j) /\ Calm(j)
    BY <1>5 DEF Quiet, Calm, Is
  <2> QED
    BY <2>1, StagingStays DEF World, Calm
<1> QED
  BY <1>3, <1>4, <1>5 DEF World

\* What a place says of a lease stays true.
LEMMA PlaceStays ==
    ASSUME SystemOK, Quiet, staging' = staging \/ GivenUp, worker' = worker \/ SameExecution,
           NEW d \in Dispatchers, NEW pc, NEW l, disp'[d].pc = pc, disp'[d].lease = l,
           pc \in Working => l \in granted, Stands(pc, l)
    PROVE  Stands(pc, l)'
<1>1. {"final"} \cup Processing \cup Draining = Working
  BY DEF Working
<1>2. pc \in Holding \cup {"sweepDone", "clearDone"} => pc \in Working
  BY DEF Holding, Working, Processing
<1>3. pc \in Working => l.job \in Jobs /\ l.token # 0 /\ Calm(l.job)
  BY DEF SystemOK, TableOK, TypeOK, Leases, FencesAreGranted, Quiet
<1>4. pc \in Holding => HasFence(l)'
  BY <1>2, <1>3 DEF Stands, HasFence, Calm
<1>5. pc \in {"input", "target", "keys", "undo"} => ~Is(l.job, Executing)'
  BY <1>2, <1>3 DEF Stands, Calm, Holding
<1>6. pc \in {"input", "target", "keys", "send", "finalize"} => worker' = None
  BY DEF Stands, SameExecution
<1>7. pc \in {"target", "keys", "send", "stream", "finalize"} => Object(l, "input")' \in objects'
  BY StagingStays DEF Stands, Object
<1>8. pc \in {"send", "stream", "finalize"} => jobs'[l.job].keys = l.attempt
  BY <1>2, <1>3 DEF Stands, HasFence, Calm, Holding
<1>9. pc \in {"sweepDone", "clearDone"} => Is(l.job, {"completed"})'
  BY <1>2, <1>3 DEF Stands, Calm, Is
<1>10. pc \in Draining => Is(l.job, Stopped)'
  BY <1>2, <1>3 DEF Stands, HasFence, Calm, Holding, Fenced
<1>11. pc \in {"sweep", "clearKeys", "clearFence"} => ~Executes(l)'
  BY DEF Stands, Executes, SameExecution
<1>12. pc \in Swept => Kept' \cap Staged(l)' = {}
  <2>1. pc \in Swept => Kept' \cap Staged(l) \subseteq Kept
    BY StagingStays
  <2> QED BY <2>1 DEF Stands, Staged, Object
<1> QED
  BY <1>4, <1>5, <1>6, <1>7, <1>8, <1>9, <1>10, <1>11, <1>12 DEF Stands

\* A dispatcher that goes on with its lease stands at the new place.
LEMMA GotoFacts ==
    ASSUME SystemOK, NEW d \in Dispatchers, NEW pc, Goto(d, pc)
    PROVE  disp'[d].pc = pc /\ disp'[d].lease = disp[d].lease
           /\ disp'[d].aborted = disp[d].aborted
<1>1. disp \in [Dispatchers -> Standing] /\ disp[d] \in Standing
  BY DEF SystemOK, DispatchersOK
<1>2. [disp[d] EXCEPT !.pc = pc].pc = pc /\ [disp[d] EXCEPT !.pc = pc].lease = disp[d].lease
      /\ [disp[d] EXCEPT !.pc = pc].aborted = disp[d].aborted
  BY <1>1 DEF Standing
<1>3. disp'[d] = [disp[d] EXCEPT !.pc = pc]
  BY <1>1 DEF Goto
<1> QED
  BY <1>2, <1>3

\* A request waits only at an open and empty stream with a free slot.
LEMMA NoCalls ==
    ASSUME NEW d, Calling(d),
           \/ disp[d].pc # "stream" \/ disp[d].aborted \/ stream[d] # <<>> \/ worker # None
    PROVE  calls = {}
BY DEF Calling, At

\* Places that say nothing.
Free == {"loop", "scan", "claim", "down", "final", "error"}

\* A dispatcher comes to a place off the stream, in a quiet step.
LEMMA CalmMove ==
    ASSUME SystemOK, World, Quiet, staging' = staging \/ GivenUp,
           worker' = worker \/ SameExecution, calls' = {}, NEW d \in Dispatchers, NEW pc, NEW l,
           disp'[d].pc = pc, disp'[d].lease = l, pc # "stream",
           pc \in Working => l \in granted, Stands(pc, l)
    PROVE  Alone(d)'
<1>1. World'
  BY WorldStays
<1>2. Stands(pc, l)'
  BY PlaceStays
<1>3. Calling(d)'
  BY DEF Calling, At
<1> QED
  BY <1>1, <1>2, <1>3 DEF Alone

\* The same to a place that says nothing.
LEMMA CalmLeave ==
    ASSUME SystemOK, SystemOK', World, Quiet, staging' = staging \/ GivenUp,
           worker' = worker \/ SameExecution,
           calls' = {}, NEW d \in Dispatchers, disp'[d].pc \in Free
    PROVE  Alone(d)'
<1>1. World'
  BY WorldStays
<1>2. \A l : \A pc \in Free : Stands(pc, l)'
  BY DEF Free, Stands, Holding, Draining, Swept
<1>3. Calling(d)'
  BY DEF Calling, At, Free
<1> QED
  BY <1>1, <1>2, <1>3 DEF Alone

------------------------------------------------------------------------------
(* The steps of the dispatcher that leave objects and slot alone.           *)

\* What is known of the lease at a place of work.
LEMMA LeaseFacts ==
    ASSUME SystemOK, NEW d \in Dispatchers, disp[d].pc \in Working
    PROVE  /\ disp[d].lease \in granted /\ disp[d].lease \in Leases
           /\ disp[d].lease.job \in Jobs /\ disp[d].lease.token # 0
BY DEF SystemOK, DispatchersOK, LeasesAreGranted, TableOK, TypeOK, FencesAreGranted, Leases

\* The steps that end an attempt, or the round, and write at most a status.
LEMMA LeavesKeep ==
    ASSUME SystemOK, SystemOK', NEW d \in Dispatchers, Alone(d),
           \/ FailExpiredLeases(d) \/ Unsupported(d) \/ HandleEnded(d) \/ HandleBroken(d)
           \/ StreamAborted(d) \/ HandleExecutionError(d) \/ Exit(d) \/ Start(d)
    PROVE  Alone(d)'
<1>1. World /\ Calling(d) /\ TypeOK /\ disp \in [Dispatchers -> Standing]
  BY DEF Alone, SystemOK, TableOK, DispatchersOK
<1>2. /\ staging' = staging /\ worker' = worker /\ calls' = calls
      /\ \/ disp[d].pc # "stream" \/ disp[d].aborted \/ stream[d] # <<>>
  BY DEF FailExpiredLeases, Unsupported, HandleEnded, HandleBroken, Handle, StreamAborted,
     HandleExecutionError, Exit, Start, At, Stays
<1>3. calls' = {}
  BY <1>1, <1>2, NoCalls
<1>4. disp'[d].pc \in Free
  <2>1. (\E pc \in Free : Goto(d, pc)) => disp'[d].pc \in Free
    BY GotoFacts
  <2>2. Exit(d) \/ Start(d) => disp'[d].pc \in Free
    BY <1>1 DEF Exit, Start, Looping, Free
  <2> QED
    BY <2>1, <2>2 DEF FailExpiredLeases, Unsupported, HandleEnded, HandleBroken,
       StreamAborted, HandleExecutionError, Free
<1>5. Quiet
  <2>1. CASE FailExpired
    BY <1>1, <2>1, ExpiryIsQuiet
  <2>2. CASE UNCHANGED table
    BY <2>2, SameIsQuiet DEF table
  <2>3. CASE Unsupported(d) \/ HandleEnded(d) \/ HandleExecutionError(d)
    <3>1. disp[d].lease \in granted
      BY <2>3, LeaseFacts DEF Unsupported, HandleEnded, HandleExecutionError, Handle, At,
         Working, Processing
    <3>2. MarkFailed(disp[d].lease) \/ MarkCancelled(disp[d].lease) \/ UNCHANGED table
      BY <2>3 DEF Unsupported, HandleEnded, HandleExecutionError, IfHeld
    <3> QED
      BY <1>1, <2>2, <3>1, <3>2, MarkIsQuiet
  <2> QED
    BY <2>1, <2>2, <2>3 DEF FailExpiredLeases, HandleBroken, StreamAborted, Exit, Start
<1> QED
  BY <1>1, <1>2, <1>3, <1>4, <1>5, CalmLeave

\* A fence is taken up, or there is none: after the sweep, and after an attempt.
LEMMA FenceFoundKeeps ==
    ASSUME SystemOK, SystemOK', NEW d \in Dispatchers, Alone(d), FindFence(d) \/ Reread(d)
    PROVE  Alone(d)'
<1>1. /\ World /\ Calling(d) /\ disp \in [Dispatchers -> Standing]
      /\ staging' = staging /\ worker' = worker /\ calls' = calls /\ Quiet
      /\ disp[d].pc # "stream" /\ disp[d].pc \in {"scan", "final"}
  BY SameIsQuiet DEF Alone, SystemOK, DispatchersOK, FindFence, Reread, At, Stays, table
<1>2. calls' = {}
  BY <1>1, NoCalls
<1>3. CASE Goto(d, "claim") \/ Goto(d, "loop")
  <2>1. disp'[d].pc \in Free
    BY <1>3, GotoFacts DEF Free
  <2> QED BY <1>1, <1>2, <2>1, CalmLeave
<1>4. ASSUME NEW j \in Jobs, Is(j, Stopped), Fenced(j), Drain(d, j, "cancel")
      PROVE  Alone(d)'
  <2>1. PICK l : l = LeaseOf(j)
    OBVIOUS
  <2>2. l \in granted /\ l.job = j /\ l.attempt = jobs[j].attempt /\ l.token = jobs[j].token
    BY <1>4, <2>1 DEF SystemOK, TableOK, FencesAreGranted, LeaseOf
  <2>3. disp'[d].pc = "cancel" /\ disp'[d].lease = l
    BY <1>1, <1>4, <2>1 DEF Drain, LeaseOf, Standing
  <2>4. Stands("cancel", l)
    BY <1>4, <2>2 DEF Stands, HasFence, Fenced, Draining, Swept
  <2> QED
    BY <1>1, <1>2, <2>2, <2>3, <2>4, CalmMove
<1>5. disp[d].pc = "final" => disp[d].lease.job \in Jobs
  BY LeaseFacts DEF Working
<1>6. \/ Goto(d, "claim") \/ Goto(d, "loop")
      \/ \E j \in Jobs : Is(j, Stopped) /\ Fenced(j) /\ Drain(d, j, "cancel")
  BY <1>5 DEF FindFence, Reread, At
<1> QED
  BY <1>3, <1>4, <1>6

\* The output target is signed once no output is there.
LEMMA CreateOutputTargetKeeps ==
    ASSUME SystemOK, NEW d \in Dispatchers, Alone(d), CreateOutputTarget(d)
    PROVE  Alone(d)'
<1>1. PICK l : l = disp[d].lease
  OBVIOUS
<1>2. /\ World /\ Stands("target", l) /\ Calling(d) /\ disp[d].pc = "target"
      /\ staging' = staging /\ worker' = worker /\ calls' = calls /\ Quiet
      /\ Goto(d, "keys") \/ Goto(d, "undo")
  BY <1>1, SameIsQuiet DEF Alone, CreateOutputTarget, At, Stays, table
<1>3. calls' = {} /\ l \in granted
  BY <1>1, <1>2, NoCalls, LeaseFacts DEF Working, Processing
<1>4. Stands("keys", l) /\ Stands("undo", l)
  BY <1>2 DEF Stands, Holding, Draining, Swept
<1> QED
  BY <1>1, <1>2, <1>3, <1>4, GotoFacts, CalmMove

\* A cancelled execution is waited for.
LEMMA CancelKeeps ==
    ASSUME SystemOK, SystemOK', NEW d \in Dispatchers, Alone(d),
           CancelExecution(d) \/ AwaitStopped(d)
    PROVE  Alone(d)'
<1>1. PICK l : l = disp[d].lease
  OBVIOUS
<1>2. PICK pc \in {"cancel", "await"} : disp[d].pc = pc
  BY DEF CancelExecution, AwaitStopped, At
<1>3. /\ World /\ Stands(pc, l) /\ Calling(d)
      /\ staging' = staging /\ calls' = calls /\ Quiet
  BY <1>1, <1>2, SameIsQuiet DEF Alone, CancelExecution, AwaitStopped, Stays, table
<1>4. calls' = {} /\ l \in granted
  BY <1>1, <1>2, <1>3, NoCalls, LeaseFacts DEF Working, Draining
<1>5. worker' = worker \/ SameExecution
  <2>1. worker # None => worker \in Executions
    BY DEF SystemOK, WorkerOK
  <2> QED
    BY <2>1 DEF CancelExecution, AwaitStopped, Stays, SameExecution, Executes, Executions
<1>6. CASE Goto(d, "loop")
  <2>1. disp'[d].pc \in Free
    BY <1>6, GotoFacts DEF Free
  <2> QED BY <1>3, <1>4, <1>5, <2>1, CalmLeave
<1>7. CASE Goto(d, "await")
  <2>1. Stands("await", l)
    BY <1>3 DEF Stands, Holding, Draining, Swept
  <2> QED BY <1>1, <1>3, <1>4, <1>5, <1>7, <2>1, GotoFacts, CalmMove
<1>8. CASE Goto(d, "sweep") /\ ~Executes(l)
  <2>1. Stands("sweep", l)
    BY <1>3, <1>8 DEF Stands, Holding, Draining, Swept
  <2> QED BY <1>1, <1>3, <1>4, <1>5, <1>8, <2>1, GotoFacts, CalmMove
<1> QED
  BY <1>1, <1>6, <1>7, <1>8 DEF CancelExecution, AwaitStopped

------------------------------------------------------------------------------
(* Reading the stream, hanging up, and the steps of the Worker.             *)

\* A quiet step after which the dispatcher stands where it stood.
LEMMA StandsStill ==
    ASSUME SystemOK, NEW d \in Dispatchers, Alone(d), Quiet, staging' = staging \/ GivenUp,
           worker' = worker \/ SameExecution,
           disp'[d].pc = disp[d].pc, disp'[d].lease = disp[d].lease, Calling(d)'
    PROVE  Alone(d)'
<1>1. PICK l, pc : l = disp[d].lease /\ pc = disp[d].pc
  OBVIOUS
<1>2. World' /\ (pc \in Working => l \in granted) /\ Stands(pc, l)
  BY <1>1, WorldStays DEF Alone, SystemOK, DispatchersOK, LeasesAreGranted
<1>3. Stands(pc, l)'
  BY <1>1, <1>2, PlaceStays
<1> QED
  BY <1>1, <1>2, <1>3 DEF Alone

\* Users, the clock, and steps of nobody.
LEMMA OthersKeep ==
    ASSUME SystemOK, NEW d \in Dispatchers, Alone(d),
           (\E j \in Jobs : Expire(j)) \/ User \/ UNCHANGED system
    PROVE  Alone(d)'
<1>1. TypeOK /\ UNCHANGED dvars
  BY DEF SystemOK, TableOK, Expire, User, system
<1>2. Quiet
  <2>1. CASE jobs' = jobs
    BY <2>1, SameIsQuiet
  <2>2. CASE \E j \in Jobs : RequestCancellation(j) \/ Retry(j) \/ LeaseExpires(j)
    BY <1>1, <2>2, UserIsQuiet
  <2>3. CASE \E c \in Clients : CreateInsert(c)
    BY <1>1, <2>3, SubmitIsQuiet
  <2> QED
    BY <2>1, <2>2, <2>3 DEF Expire, User, system, table, CreateBegin
<1>3. Calling(d)'
  BY <1>1 DEF Alone, Calling, At, dvars
<1> QED
  BY <1>1, <1>2, <1>3, StandsStill DEF dvars

\* What is left of a stream was in it.
LEMMA TailIsOlder ==
    ASSUME NEW s \in Seq(Events), s # <<>>,
           \E i \in 1 .. Len(Tail(s)) : Tail(s)[i] = "completed"
    PROVE  \E i \in 1 .. Len(s) : s[i] = "completed"
<1>1. PICK i \in 1 .. Len(Tail(s)) : Tail(s)[i] = "completed"
  OBVIOUS
<1>2. i + 1 \in 1 .. Len(s) /\ Tail(s)[i] = s[i + 1]
  BY <1>1
<1> QED
  BY <1>1, <1>2

\* An event is read.
LEMMA HandleFacts ==
    ASSUME SystemOK, NEW d \in Dispatchers, Alone(d), NEW event, Handle(d, event)
    PROVE  /\ calls' = {} /\ worker' = worker /\ staging' = staging
           /\ disp[d].pc = "stream" /\ stream[d] \in Seq(Events) /\ stream[d] # <<>>
           /\ stream'[d] = Tail(stream[d]) /\ Head(stream[d]) = event
           /\ event = "completed" => worker = None
           /\ (\E i \in 1 .. Len(stream'[d]) : stream'[d][i] = "completed") => worker = None
           /\ disp[d].lease \in granted
<1>1. /\ stream \in [Dispatchers -> Seq(Events)] /\ Calling(d)
      /\ calls' = calls /\ worker' = worker /\ staging' = staging
      /\ disp[d].pc = "stream" /\ stream[d] # <<>> /\ Head(stream[d]) = event
      /\ stream' = [stream EXCEPT ![d] = Tail(@)]
  BY DEF SystemOK, WorkerOK, Alone, Handle, At
<1>2. calls = {}
  BY <1>1, NoCalls
<1>3. stream[d] \in Seq(Events) /\ stream'[d] = Tail(stream[d])
  BY <1>1
<1>4. (\E i \in 1 .. Len(stream[d]) : stream[d][i] = "completed") => worker = None
  BY <1>1 DEF Calling, At
<1>5. event = "completed" => worker = None
  <2>1. 1 \in 1 .. Len(stream[d]) /\ stream[d][1] = Head(stream[d])
    BY <1>1, <1>3
  <2> QED BY <1>1, <1>4, <2>1
<1>6. (\E i \in 1 .. Len(stream'[d]) : stream'[d][i] = "completed") => worker = None
  BY <1>1, <1>3, <1>4, TailIsOlder
<1>7. disp[d].lease \in granted
  BY <1>1, LeaseFacts DEF Working, Processing
<1> QED
  BY <1>1, <1>2, <1>3, <1>5, <1>6, <1>7

\* Progress is reported, or a handler finds the lease lost.
LEMMA ReadKeeps ==
    ASSUME SystemOK, SystemOK', NEW d \in Dispatchers, Alone(d), NEW event, Handle(d, event),
           UNCHANGED table, disp' = disp \/ LoseLease(d)
    PROVE  Alone(d)'
<1>1. Quiet /\ World /\ disp \in [Dispatchers -> Standing]
  BY SameIsQuiet DEF table, Alone, SystemOK, DispatchersOK
<1>2. CASE disp' = disp
  <2>1. Calling(d)'
    BY <1>2, HandleFacts DEF Calling, At
  <2> QED BY <1>1, <1>2, <2>1, HandleFacts, StandsStill
<1>3. CASE LoseLease(d)
  <2>1. disp'[d].pc \in Free
    BY <1>1, <1>3 DEF LoseLease, Free, Standing
  <2> QED BY <1>1, <2>1, HandleFacts, CalmLeave
<1> QED BY <1>2, <1>3

\* The completed event is only read once the slot is free.
LEMMA HandleCompletedKeeps ==
    ASSUME SystemOK, SystemOK', NEW d \in Dispatchers, Alone(d), HandleCompleted(d)
    PROVE  Alone(d)'
<1>1. PICK l : l = disp[d].lease
  OBVIOUS
<1>2. Handle(d, "completed")
  BY DEF HandleCompleted
<1>3. CASE MarkFinalizing(l) /\ Goto(d, "finalize")
  <2>1. l \in granted
    BY <1>1, <1>2, HandleFacts
  <2>2. World /\ Stands("stream", l) /\ Quiet
    BY <1>1, <1>2, <1>3, <2>1, HandleFacts, MarkIsQuiet DEF Alone, SystemOK, TableOK
  <2>3. Stands("finalize", l)
    BY <1>2, <2>2, HandleFacts DEF Stands, Holding, Draining, Swept
  <2> QED
    BY <1>1, <1>2, <1>3, <2>1, <2>2, <2>3, HandleFacts, GotoFacts, CalmMove
<1>4. CASE UNCHANGED table /\ LoseLease(d)
  BY <1>2, <1>4, ReadKeeps
<1> QED
  BY <1>1, <1>3, <1>4 DEF HandleCompleted

\* The call ends with its caller; a stop cancels the job first.
LEMMA HangupKeeps ==
    ASSUME SystemOK, SystemOK', NEW d \in Dispatchers, Dispatchers = {d}, Alone(d),
           RenewalFails(d) \/ Crash(d) \/ Stop(d)
    PROVE  Alone(d)'
<1>1. /\ World /\ Calling(d) /\ TypeOK /\ disp \in [Dispatchers -> Standing]
      /\ disp[d] \in Standing
      /\ worker # None => worker \in Executions
  BY DEF Alone, SystemOK, TableOK, DispatchersOK, WorkerOK
<1>2. ASSUME Hangup(d)
      PROVE  calls' = {} /\ (worker' = worker \/ SameExecution)
  BY <1>1, <1>2 DEF Hangup, Calling, SameExecution, Executions
<1>3. CASE Crash(d)
  <2>1. disp'[d].pc = "down" /\ Quiet
    BY <1>1, <1>3, SameIsQuiet DEF Crash, Looping, table
  <2>2. CASE ~At(d, "input")
    <3>1. staging' = staging
      BY <1>3, <2>2 DEF Crash, staging
    <3> QED BY <1>1, <1>2, <1>3, <2>1, <3>1, CalmLeave DEF Crash, Free
  <2>3. CASE At(d, "input")
    <3>1. PICK l : l = disp[d].lease
      OBVIOUS
    <3>2. l \in granted /\ l.job \in Jobs /\ l.token # 0 /\ HasFence(l)
      BY <2>3, <3>1, LeaseFacts DEF At, Working, Processing, Alone, Stands, Holding
    <3>3. Owned(Object(l, "input")) /\ Object(l, "input")[1] \in Jobs
      BY <3>2 DEF Owned, Object, HasFence, Fenced
    <3>4. objects' = objects /\ Kept' \subseteq Kept \cup {Object(l, "input")}
      BY <1>3, <2>3, <3>1 DEF Crash, MayLand, Kept
    <3>5. \A e \in Dispatchers : disp'[e].pc \notin Swept
      BY <2>1 DEF Swept
    <3>6. GivenUp
      BY <3>3, <3>4, <3>5 DEF GivenUp
    <3> QED BY <1>1, <1>2, <1>3, <2>1, <3>6, CalmLeave DEF Crash, Free
  <2> QED BY <2>2, <2>3
<1>4. ASSUME RenewalFails(d) \/ Stop(d)
      PROVE  /\ disp'[d].pc = disp[d].pc /\ disp'[d].lease = disp[d].lease
             /\ stream' = stream /\ staging' = staging
  BY <1>1, <1>4 DEF RenewalFails, Stop, Standing
<1>5. ASSUME Hangup(d), stream' = stream, disp'[d].pc = disp[d].pc
      PROVE  Calling(d)'
  <2>1. worker = None => worker' = None
    BY <1>5 DEF Hangup
  <2> QED BY <1>1, <1>2, <1>5, <2>1 DEF Calling, At
<1>6. CASE RenewalFails(d)
  BY <1>2, <1>4, <1>5, <1>6, SameIsQuiet, StandsStill DEF RenewalFails, table
<1>7. CASE Stop(d) /\ disp[d].pc \in Processing
  <2>1. disp[d].lease.job \in Jobs /\ Hangup(d)
    BY <1>7, LeaseFacts DEF Working, Stop
  <2>2. Quiet
    BY <1>1, <1>7, <2>1, SameIsQuiet, UserIsQuiet DEF Stop, table
  <2> QED BY <1>2, <1>4, <1>5, <1>7, <2>1, <2>2, StandsStill
<1>8. CASE Stop(d) /\ disp[d].pc \notin Processing
  <2>1. worker' = worker /\ calls' = calls /\ UNCHANGED table
    BY <1>8 DEF Stop
  <2>2. disp[d].pc # "stream"
    BY <1>8 DEF Processing
  <2>3. Calling(d)'
    BY <1>1, <1>4, <1>8, <2>1, <2>2, NoCalls DEF Calling, At
  <2> QED BY <1>4, <1>8, <2>1, <2>3, SameIsQuiet, StandsStill DEF table
<1> QED
  BY <1>3, <1>6, <1>7, <1>8

\* The request is taken by the free slot: the lease it carries has the fence.
LEMMA RunJobKeeps ==
    ASSUME SystemOK, SystemOK', NEW d \in Dispatchers, Alone(d), NEW c \in calls, RunJob(c)
    PROVE  Alone(d)'
<1>1. PICK l : l = disp[d].lease
  OBVIOUS
<1>2. /\ World /\ Stands("stream", l) /\ Quiet /\ staging' = staging /\ disp' = disp
      /\ objects' = objects /\ Kept' = Kept
      /\ calls = {c} /\ c.lease = l /\ c.from = d /\ disp[d].pc = "stream" /\ worker = None
      /\ stream[d] = <<>> /\ stream \in [Dispatchers -> Seq(Events)]
  BY <1>1, SameIsQuiet DEF Alone, Calling, At, RunJob, table, SystemOK, WorkerOK, staging, Kept
<1>3. l \in granted /\ l.job \in Jobs
  BY <1>1, <1>2, LeaseFacts DEF Working, Processing
<1>4. worker' # None => worker'.lease = l
  BY <1>2 DEF RunJob
<1>5. calls' = {} /\ stream'[d] = Append(stream[d], "started")
  BY <1>1, <1>2 DEF RunJob, Push, At
<1>6. Calling(d)'
  <2>1. Append(stream[d], "started") = <<"started">>
    BY <1>2
  <2> QED BY <1>5, <2>1 DEF Calling
<1>7. HasFence(l)'
  BY <1>2, <1>3 DEF Stands, HasFence, Holding, Quiet, Calm
<1>8. World'
  <2>1. worker' = None => World'
    BY <1>2, WorldStays DEF SameExecution
  <2>2. ASSUME worker' # None
        PROVE  World'
    <3>1. jobs' = jobs
      BY DEF RunJob, table
    <3>2. HasFence(worker.lease)'
      BY <1>4, <1>7, <2>2 DEF HasFence, Exists
    <3> QED
      BY <1>2, <3>1, <3>2 DEF World, Owned, Fenced, Is, Exists
  <2> QED BY <2>1, <2>2
<1>9. Stands("stream", l)'
  BY <1>2, <1>7 DEF Stands, HasFence, Holding, Draining, Swept, Object, RunJob, table, Exists
<1> QED
  BY <1>1, <1>2, <1>6, <1>8, <1>9 DEF Alone

\* A push adds at most one event to what the dispatcher has to read.
LEMMA PushFacts ==
    ASSUME SystemOK, NEW d \in Dispatchers, Calling(d), NEW e \in Dispatchers, NEW l,
           NEW event \in Events, Push(e, l, event), calls = {}, calls' = {},
           disp'[d].pc \in {disp[d].pc, "loop"},
           event = "completed" => worker' = None,
           worker' = None \/ worker # None
    PROVE  Calling(d)'
<1>1. stream \in [Dispatchers -> Seq(Events)] /\ stream[d] \in Seq(Events)
  BY DEF SystemOK, WorkerOK
<1>2. stream'[d] = stream[d] \/ stream'[d] = Append(stream[d], event)
  BY <1>1 DEF Push
<1>3. ASSUME NEW i \in 1 .. Len(stream'[d]), stream'[d][i] = "completed", worker' # None
      PROVE  \E k \in 1 .. Len(stream[d]) : stream[d][k] = "completed"
  <2>1. CASE stream'[d] = stream[d]
    BY <1>3, <2>1
  <2>2. CASE stream'[d] = Append(stream[d], event)
    <3>1. event # "completed"
      BY <1>3
    <3>2. i \in 1 .. Len(stream[d]) + 1 /\ Len(stream[d]) \in Nat
      BY <1>1, <1>3, <2>2
    <3>3. CASE i = Len(stream[d]) + 1
      BY <1>1, <1>3, <2>2, <3>1, <3>3
    <3>4. CASE i \in 1 .. Len(stream[d])
      BY <1>1, <1>3, <2>2, <3>4
    <3> QED BY <3>2, <3>3, <3>4
  <2> QED BY <1>2, <2>1, <2>2
<1> QED
  BY <1>3 DEF Calling, At

\* A completed row has no fence.
LEMMA CompletedIsFree ==
    ASSUME SystemOK, NEW j \in Jobs, Is(j, {"completed"})
    PROVE  jobs[j].token = 0
<1>1. Exists(j) /\ jobs[j].status = "completed" /\ GoodRow(j, jobs[j], runs[j])
  BY DEF SystemOK, TableOK, Outcome, GoodRows, Is
<1>2. (jobs[j].status \in Active) = (jobs[j].token # 0) \/ jobs[j].status \in Stopped
  BY <1>1 DEF GoodRow, RowChecks, StatusChecks, ResultRefCheck
<1> QED
  BY <1>1, <1>2 DEF Active, Stopped

\* The Worker does not execute an attempt that was swept.
LEMMA ExecutesElsewhere ==
    ASSUME SystemOK, World, worker # None, NEW pc \in Swept, NEW l, Stands(pc, l)
    PROVE  Object(worker.lease, "output") \notin Staged(l)
<1>1. PICK m : m = worker.lease
  OBVIOUS
<1>2. HasFence(m) /\ m.token # 0 /\ m.job \in Jobs
  BY <1>1 DEF World, SystemOK, WorkerOK, TableOK, FencesAreGranted, TypeOK, Leases
<1>3. pc \in {"clearKeys", "clearFence"} => m.job # l.job \/ m.attempt # l.attempt
  BY <1>1 DEF Stands, Executes
<1>4. pc = "clearDone" => m.job # l.job
  BY <1>2, CompletedIsFree DEF Stands, HasFence
<1> QED BY <1>1, <1>3, <1>4 DEF Staged, Object, Swept

\* The execution in the slot reads its input, notices that its caller is gone,
\* ends, or is lost with the Worker.
LEMMA SlotKeeps ==
    ASSUME SystemOK, SystemOK', NEW d \in Dispatchers, Dispatchers = {d}, Alone(d),
           Download \/ End \/ NoticeHangup \/ WorkerCrash
    PROVE  Alone(d)'
<1>1. /\ Quiet /\ worker # None /\ worker \in Executions /\ Calling(d) /\ World
      /\ calls' = calls /\ disp \in [Dispatchers -> Standing] /\ disp[d] \in Standing
  BY SameIsQuiet DEF Download, End, NoticeHangup, WorkerCrash, SystemOK, WorkerOK, Alone, table,
     DispatchersOK
<1>2. calls = {} /\ SameExecution /\ worker.from \in Dispatchers
  BY <1>1, NoCalls DEF Download, End, NoticeHangup, WorkerCrash, SameExecution, Executions
<1>s. ASSUME disp'[d] = disp[d] \/ disp'[d].pc = "loop"
      PROVE  staging' = staging \/ GivenUp
  <2>1. CASE LeavesUpload
    <3>1. PICK o : o = Object(worker.lease, "output")
      OBVIOUS
    <3>2. worker.lease.job \in Jobs /\ worker.lease.token # 0 /\ HasFence(worker.lease)
      BY <1>1 DEF World, SystemOK, WorkerOK, TableOK, FencesAreGranted, TypeOK, Leases
    <3>3. Owned(o) /\ o[1] \in Jobs
      BY <3>1, <3>2 DEF Owned, Object, HasFence, Fenced
    <3>4. objects' = objects /\ Kept' \subseteq Kept \cup {o}
      BY <2>1, <3>1 DEF LeavesUpload, MayLand, Kept
    <3>5. disp'[d].pc \in Swept => o \notin Staged(disp'[d].lease)
      <4>1. CASE disp'[d] = disp[d]
        BY <1>1, <3>1, <4>1, ExecutesElsewhere DEF Alone
      <4> QED BY <1>s, <4>1 DEF Swept
    <3> QED BY <3>3, <3>4, <3>5 DEF GivenUp
  <2>2. CASE ~LeavesUpload
    BY <2>2 DEF Download, End, NoticeHangup, WorkerCrash
  <2> QED BY <2>1, <2>2
<1>3. CASE Download \/ End \/ NoticeHangup
  <2>1. disp' = disp /\ (staging' = staging \/ GivenUp)
    BY <1>3, <1>s DEF Download, End, NoticeHangup
  <2>2. Calling(d)'
    <3>1. CASE NoticeHangup
      BY <1>1, <1>2, <3>1 DEF NoticeHangup, Calling, At
    <3>2. ASSUME NEW event \in Events, Push(worker.from, worker.lease, event),
                 event = "completed" => worker' = None
          PROVE  Calling(d)'
      BY <1>1, <1>2, <2>1, <3>2, PushFacts
    <3> QED BY <1>3, <3>1, <3>2 DEF Download, End, Events
  <2> QED BY <1>1, <1>2, <2>1, <2>2, StandsStill
<1>4. CASE WorkerCrash
  <2>1. /\ disp'[d] = disp[d] \/ disp'[d] = [disp[d] EXCEPT !.pc = "loop"]
        /\ Push(worker.from, worker.lease, "broken") /\ worker' = None
    BY <1>4 DEF WorkerCrash
  <2>2. /\ disp'[d].pc \in {disp[d].pc, "loop"} /\ disp'[d].lease = disp[d].lease
        /\ staging' = staging \/ GivenUp
    BY <1>1, <1>s, <2>1 DEF Standing
  <2>3. Calling(d)'
    BY <1>1, <1>2, <2>1, <2>2, PushFacts DEF Events
  <2>4. CASE disp'[d].pc = "loop"
    BY <1>1, <1>2, <2>2, <2>4, CalmLeave DEF Free
  <2>5. CASE disp'[d].pc = disp[d].pc
    BY <1>1, <1>2, <2>2, <2>3, <2>5, StandsStill
  <2> QED BY <2>2, <2>4, <2>5
<1> QED
  BY <1>3, <1>4

\* A PUT lands: what is there or still lands is the same.
LEMMA LandKeeps ==
    ASSUME NEW d \in Dispatchers, Alone(d), Land
    PROVE  Alone(d)'
<1>1. /\ UNCHANGED <<table, calls, worker, stream, disp>>
      /\ objects \subseteq objects' /\ Kept' = Kept
  BY DEF Land, Stays, Kept
<1>2. PICK l, pc : l = disp[d].lease /\ pc = disp[d].pc
  OBVIOUS
<1>3. World /\ Calling(d) /\ Stands(pc, l) /\ jobs' = jobs
  BY <1>1, <1>2 DEF Alone, table
<1>4. World'
  BY <1>1, <1>3 DEF World, HasFence, Owned, Fenced, Is, Exists
<1>5. Calling(d)'
  BY <1>1, <1>3 DEF Calling, At
<1>6. Stands(pc, l)'
  BY <1>1, <1>3 DEF Stands, HasFence, Is, Exists, Executes, Object, Staged
<1> QED
  BY <1>1, <1>2, <1>4, <1>5, <1>6 DEF Alone

------------------------------------------------------------------------------
(* The steps that create and delete objects.                                *)

\* An object of an attempt with the fence is added.
LEMMA AddedObject ==
    ASSUME SystemOK, World, jobs' = jobs, worker' = worker \/ SameExecution,
           NEW l \in granted, HasFence(l), NEW name,
           objects \subseteq objects', Kept' \subseteq Kept \cup {Object(l, name)}
    PROVE  World'
<1>1. worker' # None => worker # None /\ worker'.lease = worker.lease
  BY DEF SameExecution
<1>2. worker' # None => HasFence(worker.lease)'
  BY <1>1 DEF World, HasFence, Exists
<1>3. Owned(Object(l, name))
  BY DEF Owned, Object, HasFence, Fenced, SystemOK, TableOK, FencesAreGranted
<1>4. \A o \in Kept' : Owned(o)'
  BY <1>3 DEF World, Owned, Fenced, Is, Exists
<1>5. \A j \in Jobs : Is(j, Executing)' =>
          jobs'[j].keys = jobs'[j].attempt /\ <<j, jobs'[j].attempt, "input">> \in objects'
  BY DEF World, Is, Exists
<1> QED
  BY <1>2, <1>4, <1>5 DEF World

\* Objects of an attempt are deleted whose job does not execute.
LEMMA DeletedObjects ==
    ASSUME World, jobs' = jobs, worker' = worker,
           NEW l, ~Is(l.job, Executing), Kept' \subseteq Kept,
           objects \ objects' \subseteq Staged(l)
    PROVE  World'
<1>1. worker' # None => HasFence(worker.lease)'
  BY DEF World, HasFence, Exists
<1>2. \A o \in Kept' : Owned(o)'
  BY DEF World, Owned, Fenced, Is, Exists
<1>3. ASSUME NEW j \in Jobs, Is(j, Executing)'
      PROVE  jobs'[j].keys = jobs'[j].attempt /\ <<j, jobs'[j].attempt, "input">> \in objects'
  <2>1. Is(j, Executing) /\ j # l.job
    BY <1>3 DEF Is, Exists
  <2>2. <<j, jobs[j].attempt, "input">> \notin Staged(l)
    BY <2>1 DEF Staged, Object
  <2> QED BY <2>1, <2>2 DEF World
<1> QED
  BY <1>1, <1>2, <1>3 DEF World

\* The input is created, and the attempt goes on only when it is there.
LEMMA CreateInputKeeps ==
    ASSUME SystemOK, SystemOK', NEW d \in Dispatchers, Alone(d), CreateInput(d)
    PROVE  Alone(d)'
<1>1. PICK l : l = disp[d].lease
  OBVIOUS
<1>2. /\ World /\ Stands("input", l) /\ Calling(d) /\ disp[d].pc = "input"
      /\ worker' = worker /\ calls' = calls /\ jobs' = jobs
      /\ objects \subseteq objects' /\ Kept' \subseteq Kept \cup {Object(l, "input")}
  BY <1>1 DEF Alone, CreateInput, At, Stays, table, MayLand, Kept
<1>3. calls' = {} /\ l \in granted /\ HasFence(l)
  BY <1>1, <1>2, NoCalls, LeaseFacts DEF Working, Processing, Stands, Holding
<1>4. World'
  BY <1>2, <1>3, AddedObject
<1>5. CASE Goto(d, "target") /\ Object(l, "input") \in objects'
  <2>1. Stands("target", l)'
    BY <1>2, <1>3, <1>5 DEF Stands, HasFence, Holding, Draining, Swept, Object, Is, Exists
  <2>2. Calling(d)' /\ disp'[d].pc = "target" /\ disp'[d].lease = l
    BY <1>1, <1>3, <1>5, GotoFacts DEF Calling, At
  <2> QED BY <1>4, <2>1, <2>2 DEF Alone
<1>6. CASE Goto(d, "error")
  <2>1. Calling(d)' /\ disp'[d].pc = "error"
    BY <1>3, <1>6, GotoFacts DEF Calling, At
  <2>2. \A k : Stands("error", k)'
    BY DEF Stands, Holding, Draining, Swept
  <2> QED BY <1>4, <2>1, <2>2 DEF Alone
<1> QED
  BY <1>1, <1>5, <1>6 DEF CreateInput

\* A preparation is undone.
LEMMA UndoKeeps ==
    ASSUME SystemOK, SystemOK', NEW d \in Dispatchers, Alone(d), UndoPreparation(d)
    PROVE  Alone(d)'
<1>1. PICK l : l = disp[d].lease
  OBVIOUS
<1>2. /\ World /\ Stands("undo", l) /\ Calling(d) /\ disp[d].pc = "undo"
      /\ worker' = worker /\ calls' = calls /\ jobs' = jobs /\ Goto(d, "error")
      /\ Kept' \subseteq Kept /\ objects \ objects' \subseteq Staged(l)
  BY <1>1 DEF Alone, UndoPreparation, At, Stays, table, Kept
<1>3. World'
  BY <1>2, DeletedObjects DEF Stands
<1>4. Calling(d)' /\ disp'[d].pc = "error"
  BY <1>2, NoCalls, GotoFacts DEF Calling, At
<1>5. \A k : Stands("error", k)'
  BY DEF Stands, Holding, Draining, Swept
<1> QED BY <1>3, <1>4, <1>5 DEF Alone

\* The staging of a stopped attempt is deleted.
LEMMA SweepKeeps ==
    ASSUME SystemOK, SystemOK', NEW d \in Dispatchers, Alone(d), Sweep(d)
    PROVE  Alone(d)'
<1>1. PICK l : l = disp[d].lease
  OBVIOUS
<1>2. /\ World /\ Stands("sweep", l) /\ Calling(d) /\ disp[d].pc = "sweep"
      /\ worker' = worker /\ calls' = calls /\ jobs' = jobs
      /\ Kept' \subseteq Kept /\ objects \ objects' \subseteq Staged(l)
  BY <1>1 DEF Alone, Sweep, SweepAll, SweepSome, At, Stays, table, Kept
<1>3. ~Is(l.job, Executing)
  BY <1>2 DEF Stands, Draining, Is, Stopped, Executing
<1>4. World' /\ calls' = {}
  BY <1>2, <1>3, DeletedObjects, NoCalls
<1>5. CASE Goto(d, "clearKeys") /\ SweepAll(l)
  <2>0. Kept' \cap Staged(l) = {}
    BY <1>5 DEF SweepAll, Sweep, Kept
  <2>1. Stands("clearKeys", l)'
    BY <1>2, <1>5, <2>0 DEF Stands, HasFence, Holding, Draining, Swept, Staged, Object, Is, Exists, Executes
  <2>2. Calling(d)' /\ disp'[d].pc = "clearKeys" /\ disp'[d].lease = l
    BY <1>1, <1>4, <1>5, GotoFacts DEF Calling, At
  <2> QED BY <1>4, <2>1, <2>2 DEF Alone
<1>6. CASE Goto(d, "loop")
  <2>1. Calling(d)' /\ disp'[d].pc = "loop"
    BY <1>4, <1>6, GotoFacts DEF Calling, At
  <2>2. \A k : Stands("loop", k)'
    BY DEF Stands, Holding, Draining, Swept
  <2> QED BY <1>4, <2>1, <2>2 DEF Alone
<1> QED
  BY <1>1, <1>5, <1>6 DEF Sweep

\* The staging of a completed attempt is deleted.
LEMMA SweepCompletedKeeps ==
    ASSUME SystemOK, SystemOK', NEW d \in Dispatchers, Alone(d), SweepCompleted(d)
    PROVE  Alone(d)'
<1>1. PICK l : l = disp[d].lease
  OBVIOUS
<1>2. /\ World /\ Stands("sweepDone", l) /\ Calling(d) /\ disp[d].pc = "sweepDone"
      /\ worker' = worker /\ calls' = calls /\ jobs' = jobs
      /\ Kept' \subseteq Kept /\ objects \ objects' \subseteq Staged(l)
  BY <1>1 DEF Alone, SweepCompleted, SweepAll, SweepSome, At, Stays, table, Kept
<1>3. ~Is(l.job, Executing)
  BY <1>2 DEF Stands, Is, Executing
<1>4. World' /\ calls' = {}
  BY <1>2, <1>3, DeletedObjects, NoCalls
<1>5. CASE Goto(d, "clearDone") /\ SweepAll(l)
  <2>0. Kept' \cap Staged(l) = {}
    BY <1>5 DEF SweepAll, SweepCompleted, Kept
  <2>1. Stands("clearDone", l)'
    BY <1>2, <1>5, <2>0 DEF Stands, Holding, Draining, Swept, Staged, Object, Is, Exists
  <2>2. Calling(d)' /\ disp'[d].pc = "clearDone" /\ disp'[d].lease = l
    BY <1>1, <1>4, <1>5, GotoFacts DEF Calling, At
  <2> QED BY <1>4, <2>1, <2>2 DEF Alone
<1>6. CASE Goto(d, "final")
  <2>1. Calling(d)' /\ disp'[d].pc = "final"
    BY <1>4, <1>6, GotoFacts DEF Calling, At
  <2>2. \A k : Stands("final", k)'
    BY DEF Stands, Holding, Draining, Swept
  <2> QED BY <1>4, <2>1, <2>2 DEF Alone
<1> QED
  BY <1>1, <1>5, <1>6 DEF SweepCompleted

\* The Worker stores its output: nobody is deleting that attempt.
LEMMA UploadKeeps ==
    ASSUME SystemOK, SystemOK', NEW d \in Dispatchers, Alone(d), Upload
    PROVE  Alone(d)'
<1>1. PICK l, pc : l = disp[d].lease /\ pc = disp[d].pc
  OBVIOUS
<1>2. PICK m : m = worker.lease
  OBVIOUS
<1>3. /\ World /\ Stands(pc, l) /\ Calling(d) /\ worker # None /\ worker \in Executions
      /\ worker' = [worker EXCEPT !.phase = "uploaded"] /\ calls' = calls /\ jobs' = jobs
      /\ disp' = disp /\ stream' = stream
      /\ objects \subseteq objects' /\ Kept' \subseteq Kept \cup {Object(m, "output")}
  BY <1>1, <1>2 DEF Alone, Upload, table, SystemOK, WorkerOK, Kept
<1>4. /\ m \in granted /\ HasFence(m) /\ m.token # 0 /\ m.job \in Jobs /\ calls = {}
      /\ SameExecution
  BY <1>2, <1>3, NoCalls DEF World, SystemOK, WorkerOK, TableOK, FencesAreGranted, TypeOK,
     Leases, SameExecution, Executions
<1>5. World'
  BY <1>3, <1>4, AddedObject
<1>6. Calling(d)'
  BY <1>3, <1>4 DEF Calling, At
<1>7. pc \in Swept => Kept' \cap Staged(l) = {}
  <2>1. pc \in Swept => Object(m, "output") \notin Staged(l)
    BY <1>2, <1>3, ExecutesElsewhere
  <2> QED BY <1>3, <2>1 DEF Stands
<1>8. Stands(pc, l)'
  BY <1>3, <1>4, <1>7 DEF Stands, HasFence, Holding, Draining, Swept, Is, Exists, Executes,
     SameExecution, Staged, Object
<1> QED
  BY <1>1, <1>3, <1>5, <1>6, <1>8 DEF Alone

\* The request is sent, or not any more.
LEMMA SendKeeps ==
    ASSUME SystemOK, SystemOK', NEW d \in Dispatchers, Alone(d), Send(d)
    PROVE  Alone(d)'
<1>1. PICK l : l = disp[d].lease
  OBVIOUS
<1>2. /\ World /\ Stands("send", l) /\ Calling(d) /\ disp[d].pc = "send" /\ Quiet
      /\ worker' = worker /\ staging' = staging /\ jobs' = jobs
      /\ stream \in [Dispatchers -> Seq(Events)]
  BY <1>1, SameIsQuiet DEF Alone, Send, At, table, SystemOK, WorkerOK
<1>3. calls = {} /\ l \in granted
  BY <1>1, <1>2, NoCalls, LeaseFacts DEF Working, Processing
<1>4. CASE disp[d].aborted
  <2>1. Goto(d, "error") /\ calls' = {}
    BY <1>3, <1>4 DEF Send
  <2> QED BY <1>2, <2>1, GotoFacts, CalmLeave DEF Free
<1>5. CASE ~disp[d].aborted
  <2>1. /\ Goto(d, "stream") /\ calls' = {[lease |-> l, from |-> d]}
        /\ stream'[d] = <<>>
    BY <1>1, <1>2, <1>3, <1>5 DEF Send
  <2>2. disp'[d].pc = "stream" /\ disp'[d].lease = l /\ disp'[d].aborted = disp[d].aborted
    BY <1>1, <2>1, GotoFacts
  <2>3. World'
    BY <1>2, WorldStays
  <2>4. Stands("stream", l)'
    BY <1>2, SameStaging DEF Stands, HasFence, Holding, Draining, Swept, Object, Exists
  <2>5. Calling(d)'
    BY <1>2, <1>5, <2>1, <2>2 DEF Calling, At, Stands
  <2> QED BY <2>2, <2>3, <2>4, <2>5 DEF Alone
<1> QED BY <1>4, <1>5

------------------------------------------------------------------------------
(* The statements that start, end and clean up an attempt.                  *)

\* One row was written, and what the Worker and the objects rely on is kept.
LEMMA WrittenRow ==
    ASSUME SystemOK, World, NEW j \in Jobs, Exists(j), NEW r \in Rows, Write(j, r),
           staging' = staging, worker' = worker, r.attempt = jobs[j].attempt,
           worker # None /\ worker.lease.job = j => r.token = jobs[j].token,
           \A o \in Kept : o[1] = j =>
              r.token # 0 \/ (r.status = "completed" /\ r.keys = r.attempt),
           r.status \in Executing =>
              r.keys = r.attempt /\ <<j, r.attempt, "input">> \in objects
    PROVE  World' /\ jobs'[j] = r /\ Exists(j)'
<1>1. jobs'[j] = r /\ r # None /\ \A i \in Jobs \ {j} : jobs'[i] = jobs[i]
  BY NullIsNoRow DEF Write, SystemOK, TableOK, TypeOK
<1>2. worker # None => worker.lease.job \in Jobs
  BY DEF SystemOK, TableOK, WorkerOK, TypeOK, Leases
<1>3. worker' # None => HasFence(worker.lease)'
  BY <1>1, <1>2 DEF World, HasFence, Exists
<1>4. ASSUME NEW o \in Kept
      PROVE  Owned(o)'
  <2>1. o[1] \in Jobs /\ Owned(o)
    BY DEF SystemOK, ObjectsOK, World, Kept
  <2>2. CASE o[1] = j
    BY <1>1, <2>1, <2>2 DEF Owned, Fenced, Is, Exists
  <2>3. CASE o[1] # j
    <3>1. jobs'[o[1]] = jobs[o[1]]
      BY <1>1, <2>1, <2>3
    <3> QED BY <2>1, <3>1 DEF Owned, Fenced, Is, Exists
  <2> QED BY <2>2, <2>3
<1>o. objects' = objects
  BY DEF staging
<1>5. ASSUME NEW i \in Jobs, Is(i, Executing)'
      PROVE  jobs'[i].keys = jobs'[i].attempt /\ <<i, jobs'[i].attempt, "input">> \in objects'
  <2>1. CASE i = j
    BY <1>1, <1>5, <1>o, <2>1 DEF Is
  <2>2. CASE i # j
    BY <1>1, <1>5, <1>o, <2>2 DEF World, Is, Exists
  <2> QED BY <2>1, <2>2
<1>6. Exists(j)'
  BY <1>1 DEF Exists
<1>7. Kept' = Kept
  BY DEF staging, Kept
<1> QED
  BY <1>1, <1>3, <1>4, <1>5, <1>6, <1>7 DEF World

\* With no staging of an attempt left, its row has no object.
LEMMA NothingLeft ==
    ASSUME SystemOK, World, NEW l, Kept \cap Staged(l) = {}, jobs[l.job].attempt = l.attempt
    PROVE  \A o \in Kept : o[1] # l.job
<1> SUFFICES ASSUME NEW o \in Kept, o[1] = l.job
             PROVE  FALSE
  OBVIOUS
<1>1. o \in Jobs \X Nat \X {"input", "output"} /\ Owned(o)
  BY DEF SystemOK, ObjectsOK, World, Kept
<1>2. o[2] = l.attempt
  BY <1>1 DEF Owned
<1>3. o = <<l.job, l.attempt, "input">> \/ o = <<l.job, l.attempt, "output">>
  BY <1>1, <1>2
<1> QED
  BY <1>3 DEF Staged, Object

\* A claim is only granted when the Worker and the objects of the job are free.
LEMMA GrantKeeps ==
    ASSUME SystemOK, SystemOK', NEW d \in Dispatchers, Alone(d), Claim(d)
    PROVE  Alone(d)'
<1>1. /\ World /\ Calling(d) /\ disp[d].pc = "claim" /\ disp \in [Dispatchers -> Standing]
      /\ worker' = worker /\ staging' = staging /\ calls' = calls /\ disp[d] \in Standing
  BY DEF Alone, Claim, At, Stays, SystemOK, DispatchersOK
<1>2. calls' = {}
  BY <1>1, NoCalls
<1>3. CASE Goto(d, "loop") /\ UNCHANGED table
  BY <1>1, <1>2, <1>3, SameIsQuiet, GotoFacts, CalmLeave DEF Free, table
<1>4. ASSUME NEW j \in Jobs, ClaimNext(j),
             disp' = [disp EXCEPT ![d] =
               [@ EXCEPT !.pc = "input", !.lost = FALSE, !.aborted = FALSE,
                         !.lease = CHOOSE l \in granted' : l \notin granted]]
      PROVE  Alone(d)'
  <2>1. PICK m : m = LeaseOf(j)'
    OBVIOUS
  <2>2. /\ NoFence /\ Is(j, {"queued"}) /\ m \notin granted /\ granted' = granted \cup {m}
        /\ m.token # 0 /\ Exists(j)' /\ jobs'[j].status = "leased"
        /\ \A i \in Jobs \ {j} : jobs'[i] = jobs[i]
    BY <1>4, <2>1, ClaimFacts DEF SystemOK, TableOK
  <2>3. m.job = j /\ m.attempt = jobs'[j].attempt /\ m.token = jobs'[j].token
    BY <2>1 DEF LeaseOf
  <2>4. (CHOOSE l \in granted' : l \notin granted) = m
    BY <2>2
  <2>5. disp'[d].pc = "input" /\ disp'[d].lease = m
    BY <1>1, <1>4, <2>4 DEF Standing
  <2>6. worker = None
    BY <1>1, <2>2 DEF World, HasFence, NoFence, Fenced, SystemOK, TableOK, WorkerOK, TypeOK,
       Leases, FencesAreGranted
  <2>7. \A o \in Kept : Owned(o) /\ o[1] \in Jobs /\ o[1] # j
    BY <1>1, <2>2 DEF World, Owned, NoFence, Fenced, Is, SystemOK, ObjectsOK, Kept
  <2>8. \A o \in Kept : Owned(o)'
    <3> SUFFICES ASSUME NEW o \in Kept
                 PROVE  Owned(o)'
      OBVIOUS
    <3>1. jobs'[o[1]] = jobs[o[1]]
      BY <2>2, <2>7
    <3> QED BY <2>7, <3>1 DEF Owned, Fenced, Is, Exists
  <2>9. ASSUME NEW i \in Jobs, Is(i, Executing)'
        PROVE  jobs'[i].keys = jobs'[i].attempt /\ <<i, jobs'[i].attempt, "input">> \in objects'
    <3>1. i # j
      BY <2>2, <2>9 DEF Is, Executing
    <3>2. jobs'[i] = jobs[i]
      BY <2>2, <3>1
    <3> QED BY <1>1, <2>9, <3>2 DEF World, Is, Exists, staging
  <2>10. World'
    <3>1. Kept' = Kept
      BY <1>1 DEF staging, Kept
    <3> QED BY <1>1, <2>6, <2>8, <2>9, <3>1 DEF World
  <2>11. Stands("input", m)'
    BY <1>1, <2>2, <2>3, <2>6 DEF Stands, HasFence, Holding, Draining, Swept, Is, Executing
  <2>12. Calling(d)'
    BY <1>2, <2>5 DEF Calling, At
  <2> QED BY <2>5, <2>10, <2>11, <2>12 DEF Alone
<1>5. \/ Goto(d, "loop") /\ UNCHANGED table
      \/ \E j \in Jobs :
           /\ ClaimNext(j)
           /\ disp' = [disp EXCEPT ![d] =
                [@ EXCEPT !.pc = "input", !.lost = FALSE, !.aborted = FALSE,
                          !.lease = CHOOSE l \in granted' : l \notin granted]]
  BY DEF Claim
<1> QED
  BY <1>3, <1>4, <1>5

\* The keys are persisted, and the preparation may still fail.
LEMMA PersistKeysKeeps ==
    ASSUME SystemOK, SystemOK', NEW d \in Dispatchers, Alone(d), PersistKeys(d)
    PROVE  Alone(d)'
<1>1. PICK l : l = disp[d].lease
  OBVIOUS
<1>2. /\ World /\ Stands("keys", l) /\ Calling(d) /\ disp[d].pc = "keys"
      /\ worker' = worker /\ staging' = staging /\ calls' = calls
  BY <1>1 DEF Alone, PersistKeys, At, Stays
<1>3. calls' = {} /\ l \in granted /\ l.job \in Jobs /\ l.token # 0 /\ l \in Leases
  BY <1>1, <1>2, NoCalls, LeaseFacts DEF Working, Processing
<1>4. CASE UNCHANGED table /\ Goto(d, "undo")
  <2>1. Stands("undo", l)
    BY <1>2 DEF Stands, Holding, Draining, Swept
  <2> QED
    BY <1>1, <1>2, <1>3, <1>4, <2>1, SameIsQuiet, GotoFacts, CalmMove DEF table
<1>5. ASSUME SetStagingKeys(l), NEW pc \in {"send", "undo"}, Goto(d, pc)
      PROVE  Alone(d)'
  <2> DEFINE q == jobs[l.job]
             r == [q EXCEPT !.keys = l.attempt]
  <2>1. /\ Exists(l.job) /\ q.status = "leased" /\ q.attempt = l.attempt /\ q.token = l.token
        /\ Write(l.job, r)
    BY <1>5 DEF SetStagingKeys, Holds, Is
  <2>2. q \in Rows
    BY <1>3, <2>1, RowFacts DEF SystemOK, TableOK
  <2>3. /\ r.status = "leased" /\ r.attempt = l.attempt /\ r.token = l.token
        /\ r.keys = l.attempt /\ r \in Rows
    BY <1>3, <2>1, <2>2 DEF Rows, Leases
  <2> HIDE DEF r
  <2>4. World' /\ jobs'[l.job] = r /\ Exists(l.job)'
    <3>1. r.attempt = q.attempt /\ r.token = q.token /\ r.token # 0
      BY <1>3, <2>1, <2>3
    <3>2. r.status \notin Executing
      BY <2>3 DEF Executing
    <3> HIDE DEF q
    <3> QED BY <1>2, <1>3, <2>1, <2>3, <3>1, <3>2, WrittenRow DEF q
  <2>5. Stands(pc, l)'
    BY <1>2, <1>5, <2>3, <2>4, SameStaging
       DEF Stands, HasFence, Holding, Draining, Swept, Is, Executing, Object
  <2>6. Calling(d)' /\ disp'[d].pc = pc /\ disp'[d].lease = l
    BY <1>1, <1>3, <1>5, GotoFacts DEF Calling, At
  <2> QED BY <2>4, <2>5, <2>6 DEF Alone
<1> QED
  BY <1>1, <1>4, <1>5 DEF PersistKeys

\* The job is called running: its input is there, under the keys it names.
LEMMA HandleStartedKeeps ==
    ASSUME SystemOK, SystemOK', NEW d \in Dispatchers, Alone(d), HandleStarted(d)
    PROVE  Alone(d)'
<1>1. PICK l : l = disp[d].lease
  OBVIOUS
<1>2. Handle(d, "started")
  BY DEF HandleStarted
<1>3. CASE UNCHANGED table /\ LoseLease(d)
  BY <1>2, <1>3, ReadKeeps
<1>4. CASE MarkRunning(l) /\ disp' = disp
  <2> DEFINE q == jobs[l.job]
             r == [q EXCEPT !.status = "running"]
  <2>1. /\ Exists(l.job) /\ q.attempt = l.attempt /\ q.token = l.token /\ Write(l.job, r)
    BY <1>4 DEF MarkRunning, Transition, Holds, Is
  <2>2. /\ World /\ Stands("stream", l) /\ Calling(d) /\ disp[d].pc = "stream"
        /\ worker' = worker /\ staging' = staging /\ l \in granted /\ calls' = {}
    BY <1>1, <1>2, HandleFacts DEF Alone
  <2>3. l.job \in Jobs /\ l.token # 0
    BY <1>1, <2>2, LeaseFacts DEF Working, Processing
  <2>4. q \in Rows
    BY <2>1, <2>3, RowFacts DEF SystemOK, TableOK
  <2>5. /\ r.status = "running" /\ r.attempt = q.attempt /\ r.token = q.token
        /\ r.keys = q.keys /\ r \in Rows
    BY <2>4 DEF Rows, Status, Active
  <2>6. q.keys = l.attempt /\ <<l.job, l.attempt, "input">> \in objects
    BY <2>2 DEF Stands, Object
  <2> HIDE DEF r
  <2>7. World' /\ jobs'[l.job] = r /\ Exists(l.job)'
    BY <2>1, <2>2, <2>3, <2>5, <2>6, WrittenRow
  <2>8. Stands("stream", l)'
    BY <2>1, <2>2, <2>5, <2>6, <2>7, SameStaging
       DEF Stands, HasFence, Holding, Draining, Swept, Object
  <2>9. Calling(d)'
    BY <1>2, <1>4, HandleFacts DEF Calling, At
  <2> QED BY <1>1, <1>4, <2>2, <2>7, <2>8, <2>9 DEF Alone
<1> QED
  BY <1>1, <1>3, <1>4 DEF HandleStarted

\* The job is completed; the row still names its staging.
LEMMA FinalizeKeeps ==
    ASSUME SystemOK, SystemOK', NEW d \in Dispatchers, Alone(d), Finalize(d)
    PROVE  Alone(d)'
<1>1. PICK l : l = disp[d].lease
  OBVIOUS
<1>2. /\ World /\ Stands("finalize", l) /\ Calling(d) /\ disp[d].pc = "finalize"
      /\ worker' = worker /\ staging' = staging /\ calls' = calls
  BY <1>1 DEF Alone, Finalize, At, Stays
<1>3. calls' = {} /\ l \in granted /\ l.job \in Jobs
  BY <1>1, <1>2, NoCalls, LeaseFacts DEF Working, Processing
<1>4. CASE UNCHANGED table /\ Goto(d, "error")
  BY <1>2, <1>3, <1>4, SameIsQuiet, GotoFacts, CalmLeave DEF Free, table
<1>5. ASSUME NEW v \in Versions, CompleteTransformJob(l, v), Goto(d, "sweepDone")
      PROVE  Alone(d)'
  <2> DEFINE q == jobs[l.job]
             a == Adopted(q.resultRef.name, v)
             b == runs[l.job] # None
             r == [q EXCEPT !.status = "completed", !.output = v, !.resultRef = a,
                            !.cacheHit = b, !.token = 0, !.live = FALSE]
  <2>1. Exists(l.job) /\ q.keys = l.attempt /\ q.attempt = l.attempt /\ Write(l.job, r)
    BY <1>5 DEF CompleteTransformJob, Holds, Is
  <2>2. q \in Rows /\ q.resultRef.name \in Names \cup {None}
    BY <1>3, <2>1, RowFacts DEF SystemOK, TableOK, Rows, ResultRefs
  <2>3. a \in ResultRefs /\ b \in BOOLEAN
    BY <2>2, AdoptedType DEF SystemOK, TableOK, TypeOK
  <2> HIDE DEF a, b
  <2>4. /\ r.status = "completed" /\ r.attempt = q.attempt /\ r.keys = q.keys
        /\ r \in Rows
    BY <2>2, <2>3 DEF Rows, Status
  <2> HIDE DEF r
  <2>5. World' /\ jobs'[l.job] = r /\ Exists(l.job)'
    <3>1. worker = None
      BY <1>2 DEF Stands
    <3>2. r.keys = r.attempt /\ r.attempt = q.attempt /\ r.status \notin Executing
      BY <2>1, <2>4 DEF Executing
    <3> HIDE DEF q
    <3> QED BY <1>2, <1>3, <2>1, <2>4, <3>1, <3>2, WrittenRow DEF q
  <2>6. Stands("sweepDone", l)'
    BY <2>4, <2>5 DEF Stands, Holding, Draining, Swept, Is
  <2>7. Calling(d)' /\ disp'[d].pc = "sweepDone" /\ disp'[d].lease = l
    BY <1>1, <1>3, <1>5, GotoFacts DEF Calling, At
  <2> QED BY <2>5, <2>6, <2>7 DEF Alone
<1> QED
  BY <1>1, <1>4, <1>5 DEF Finalize

\* The keys of a completed row go last: no object of the job is left.
LEMMA ClearCompletedKeeps ==
    ASSUME SystemOK, SystemOK', NEW d \in Dispatchers, Alone(d), ClearCompleted(d)
    PROVE  Alone(d)'
<1>1. PICK l : l = disp[d].lease
  OBVIOUS
<1>2. /\ World /\ Stands("clearDone", l) /\ Calling(d) /\ disp[d].pc = "clearDone"
      /\ worker' = worker /\ staging' = staging /\ calls' = calls /\ Goto(d, "final")
  BY <1>1 DEF Alone, ClearCompleted, At, Stays
<1>3. calls' = {} /\ l \in granted /\ l.job \in Jobs /\ disp'[d].pc \in Free
  BY <1>1, <1>2, NoCalls, LeaseFacts, GotoFacts DEF Working, Processing, Free
<1>4. CASE UNCHANGED table
  BY <1>2, <1>3, <1>4, SameIsQuiet, CalmLeave DEF table
<1>5. ASSUME NEW v \in Versions, ClearCompletedStagingKeys(l.job, l.attempt, v)
      PROVE  Alone(d)'
  <2> DEFINE q == jobs[l.job]
             r == [q EXCEPT !.keys = 0]
  <2>1. Exists(l.job) /\ q.status = "completed" /\ q.attempt = l.attempt /\ Write(l.job, r)
    BY <1>5 DEF ClearCompletedStagingKeys, Is
  <2>2. q \in Rows
    BY <1>3, <2>1, RowFacts DEF SystemOK, TableOK
  <2>3. /\ r.status = "completed" /\ r.attempt = q.attempt /\ r.token = q.token /\ r \in Rows
    BY <2>1, <2>2 DEF Rows
  <2> HIDE DEF r
  <2>4. \A o \in Kept : o[1] # l.job
    BY <1>2, <2>1, NothingLeft DEF Stands, Swept
  <2>5. World'
    BY <1>2, <1>3, <2>1, <2>3, <2>4, WrittenRow DEF Executing
  <2>6. \A k : \A pc \in Free : Stands(pc, k)'
    BY DEF Free, Stands, Holding, Draining, Swept
  <2>7. Calling(d)'
    BY <1>3 DEF Calling, At, Free
  <2> QED BY <1>3, <2>5, <2>6, <2>7 DEF Alone
<1> QED
  BY <1>1, <1>4, <1>5 DEF ClearCompleted

\* The keys of a stopped row go once its objects are deleted.
LEMMA ClearKeysKeeps ==
    ASSUME SystemOK, SystemOK', NEW d \in Dispatchers, Alone(d), ClearKeys(d)
    PROVE  Alone(d)'
<1>1. PICK l : l = disp[d].lease
  OBVIOUS
<1>2. /\ World /\ Stands("clearKeys", l) /\ Calling(d) /\ disp[d].pc = "clearKeys"
      /\ worker' = worker /\ staging' = staging /\ calls' = calls
  BY <1>1 DEF Alone, ClearKeys, At, Stays
<1>3. calls' = {} /\ l \in granted /\ l.job \in Jobs
  BY <1>1, <1>2, NoCalls, LeaseFacts DEF Working, Draining
<1>4. CASE UNCHANGED table /\ Goto(d, "loop")
  BY <1>2, <1>3, <1>4, SameIsQuiet, GotoFacts, CalmLeave DEF table, Free
<1>5. CASE ClearStagingKeys(l) /\ Goto(d, "clearFence")
  <2> DEFINE q == jobs[l.job]
             r == [q EXCEPT !.keys = 0]
  <2>1. /\ Exists(l.job) /\ q.status \in Stopped /\ q.attempt = l.attempt /\ q.token = l.token
        /\ Write(l.job, r)
    BY <1>5 DEF ClearStagingKeys, HoldsFence, Is
  <2>2. q \in Rows
    BY <1>3, <2>1, RowFacts DEF SystemOK, TableOK
  <2>3. /\ r.status = q.status /\ r.attempt = q.attempt /\ r.token = q.token /\ r \in Rows
    BY <2>1, <2>2 DEF Rows
  <2> HIDE DEF r
  <2>4. \A o \in Kept : o[1] # l.job
    BY <1>2, <2>1, NothingLeft DEF Stands, Swept
  <2>5. World' /\ jobs'[l.job] = r /\ Exists(l.job)'
    BY <1>2, <1>3, <2>1, <2>3, <2>4, WrittenRow DEF Executing, Stopped
  <2>6. Stands("clearFence", l)'
    BY <1>2, <2>1, <2>3, <2>5, SameStaging DEF Stands, HasFence, Holding, Draining, Swept, Is, Executes, Staged,
       Object
  <2>7. Calling(d)' /\ disp'[d].pc = "clearFence" /\ disp'[d].lease = l
    BY <1>1, <1>3, <1>5, GotoFacts DEF Calling, At
  <2> QED BY <2>5, <2>6, <2>7 DEF Alone
<1> QED
  BY <1>1, <1>4, <1>5 DEF ClearKeys

\* The fence is opened: the Worker is through with it, and no object is left.
LEMMA ClearFenceKeeps ==
    ASSUME SystemOK, SystemOK', NEW d \in Dispatchers, Alone(d), ClearFence(d)
    PROVE  Alone(d)'
<1>1. PICK l : l = disp[d].lease
  OBVIOUS
<1>2. /\ World /\ Stands("clearFence", l) /\ Calling(d) /\ disp[d].pc = "clearFence"
      /\ worker' = worker /\ staging' = staging /\ calls' = calls /\ Goto(d, "loop")
  BY <1>1 DEF Alone, ClearFence, At, Stays
<1>3. calls' = {} /\ l \in granted /\ l.job \in Jobs /\ disp'[d].pc \in Free
  BY <1>1, <1>2, NoCalls, LeaseFacts, GotoFacts DEF Working, Draining, Free
<1>4. CASE UNCHANGED table
  BY <1>2, <1>3, <1>4, SameIsQuiet, CalmLeave DEF table
<1>5. CASE ClearLeaseFence(l)
  <2> DEFINE q == jobs[l.job]
             r == [q EXCEPT !.token = 0, !.live = FALSE]
  <2>1. /\ Exists(l.job) /\ q.status \in Stopped /\ q.attempt = l.attempt /\ Write(l.job, r)
    BY <1>5 DEF ClearLeaseFence, HoldsFence, Is
  <2>2. q \in Rows
    BY <1>3, <2>1, RowFacts DEF SystemOK, TableOK
  <2>3. /\ r.status = q.status /\ r.attempt = q.attempt /\ r \in Rows
    BY <2>1, <2>2 DEF Rows
  <2> HIDE DEF r
  <2>4. \A o \in Kept : o[1] # l.job
    BY <1>2, <2>1, NothingLeft DEF Stands, Swept
  <2>5. worker # None => worker.lease.job # l.job
    BY <1>2, <2>1 DEF World, HasFence, Stands, Executes
  <2>6. World'
    BY <1>2, <1>3, <2>1, <2>3, <2>4, <2>5, WrittenRow DEF Executing, Stopped
  <2>7. \A k : \A pc \in Free : Stands(pc, k)'
    BY DEF Free, Stands, Holding, Draining, Swept
  <2>8. Calling(d)'
    BY <1>3 DEF Calling, At, Free
  <2> QED BY <1>3, <2>6, <2>7, <2>8 DEF Alone
<1> QED
  BY <1>1, <1>4, <1>5 DEF ClearFence

------------------------------------------------------------------------------
(* The invariant of one dispatcher, and what it says of Worker and objects. *)

\* A lone dispatcher starts with an empty store and an idle Worker.
LEMMA AloneInit ==
    ASSUME NEW d \in Dispatchers, DispatchInit
    PROVE  Alone(d)
<1>1. disp[d].pc = "loop" /\ calls = {} /\ worker = None /\ Kept = {}
      /\ \A j \in Jobs : ~Exists(j)
  BY DEF DispatchInit, Init, Looping, Exists, Kept
<1>2. World
  BY <1>1 DEF World, Is
<1> QED
  BY <1>1, <1>2 DEF Alone, Stands, Holding, Draining, Calling, At

\* Every step of a system with one dispatcher keeps its invariant.
LEMMA AloneStep ==
    ASSUME NEW d, Dispatchers = {d}, SystemOK, SystemOK', Alone(d), [DispatchNext]_system
    PROVE  Alone(d)'
<1>0. d \in Dispatchers
  OBVIOUS
<1>1. CASE DispatcherStep(d)
  <2>1. CASE \/ HandleStarted(d) \/ HandleProgress(d) \/ HandleEnded(d) \/ HandleCompleted(d)
             \/ HandleBroken(d) \/ StreamAborted(d) \/ HandleExecutionError(d)
    <3>1. CASE HandleProgress(d)
      BY <1>0, <3>1, ReadKeeps DEF HandleProgress
    <3> QED
      BY <1>0, <2>1, <3>1, HandleStartedKeeps, HandleCompletedKeeps, LeavesKeep
  <2>2. CASE \/ FailExpiredLeases(d) \/ FindFence(d) \/ Claim(d) \/ Unsupported(d)
             \/ Reread(d) \/ Exit(d) \/ Start(d)
    BY <1>0, <2>2, LeavesKeep, FenceFoundKeeps, GrantKeeps
  <2>3. CASE \/ CreateInput(d) \/ CreateOutputTarget(d) \/ PersistKeys(d)
             \/ UndoPreparation(d) \/ Send(d)
    BY <1>0, <2>3, CreateInputKeeps, CreateOutputTargetKeeps, PersistKeysKeeps, UndoKeeps,
       SendKeeps
  <2>4. CASE \/ Finalize(d) \/ SweepCompleted(d) \/ ClearCompleted(d)
             \/ CancelExecution(d) \/ AwaitStopped(d) \/ Sweep(d) \/ ClearKeys(d)
             \/ ClearFence(d)
    BY <1>0, <2>4, FinalizeKeeps, SweepCompletedKeeps, ClearCompletedKeeps, CancelKeeps,
       SweepKeeps, ClearKeysKeeps, ClearFenceKeeps
  <2> QED
    BY <1>1, <2>1, <2>2, <2>3, <2>4 DEF DispatcherStep
<1>2. CASE RenewalFails(d) \/ Crash(d) \/ Stop(d)
  BY <1>0, <1>2, HangupKeeps
<1>3. CASE WorkerStep \/ NoticeHangup \/ WorkerCrash \/ Land
  BY <1>0, <1>3, RunJobKeeps, UploadKeeps, SlotKeeps, LandKeeps DEF WorkerStep
<1>4. CASE (\E j \in Jobs : Expire(j)) \/ User \/ UNCHANGED system
  BY <1>0, <1>4, OthersKeep
<1> QED
  BY <1>1, <1>2, <1>3, <1>4 DEF DispatchNext

\* The invariant holds of every reachable state.
LEMMA AloneAlways ==
    ASSUME NEW d, Dispatchers = {d}
    PROVE  DispatchSpec => [](SystemOK /\ Alone(d))
<1>1. DispatchInit => SystemOK /\ Alone(d)
  BY SystemInit, AloneInit
<1>2. SystemOK /\ Alone(d) /\ [DispatchNext]_system => (SystemOK /\ Alone(d))'
  BY SystemStep, AloneStep
<1> QED
  BY <1>1, <1>2, PTL DEF DispatchSpec

\* With one dispatcher, the Worker only executes the attempt that has the fence:
\* whatever crashes, is cancelled or is lost, for any number of jobs and faults.
THEOREM ExecutesUnderTheFence ==
    ASSUME NEW d, Dispatchers = {d}
    PROVE  DispatchSpec => []WorkerIsFenced
<1>1. Alone(d) => WorkerIsFenced
  BY DEF Alone, World, HasFence, WorkerIsFenced
<1> QED
  BY <1>1, AloneAlways, PTL

\* With one dispatcher, a job the catalog calls running has its input in the
\* store, under the keys its row names.
THEOREM RunsWithItsInput ==
    ASSUME NEW d, Dispatchers = {d}
    PROVE  DispatchSpec => []RunningHasInput
<1>1. Alone(d) => RunningHasInput
  BY DEF Alone, World, Executing, RunningHasInput
<1> QED
  BY <1>1, AloneAlways, PTL

\* With one dispatcher, no staging object is forgotten but those whose PUT landed
\* after its sender had given up on it and the drain had swept the attempt: of every
\* other one the attempt is fenced, or the job completed and the row still names it.
THEOREM NothingIsForgotten ==
    ASSUME NEW d, Dispatchers = {d}
    PROVE  DispatchSpec => []NoForgottenObject
<1>1. Alone(d) /\ DispatchTypeOK => NoForgottenObject
  <2> SUFFICES ASSUME Alone(d), DispatchTypeOK, NEW j \in Jobs, NEW a \in 1 .. MaxAttempt,
                      {<<j, a, "input">>, <<j, a, "output">>} \cap (objects \ overtaken) # {}
               PROVE  /\ jobs[j].attempt = a
                      /\ Fenced(j) \/ (Is(j, {"completed"}) /\ jobs[j].keys = a)
    BY DEF NoForgottenObject
  <2>1. PICK o \in Kept : o = <<j, a, "input">> \/ o = <<j, a, "output">>
    BY DEF Kept
  <2>2. Owned(o) /\ o[1] = j /\ o[2] = a
    BY <2>1 DEF Alone, World
  <2> QED
    BY <2>2 DEF Owned
<1> QED
  BY <1>1, AloneAlways, DispatchTypeCorrect, PTL
==============================================================================
