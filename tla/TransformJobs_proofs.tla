------------------------ MODULE TransformJobs_proofs ------------------------
(* Theorems about TransformJobs, for every value of its constants.           *)
EXTENDS TransformJobs, FiniteSetTheorems, TLAPS

------------------------------------------------------------------------------
(* Operators.                                                               *)

\* The columns an adoption writes have their types.
LEMMA AdoptedType ==
    ASSUME refs \in [Names -> RefRows],
           NEW n \in Names \cup {None}, NEW v \in Versions \cup {None}
    PROVE  Adopted(n, v) \in ResultRefs
BY DEF Adopted, ResultRefs, NoResultRef, RefRows

\* Adopting a version leaves a ref table.
LEMMA AdoptedRefsType ==
    ASSUME refs \in [Names -> RefRows], NEW n \in Names \cup {None}, NEW v,
           n # None => v \in Versions
    PROVE  AdoptedRefs(n, v) \in [Names -> RefRows]
BY DEF AdoptedRefs, RefRows

\* A row inserted by createOrReadTransformJob is a row.
LEMMA NewRowType ==
    ASSUME NEW run \in Versions \cup {None}, NEW ref \in ResultRefs
    PROVE  NewRow(run, ref) \in Rows
<1>1. IsFiniteSet(Existing)
  BY ConstantsAssumption, FS_Subset DEF Existing
<1>2. Cardinality(Existing) \in Nat
  BY <1>1, FS_CardinalityType
<1> QED
  BY <1>2 DEF NewRow, Rows, Status

\* The row a transaction writes at its commit is a row.
LEMMA WorkingRowType ==
    ASSUME TypeOK, NEW c \in Clients, create[c].pc = "row"
    PROVE  /\ WorkingRow(create[c]) \in Rows
           /\ CurrentRow(create[c]) \in Rows
<1> DEFINE t == create[c]
<1>1. /\ t \in Creates
      /\ t.job \in Jobs /\ t.row \in Rows /\ jobs[t.job] \in Rows
  BY DEF TypeOK, Exists
<1>2. t.name \in Names \cup {None}
  BY <1>1 DEF Creates
<1>3. t.row.output \in Versions \cup {None}
  BY <1>1 DEF Rows
<1>4. Adopted(t.name, t.row.output) \in ResultRefs
  BY <1>2, <1>3, AdoptedType DEF TypeOK
<1>5. Pending(t.name) \in ResultRefs
  BY <1>2 DEF Pending, ResultRefs
<1>6. \A ref \in ResultRefs : [jobs[t.job] EXCEPT !.resultRef = ref] \in Rows
  BY <1>1 DEF Rows
<1>7. WorkingRow(t) \in Rows
  BY <1>1, <1>4, <1>5, <1>6 DEF WorkingRow
<1> QED
  BY <1>1, <1>7 DEF CurrentRow

------------------------------------------------------------------------------
(* Type correctness.                                                        *)

\* The empty table is typed.
LEMMA InitTyped == Init => TypeOK
BY FS_EmptySet DEF Init, TypeOK, Idle, Creates, RefRows, Exists

\* A step that only rewrites one existing row keeps the types.
LEMMA WriteTyped ==
    ASSUME TypeOK, NEW j \in Jobs, NEW r \in Rows, Write(j, r),
           UNCHANGED <<refs, granted, create>>,
           runs' \in [Jobs -> Versions \cup {None}]
    PROVE  TypeOK'
BY NullIsNoRow DEF TypeOK, Write, Exists

\* Every step of createOrReadTransformJob keeps the types.
LEMMA CreateTyped ==
    ASSUME TypeOK, NEW c \in Clients, CreateStep(c)
    PROVE  TypeOK'
<1> DEFINE t == create[c]
<1>t. t \in Creates /\ t.name \in Names \cup {None} /\ t.run \in Versions \cup {None}
  BY DEF TypeOK, Creates
<1>i. \A o \in {"none", "ok", "determinism", "consistency", "check"} :
        [Idle EXCEPT !.outcome = o] \in Creates /\ [Idle EXCEPT !.outcome = o].pc = "idle"
  BY DEF Idle, Creates
<1>1. ASSUME NEW j \in Jobs, NEW n \in Names \cup {None}, CreateBegin(c, j, n)
      PROVE  TypeOK'
  BY <1>1 DEF TypeOK, CreateBegin, Creates, Exists
<1>2. CASE CreateInsert(c)
  <2>1. t.job \in Jobs
    BY <1>2 DEF TypeOK, CreateInsert
  <2>2. CASE t.run = None
    <3>1. NoResultRef \in ResultRefs /\ Pending(t.name) \in ResultRefs
      BY <1>t DEF NoResultRef, Pending, ResultRefs
    <3>2. PICK r \in Rows : Write(t.job, r)
      BY <1>2, <2>2, <3>1, NewRowType DEF CreateInsert
    <3>3. refs' = refs
      BY <1>2, <2>2 DEF CreateInsert
    <3> QED
      BY <1>2, <1>i, <2>1, <3>2, <3>3, NullIsNoRow DEF CreateInsert, Finish, TypeOK, Write, Exists
  <2>3. CASE t.run # None
    <3>1. Adopted(t.name, t.run) \in ResultRefs
      BY <1>t, AdoptedType DEF TypeOK
    <3>2. PICK r \in Rows : Write(t.job, r)
      BY <1>2, <1>t, <2>3, <3>1, NewRowType DEF CreateInsert
    <3>3. refs' \in [Names -> RefRows]
      BY <1>2, <1>t, <2>3, AdoptedRefsType DEF CreateInsert, TypeOK
    <3> QED
      BY <1>2, <1>i, <2>1, <3>2, <3>3, NullIsNoRow DEF CreateInsert, Finish, TypeOK, Write, Exists
  <2> QED BY <2>2, <2>3
<1>3. CASE CreateRead(c)
  <2>1. t.job \in Jobs /\ jobs[t.job] \in Rows
    BY <1>3 DEF TypeOK, CreateRead, Exists
  <2> DEFINE u == [t EXCEPT !.pc = "row", !.row = jobs[t.job]]
  <2>2. u \in Creates /\ u.pc = "row" /\ u.job = t.job /\ u.row = jobs[t.job]
    BY <1>t, <2>1 DEF Creates
  <2>3. CASE Finish(c, "determinism")
    BY <1>3, <1>i, <2>3 DEF TypeOK, CreateRead, Finish, Exists
  <2>4. CASE create' = [create EXCEPT ![c] = u]
    <3> HIDE DEF u
    <3> QED BY <1>3, <2>1, <2>2, <2>4 DEF TypeOK, CreateRead, Exists
  <2> QED BY <1>3, <2>3, <2>4 DEF CreateRead
<1>4. CASE CreateAbort(c)
  BY <1>4, <1>i DEF TypeOK, CreateAbort, Finish, Exists
<1>5. CASE CreateRefused(c)
  BY <1>5, <1>i DEF TypeOK, CreateRefused, Finish, Exists
<1>6. CASE CreateCommit(c)
  <2> DEFINE r == CurrentRow(t)
             n == IF t.run # None /\ t.name # None THEN t.name
                  ELSE IF TakesHit(t) THEN WorkingRow(t).resultRef.name ELSE None
  <2>1. t.pc = "row" /\ t.job \in Jobs
    BY <1>6 DEF TypeOK, CreateCommit
  <2>2. WorkingRow(t) \in Rows /\ r \in Rows
    BY <2>1, WorkingRowType
  <2>3. /\ WorkingRow(t).resultRef.name \in Names \cup {None}
        /\ r.resultRef.name \in Names \cup {None}
    BY <2>2 DEF Rows, ResultRefs
  <2>4. n \in Names \cup {None} /\ (n # None => t.run \in Versions)
    BY <1>t, <2>3 DEF TakesHit
  <2>5. refs' \in [Names -> RefRows]
    BY <1>6, <2>4, AdoptedRefsType DEF TypeOK, CreateCommit
  <2>6. Adopted(WorkingRow(t).resultRef.name, t.run) \in ResultRefs
    BY <1>t, <2>3, AdoptedType DEF TypeOK
  <2>7. [Adopted(WorkingRow(t).resultRef.name, t.run) EXCEPT !.name = r.resultRef.name]
           \in ResultRefs
    BY <2>3, <2>6 DEF ResultRefs
  <2>9. HitRow(t) \in Rows
    BY <1>t, <2>2, <2>7 DEF HitRow, Rows, Status
  <2>8. PICK w \in Rows : Write(t.job, w)
    BY <1>6, <2>2, <2>9 DEF CreateCommit
  <2> QED
    BY <1>6, <1>i, <2>1, <2>5, <2>8, NullIsNoRow DEF CreateCommit, Finish, TypeOK, Write, Exists
<1> QED
  BY <1>1, <1>2, <1>3, <1>4, <1>5, <1>6 DEF CreateStep

\* Every statement under a lease keeps the types.
LEMMA LeaseTyped ==
    ASSUME TypeOK, NEW l \in granted, LeaseStep(l)
    PROVE  TypeOK'
<1> DEFINE j == l.job
           r == jobs[j]
<1>1. j \in Jobs /\ l.attempt \in Nat /\ l.token \in Nat
  BY DEF TypeOK, Leases
<1>2. Exists(j) /\ r \in Rows
  BY <1>1 DEF TypeOK, LeaseStep, MarkRunning, MarkFinalizing, MarkFailed, MarkCancelled,
     Transition, SetStagingKeys, ClearStagingKeys, ClearLeaseFence, CompleteTransformJob,
     Holds, HoldsFence, Is, Exists
<1>3. ASSUME NEW S, NEW status \in Status, Transition(l, S, status)
      PROVE  TypeOK'
  <2>1. [r EXCEPT !.status = status] \in Rows
    BY <1>2 DEF Rows
  <2> QED
    BY <1>1, <1>3, <2>1, WriteTyped DEF Transition, TypeOK
<1>4. CASE MarkRunning(l) \/ MarkFinalizing(l) \/ MarkFailed(l) \/ MarkCancelled(l)
  BY <1>3, <1>4 DEF MarkRunning, MarkFinalizing, MarkFailed, MarkCancelled, Status, Active,
     Stopped
<1>5. CASE SetStagingKeys(l)
  <2>1. [r EXCEPT !.keys = l.attempt] \in Rows
    BY <1>1, <1>2 DEF Rows
  <2> QED
    BY <1>1, <1>5, <2>1, WriteTyped DEF SetStagingKeys, TypeOK
<1>6. CASE ClearStagingKeys(l)
  <2>1. [r EXCEPT !.keys = 0] \in Rows
    BY <1>2 DEF Rows
  <2> QED
    BY <1>1, <1>6, <2>1, WriteTyped DEF ClearStagingKeys, TypeOK
<1>7. CASE ClearLeaseFence(l)
  <2>1. [r EXCEPT !.token = 0, !.live = FALSE] \in Rows
    BY <1>2 DEF Rows
  <2> QED
    BY <1>1, <1>7, <2>1, WriteTyped DEF ClearLeaseFence, TypeOK
<1>8. ASSUME NEW v \in Versions, CompleteTransformJob(l, v)
      PROVE  TypeOK'
  <2>1. r.resultRef.name \in Names \cup {None}
    BY <1>2 DEF Rows, ResultRefs
  <2>2. refs' \in [Names -> RefRows]
    BY <1>8, <2>1, AdoptedRefsType DEF CompleteTransformJob, TypeOK
  <2>3. Adopted(r.resultRef.name, v) \in ResultRefs
    BY <2>1, AdoptedType DEF TypeOK
  <2>4. PICK w \in Rows : Write(j, w)
    <3>1. \A b \in BOOLEAN :
            [r EXCEPT !.status = "completed", !.output = v,
                      !.resultRef = Adopted(r.resultRef.name, v), !.cacheHit = b,
                      !.token = 0, !.live = FALSE] \in Rows
      BY <1>2, <2>3 DEF Rows, Status
    <3>2. (runs[j] # None) \in BOOLEAN
      OBVIOUS
    <3> QED
      BY <1>8, <3>1, <3>2 DEF CompleteTransformJob
  <2> QED
    BY <1>1, <1>8, <2>2, <2>4, NullIsNoRow DEF CompleteTransformJob, TypeOK, Write, Exists
<1> QED
  BY <1>4, <1>5, <1>6, <1>7, <1>8 DEF LeaseStep

\* Claims, expiries, cancellations, retries, inline runs and the cleanup of a
\* completed job keep the types.
LEMMA RowTyped ==
    ASSUME TypeOK, NEW j \in Jobs, RowStep(j)
    PROVE  TypeOK'
<1> DEFINE r == jobs[j]
<1>1. ASSUME Exists(j)
      PROVE  r \in Rows
  BY <1>1 DEF TypeOK, Exists
<1>2. CASE ClaimNext(j)
  <2> DEFINE a == r.attempt + 1
             k == Cardinality(granted) + 1
             l == [job |-> j, attempt |-> a, token |-> k]
  <2>1. r \in Rows
    BY <1>1, <1>2 DEF ClaimNext, Is
  <2>2. a \in Nat /\ k \in Nat
    BY <2>1, FS_CardinalityType DEF TypeOK, Rows
  <2>3. [r EXCEPT !.status = "leased", !.attempt = a, !.token = k, !.live = TRUE] \in Rows
    BY <2>1, <2>2 DEF Rows, Status, Active
  <2>4. PICK w \in Rows : Write(j, w)
    BY <1>2, <2>3 DEF ClaimNext
  <2>5. granted' \subseteq Leases /\ IsFiniteSet(granted')
    <3>1. granted' = granted \cup {l} /\ l \in Leases
      BY <1>2, <2>2 DEF ClaimNext, Leases
    <3>2. IsFiniteSet(granted \cup {l})
      BY FS_AddElement DEF TypeOK
    <3> QED
      BY <3>1, <3>2 DEF TypeOK
  <2>6. jobs' \in [Jobs -> Rows \cup {None}] /\ \A i \in Jobs : Exists(i) => Exists(i)'
    BY <2>4, NullIsNoRow DEF TypeOK, Write, Exists
  <2> QED
    BY <1>2, <2>5, <2>6 DEF ClaimNext, TypeOK
<1>3. CASE LeaseExpires(j)
  <2>1. [r EXCEPT !.live = FALSE] \in Rows
    BY <1>1, <1>3 DEF LeaseExpires, Fenced, Rows
  <2> QED
    BY <1>3, <2>1, WriteTyped DEF LeaseExpires, TypeOK
<1>4. CASE RequestCancellation(j)
  <2>1. [r EXCEPT !.status = "cancelled"] \in Rows
    BY <1>1, <1>4 DEF RequestCancellation, Is, Rows, Status, Stopped
  <2> QED
    BY <1>4, <2>1, WriteTyped DEF RequestCancellation, TypeOK
<1>5. CASE Retry(j)
  <2>1. [r EXCEPT !.status = "queued"] \in Rows
    BY <1>1, <1>5 DEF Retry, Is, Rows, Status
  <2> QED
    BY <1>5, <2>1, WriteTyped DEF Retry, TypeOK
<1>6. ASSUME NEW v \in Versions, RegisterTransformResult(j, v)
      PROVE  TypeOK'
  BY <1>6 DEF RegisterTransformResult, TypeOK, Exists
<1>7. ASSUME NEW a, NEW v \in Versions, ClearCompletedStagingKeys(j, a, v)
      PROVE  TypeOK'
  <2>1. [r EXCEPT !.keys = 0] \in Rows
    BY <1>1, <1>7 DEF ClearCompletedStagingKeys, Is, Rows
  <2> QED
    BY <1>7, <2>1, WriteTyped DEF ClearCompletedStagingKeys, TypeOK
<1> QED
  BY <1>2, <1>3, <1>4, <1>5, <1>6, <1>7 DEF RowStep

\* The statement that fails every expired row at once keeps the types.
LEMMA ExpiryTyped ==
    ASSUME TypeOK, FailExpired
    PROVE  TypeOK'
<1>1. ASSUME NEW j \in Jobs, Expired(j)
      PROVE  [jobs[j] EXCEPT !.status = "failed"] \in Rows
  BY <1>1 DEF Expired, Is, Exists, TypeOK, Rows, Status, Stopped
<1> QED
  BY <1>1, NullIsNoRow DEF FailExpired, TypeOK, Exists

\* Writers of refs_v2 other than adoption keep the types.
LEMMA RefTyped ==
    ASSUME TypeOK, RefStep
    PROVE  TypeOK'
<1>1. refs' \in [Names -> RefRows]
  <2>1. ASSUME NEW n \in Names, TrashRef(n) PROVE refs' \in [Names -> RefRows]
    <3>1. [refs[n] EXCEPT !.deleted = ~@] \in RefRows
      BY DEF TypeOK, RefRows
    <3> QED BY <2>1, <3>1 DEF TrashRef, TypeOK
  <2>2. ASSUME NEW n \in Names, NEW v \in Versions, SetRef(n, v) PROVE refs' \in [Names -> RefRows]
    <3>1. [refs[n] EXCEPT !.version = v] \in RefRows
      BY DEF TypeOK, RefRows
    <3> QED BY <2>2, <3>1 DEF SetRef, TypeOK
  <2> QED BY <2>1, <2>2 DEF RefStep
<1> QED
  BY <1>1 DEF RefStep, TrashRef, SetRef, TypeOK, Exists

\* TypeOK is inductive.
LEMMA NextTyped == TypeOK /\ [Next]_vars => TypeOK'
<1> SUFFICES ASSUME TypeOK, [Next]_vars
             PROVE  TypeOK'
  OBVIOUS
<1>1. CASE UNCHANGED vars
  BY <1>1 DEF vars, TypeOK, Exists
<1> QED
  BY <1>1, CreateTyped, LeaseTyped, RowTyped, ExpiryTyped, RefTyped DEF Next

\* Every variable of the table keeps its type, whoever presents which lease.
THEOREM TypeCorrect == Spec => []TypeOK
BY InitTyped, NextTyped, PTL DEF Spec

------------------------------------------------------------------------------
(* The one batch slot.                                                      *)

\* A step on job j that grants no token and leaves the other rows alone.
LEMMA NoNewFence ==
    ASSUME SingleFence, NEW j \in Jobs,
           \A i \in Jobs \ {j} : jobs'[i] = jobs[i],
           jobs'[j] # None => (jobs'[j].token = 0 \/ Fenced(j))
    PROVE  SingleFence'
BY DEF SingleFence, Fenced, Exists

\* SingleFence is inductive over typed states: only a claim grants a token, and
\* it requires that no row has one.
LEMMA SingleFenceStep ==
    ASSUME TypeOK, SingleFence, [Next]_vars
    PROVE  SingleFence'
<1>0. ASSUME NEW j \in Jobs, Exists(j)
      PROVE  jobs[j] \in Rows
  BY <1>0 DEF TypeOK, Exists
<1>1. ASSUME jobs' = jobs
      PROVE  SingleFence'
  BY <1>1 DEF SingleFence, Fenced, Exists
<1>3. ASSUME NEW c \in Clients, CreateStep(c)
      PROVE  SingleFence'
  <2> DEFINE t == create[c]
  <2>1. CASE CreateInsert(c)
    <3>1. \A run, ref : NewRow(run, ref).token = 0
      BY DEF NewRow
    <3>2. \E run, ref : Write(t.job, NewRow(run, ref))
      BY <2>1 DEF CreateInsert
    <3>3. PICK run, ref : Write(t.job, NewRow(run, ref))
      BY <3>2
    <3>4. t.job \in Jobs
      BY <2>1 DEF CreateInsert, TypeOK
    <3> QED BY <3>1, <3>3, <3>4, NoNewFence DEF Write, TypeOK
  <2>2. CASE CreateCommit(c)
    <3> DEFINE r == CurrentRow(t)
               hit == HitRow(t)
    <3>1. t.job \in Jobs /\ Exists(t.job) /\ t.pc = "row"
      BY <2>2 DEF CreateCommit, TypeOK
    <3>2. jobs[t.job] \in Rows
      BY <3>1, <1>0
    <3>3. r \in Rows /\ r.token = jobs[t.job].token
      <4>1. \A ref : [jobs[t.job] EXCEPT !.resultRef = ref].token = jobs[t.job].token
        BY <3>2 DEF Rows
      <4>2. Attaches(t) => \E ref : WorkingRow(t) = [jobs[t.job] EXCEPT !.resultRef = ref]
        BY DEF WorkingRow
      <4>3. r \in Rows
        BY <3>1, WorkingRowType
      <4> QED BY <4>1, <4>2, <4>3 DEF CurrentRow
    <3>4. hit.token = r.token /\ Write(t.job, IF Hits(t) THEN hit ELSE r)
      BY <2>2, <3>3 DEF CreateCommit, Rows, HitRow
    <3> HIDE DEF r
    <3> HIDE DEF hit
    <3> QED
      BY <3>1, <3>3, <3>4, NoNewFence DEF Write, TypeOK, Fenced
  <2> QED
    BY <1>1, <1>3, <2>1, <2>2 DEF CreateStep, CreateBegin, CreateRead, CreateAbort,
       CreateRefused
<1>4. ASSUME NEW l \in granted, LeaseStep(l)
      PROVE  SingleFence'
  <2> DEFINE j == l.job
             r == jobs[j]
  <2>1. j \in Jobs
    BY DEF TypeOK, Leases
  <2>2. Exists(j) /\ r \in Rows
    BY <1>0, <1>4, <2>1 DEF LeaseStep, MarkRunning, MarkFinalizing, MarkFailed,
       MarkCancelled, Transition, SetStagingKeys, ClearStagingKeys, ClearLeaseFence,
       CompleteTransformJob, Holds, HoldsFence, Is
  <2>3. ASSUME NEW s, NEW S, Transition(l, S, s)
        PROVE  jobs'[j].token = r.token
    BY <2>1, <2>2, <2>3 DEF Transition, Write, TypeOK, Rows
  <2>4. CASE SetStagingKeys(l) \/ ClearStagingKeys(l)
    BY <2>1, <2>2, <2>4, NoNewFence DEF SetStagingKeys, ClearStagingKeys, Write, TypeOK,
       Rows, Fenced
  <2>5. CASE ClearLeaseFence(l)
    BY <2>1, <2>2, <2>5, NoNewFence DEF ClearLeaseFence, Write, TypeOK, Rows, Fenced
  <2>6. ASSUME NEW v \in Versions, CompleteTransformJob(l, v)
        PROVE  SingleFence'
    <3>1. jobs'[j].token = 0 /\ \A i \in Jobs \ {j} : jobs'[i] = jobs[i]
      BY <2>1, <2>2, <2>6 DEF CompleteTransformJob, Write, TypeOK, Rows
    <3> QED BY <2>1, <3>1, NoNewFence
  <2>7. CASE MarkRunning(l) \/ MarkFinalizing(l) \/ MarkFailed(l) \/ MarkCancelled(l)
    <3>1. jobs'[j].token = r.token /\ \A i \in Jobs \ {j} : jobs'[i] = jobs[i]
      BY <2>1, <2>3, <2>7 DEF MarkRunning, MarkFinalizing, MarkFailed, MarkCancelled,
         Transition, Write, TypeOK
    <3> QED BY <2>1, <2>2, <3>1, NoNewFence DEF Fenced
  <2> QED
    BY <1>4, <2>4, <2>5, <2>6, <2>7 DEF LeaseStep
<1>5. ASSUME NEW j \in Jobs, RowStep(j)
      PROVE  SingleFence'
  <2>1. CASE ClaimNext(j)
    <3>1. \A i \in Jobs \ {j} : jobs'[i] = jobs[i]
      BY <2>1 DEF ClaimNext, Write, TypeOK
    <3>2. \A i \in Jobs \ {j} : ~Fenced(i)'
      BY <2>1, <3>1 DEF ClaimNext, NoFence, Fenced, Exists
    <3> QED BY <3>2 DEF SingleFence
  <2>2. CASE LeaseExpires(j)
    BY <1>0, <2>2, NoNewFence DEF LeaseExpires, Write, TypeOK, Rows, Fenced
  <2>3. CASE RequestCancellation(j)
    BY <1>0, <2>3, NoNewFence DEF RequestCancellation, Write, TypeOK, Rows, Fenced, Is
  <2>4. CASE Retry(j)
    BY <1>0, <2>4, NoNewFence DEF Retry, Write, TypeOK, Rows, Fenced, Is
  <2>5. ASSUME NEW a, NEW v, ClearCompletedStagingKeys(j, a, v)
        PROVE  SingleFence'
    BY <1>0, <2>5, NoNewFence DEF ClearCompletedStagingKeys, Write, TypeOK, Rows, Fenced, Is
  <2> QED
    BY <1>1, <1>5, <2>1, <2>2, <2>3, <2>4, <2>5 DEF RowStep, RegisterTransformResult
<1>6. CASE FailExpired
  <2>1. \A j \in Jobs : Expired(j) => Exists(j) /\ jobs[j] \in Rows
    BY <1>0 DEF Expired, Is
  <2>2. \A j \in Jobs : Fenced(j)' => Fenced(j)
    BY <1>6, <2>1 DEF FailExpired, Rows, Fenced, Exists
  <2> QED
    BY <2>2 DEF SingleFence
<1>7. CASE RefStep
  BY <1>1, <1>7 DEF RefStep, TrashRef, SetRef
<1>8. CASE UNCHANGED vars
  BY <1>1, <1>8 DEF vars
<1> QED
  BY <1>3, <1>4, <1>5, <1>6, <1>7, <1>8 DEF Next

\* At most one job of the whole system is leased or fenced.
THEOREM OneSlot == Spec => []SingleFence
<1>1. Init => SingleFence
  BY DEF Init, SingleFence, Fenced, Exists
<1>2. TypeOK /\ SingleFence /\ [Next]_vars => SingleFence'
  BY SingleFenceStep
<1> QED
  BY <1>1, <1>2, TypeCorrect, PTL DEF Spec

------------------------------------------------------------------------------
(* What the rows, runs and leases of the table keep for ever.                *)

------------------------------------------------------------------------------
(* The inductive invariant.                                                 *)

\* What holds of a row r of job j whose cache key has the given run.
GoodRow(j, r, run) ==
    /\ RowChecks(r)
    /\ r.status = "queued" => r.keys = 0
    /\ r.status = "completed" => run = r.output
    /\ j \notin InlineKeys => ~r.cacheHit
    /\ r.resultRef.name # None /\ ~(r.cacheHit /\ j \in InlineKeys) =>
          /\ (r.status = "completed") = (r.resultRef.status # "pending")
          /\ r.resultRef.status = "updated" => r.resultRef.version = r.output

GoodRows == \A j \in Jobs : Exists(j) => GoodRow(j, jobs[j], runs[j])

\* Only the completion of the job registers the run of a key that the inline
\* route does not offer.
RunsAreDelivered == \A j \in Jobs \ InlineKeys : runs[j] # None => Is(j, {"completed"})

\* What a transaction has read stays true while others commit: a run, a
\* completed row, and that a row which was open beside a run is no delivery.
ReadHolds(t) ==
    /\ t.pc # "idle" /\ t.run # None => runs[t.job] = t.run
    /\ t.pc = "row" /\ t.row.status = "completed" =>
          Is(t.job, {"completed"}) /\ jobs[t.job].output = t.row.output
                                   /\ t.row.output # None
    /\ t.pc = "row" /\ t.run # None /\ Is(t.job, {"completed"}) /\ ~jobs[t.job].cacheHit =>
          t.row.status = "completed"

ReadsHold == \A c \in Clients : ReadHolds(create[c])

\* A claim gives a job the attempt after every attempt it was ever leased for.
LeasesArePast == \A l \in granted : Exists(l.job) /\ l.attempt <= jobs[l.job].attempt

Outcome ==
    GoodRows /\ RunsAreDelivered /\ ReadsHold /\ LeasesArePast /\ LeaseNamesAttempt

\* How a step may change the row q of a job into r, its run being run before.
Advances(q, r, run) ==
    /\ q.attempt <= r.attempt
    /\ q.status = "completed" =>
          r.status = "completed" /\ r.output = q.output /\ r.cacheHit = q.cacheHit
    /\ q.status # "completed" /\ r.status = "completed" /\ run # None => r.cacheHit

Progress ==
    \A j \in Jobs :
        /\ Exists(j) => Exists(j)' /\ Advances(jobs[j], jobs'[j], runs[j])
        /\ runs[j] # None => runs'[j] = runs[j]

------------------------------------------------------------------------------
(* Steps that write one row.                                                *)

\* A good row that advances on the row before it keeps every other fact about
\* rows and runs.
LEMMA WriteAdvances ==
    ASSUME TypeOK, Outcome, NEW j \in Jobs, NEW r \in Rows, Write(j, r),
           GoodRow(j, r, runs'[j]),
           Exists(j) => Advances(jobs[j], r, runs[j]),
           runs[j] # None => runs'[j] = runs[j],
           \A i \in Jobs \ {j} : runs'[i] = runs[i],
           j \notin InlineKeys /\ runs'[j] # None => r.status = "completed"
    PROVE  Progress /\ GoodRows' /\ RunsAreDelivered'
<1>1. /\ r # None /\ jobs'[j] = r
      /\ \A i \in Jobs \ {j} : jobs'[i] = jobs[i] /\ runs'[i] = runs[i]
  BY NullIsNoRow DEF Write, TypeOK
<1>2. ASSUME NEW i \in Jobs, Exists(i)
      PROVE  Advances(jobs[i], jobs[i], runs[i])
  BY <1>2 DEF Advances, TypeOK, Exists, Rows
<1>3. Progress
  BY <1>1, <1>2 DEF Progress, Exists
<1>4. GoodRows'
  BY <1>1 DEF Outcome, GoodRows, Exists
<1>5. RunsAreDelivered'
  BY <1>1 DEF Outcome, RunsAreDelivered, Is, Exists
<1> QED
  BY <1>3, <1>4, <1>5

\* What a transaction has read survives every step that is not its own.
LEMMA ReadSurvives ==
    ASSUME TypeOK, Progress, NEW c \in Clients, ReadHolds(create[c]),
           create'[c] = create[c]
    PROVE  ReadHolds(create[c])'
<1> DEFINE t == create[c]
<1>1. t.pc # "idle" => t.job \in Jobs
  BY DEF TypeOK
<1>2. t.pc = "row" => Exists(t.job) /\ Exists(t.job)'
                        /\ Advances(jobs[t.job], jobs'[t.job], runs[t.job])
  BY DEF TypeOK, Progress
<1>3. t.pc # "idle" /\ t.run # None => runs'[t.job] = t.run
  BY <1>1 DEF ReadHolds, Progress
<1>4. t.pc = "row" /\ t.row.status = "completed" =>
        Is(t.job, {"completed"})' /\ jobs'[t.job].output = t.row.output /\ t.row.output # None
  BY <1>1, <1>2 DEF ReadHolds, Advances, Is
<1>5. t.pc = "row" /\ t.run # None /\ Is(t.job, {"completed"})' /\ ~jobs'[t.job].cacheHit =>
        t.row.status = "completed"
  BY <1>1, <1>2 DEF ReadHolds, Advances, Is
<1> QED
  BY <1>3, <1>4, <1>5 DEF ReadHolds, Is, Exists

\* Old leases stay below the attempt of their job.
LEMMA LeasesSurvive ==
    ASSUME TypeOK, TypeOK', Outcome, Progress, granted' = granted
    PROVE  LeasesArePast' /\ LeaseNamesAttempt'
<1>1. ASSUME NEW l \in granted
      PROVE  Exists(l.job)' /\ l.attempt <= jobs'[l.job].attempt
  <2>1. l.job \in Jobs /\ l.attempt \in Nat
    BY DEF TypeOK, Leases
  <2>2. jobs[l.job] \in Rows /\ jobs'[l.job] \in Rows
    BY <2>1 DEF TypeOK, Outcome, LeasesArePast, Progress, Exists
  <2>3. jobs[l.job].attempt \in Nat /\ jobs'[l.job].attempt \in Nat
    BY <2>2 DEF Rows
  <2> QED
    BY <2>1, <2>3 DEF Outcome, LeasesArePast, Progress, Advances
<1> QED
  BY <1>1 DEF LeasesArePast, LeaseNamesAttempt, Outcome, Exists

\* A step of the table, not of a transaction and not a claim.
LEMMA RowStepKeeps ==
    ASSUME TypeOK, TypeOK', Outcome, Progress, GoodRows', RunsAreDelivered',
           granted' = granted, create' = create
    PROVE  Outcome'
BY ReadSurvives, LeasesSurvive DEF Outcome, ReadsHold

\* A transaction that ends.
LEMMA FinishKeeps ==
    ASSUME TypeOK, TypeOK', Outcome, Progress, GoodRows', RunsAreDelivered',
           granted' = granted, NEW c \in Clients, NEW o, Finish(c, o)
    PROVE  Outcome'
<1>1. create'[c].pc = "idle" /\ \A d \in Clients \ {c} : create'[d] = create[d]
  BY DEF Finish, Idle, TypeOK
<1>2. ReadsHold'
  BY <1>1, ReadSurvives DEF ReadsHold, ReadHolds, Outcome
<1> QED
  BY <1>2, LeasesSurvive DEF Outcome

\* Rows and runs that stay are as good as before.
LEMMA NothingWritten ==
    ASSUME TypeOK, Outcome, jobs' = jobs, runs' = runs
    PROVE  Progress /\ GoodRows' /\ RunsAreDelivered'
<1>1. ASSUME NEW i \in Jobs, Exists(i)
      PROVE  Advances(jobs[i], jobs[i], runs[i])
  BY <1>1 DEF Advances, TypeOK, Exists, Rows
<1> QED
  BY <1>1 DEF Progress, Outcome, GoodRows, RunsAreDelivered, Is, Exists

------------------------------------------------------------------------------
(* The actions.                                                             *)

\* A row of the table, and what the invariant says of it.
LEMMA RowFacts ==
    ASSUME TypeOK, Outcome, NEW j \in Jobs, Exists(j)
    PROVE  /\ jobs[j] \in Rows /\ GoodRow(j, jobs[j], runs[j])
           /\ jobs[j].attempt \in Nat /\ jobs[j].token \in Nat
           /\ jobs[j].cacheHit \in BOOLEAN /\ jobs[j].live \in BOOLEAN
           /\ jobs[j].status \in Status
BY DEF TypeOK, Outcome, GoodRows, Exists, Rows

\* A statement that writes the status of an open row, and no "completed".
LEMMA StatusKeeps ==
    ASSUME TypeOK, TypeOK', Outcome, NEW j \in Jobs, Exists(j),
           NEW s \in Status \ {"completed"}, jobs[j].status # "completed",
           Write(j, [jobs[j] EXCEPT !.status = s]),
           s \in Active => jobs[j].status \in Active,
           s = "queued" => jobs[j].token = 0 /\ jobs[j].keys = 0,
           UNCHANGED <<runs, granted, create>>
    PROVE  Outcome' /\ Progress
<1> DEFINE q == jobs[j]
           r == [q EXCEPT !.status = s]
<1>1. q \in Rows /\ GoodRow(j, q, runs[j]) /\ q.attempt \in Nat
  BY RowFacts
<1>2. /\ r.status = s /\ r.attempt = q.attempt /\ r.token = q.token /\ r.live = q.live
      /\ r.keys = q.keys /\ r.output = q.output /\ r.resultRef = q.resultRef
      /\ r.cacheHit = q.cacheHit
  BY <1>1 DEF Rows
<1>3. r \in Rows
  BY <1>1 DEF Rows
<1>4. Write(j, r)
  OBVIOUS
<1> HIDE DEF r
<1>5. RowChecks(r)
  BY <1>1, <1>2
     DEF GoodRow, RowChecks, StatusChecks, ResultRefCheck, Active, Stopped, Status
<1>6. GoodRow(j, r, runs[j])
  BY <1>1, <1>2, <1>5 DEF GoodRow
<1>7. Advances(q, r, runs[j])
  BY <1>1, <1>2 DEF Advances
<1>8. j \notin InlineKeys => runs[j] = None
  BY DEF Outcome, RunsAreDelivered, Is
<1>9. Progress /\ GoodRows' /\ RunsAreDelivered'
  BY <1>3, <1>4, <1>6, <1>7, <1>8, WriteAdvances
<1> QED
  BY <1>9, RowStepKeeps

\* A statement that writes the staging keys.
LEMMA KeysKeep ==
    ASSUME TypeOK, TypeOK', Outcome, NEW j \in Jobs, Exists(j),
           NEW k \in {0, jobs[j].attempt},
           jobs[j].status # "queued",
           Write(j, [jobs[j] EXCEPT !.keys = k]),
           UNCHANGED <<runs, granted, create>>
    PROVE  Outcome' /\ Progress
<1> DEFINE q == jobs[j]
           r == [q EXCEPT !.keys = k]
<1>1. q \in Rows /\ GoodRow(j, q, runs[j]) /\ q.attempt \in Nat
  BY RowFacts
<1>2. /\ r.status = q.status /\ r.attempt = q.attempt /\ r.token = q.token
      /\ r.live = q.live /\ r.keys = k /\ r.output = q.output
      /\ r.resultRef = q.resultRef /\ r.cacheHit = q.cacheHit
  BY <1>1 DEF Rows
<1>3. r \in Rows
  BY <1>1 DEF Rows
<1>4. Write(j, r)
  OBVIOUS
<1> HIDE DEF r
<1>5. RowChecks(r)
  BY <1>1, <1>2 DEF GoodRow, RowChecks, StatusChecks, ResultRefCheck
<1>6. GoodRow(j, r, runs[j])
  BY <1>1, <1>2, <1>5 DEF GoodRow
<1>7. Advances(q, r, runs[j])
  BY <1>1, <1>2 DEF Advances
<1>8. j \notin InlineKeys /\ runs[j] # None => r.status = "completed"
  BY <1>2 DEF Outcome, RunsAreDelivered, Is
<1>9. Progress /\ GoodRows' /\ RunsAreDelivered'
  BY <1>3, <1>4, <1>6, <1>7, <1>8, WriteAdvances
<1> QED
  BY <1>9, RowStepKeeps

\* A statement that expires a lease, or clears the fence of a stopped row.
LEMMA FenceKeeps ==
    ASSUME TypeOK, TypeOK', Outcome, NEW j \in Jobs, Exists(j),
           NEW k \in {0, jobs[j].token}, k = 0 => jobs[j].status \in Stopped \/ jobs[j].token = 0,
           Write(j, [jobs[j] EXCEPT !.token = k, !.live = FALSE]),
           UNCHANGED <<runs, granted, create>>
    PROVE  Outcome' /\ Progress
<1> DEFINE q == jobs[j]
           r == [q EXCEPT !.token = k, !.live = FALSE]
<1>1. q \in Rows /\ GoodRow(j, q, runs[j]) /\ q.attempt \in Nat /\ q.token \in Nat
  BY RowFacts
<1>2. /\ r.status = q.status /\ r.attempt = q.attempt /\ r.token = k
      /\ r.live = FALSE /\ r.keys = q.keys /\ r.output = q.output
      /\ r.resultRef = q.resultRef /\ r.cacheHit = q.cacheHit
  BY <1>1 DEF Rows
<1>k. k \in Nat
  BY <1>1
<1>3. r \in Rows
  BY <1>1, <1>k DEF Rows
<1>4. Write(j, r)
  OBVIOUS
<1> HIDE DEF r
<1>5. RowChecks(r)
  BY <1>1, <1>2 DEF GoodRow, RowChecks, StatusChecks, ResultRefCheck
<1>6. GoodRow(j, r, runs[j])
  BY <1>1, <1>2, <1>5 DEF GoodRow
<1>7. Advances(q, r, runs[j])
  BY <1>1, <1>2 DEF Advances
<1>8. j \notin InlineKeys /\ runs[j] # None => r.status = "completed"
  BY <1>2 DEF Outcome, RunsAreDelivered, Is
<1>9. Progress /\ GoodRows' /\ RunsAreDelivered'
  BY <1>3, <1>4, <1>6, <1>7, <1>8, WriteAdvances
<1> QED
  BY <1>9, RowStepKeeps

\* A claim: no lease so far names the attempt it hands out.
LEMMA ClaimKeeps ==
    ASSUME TypeOK, TypeOK', Outcome, NEW j \in Jobs, ClaimNext(j)
    PROVE  Outcome' /\ Progress
<1> DEFINE q == jobs[j]
           a == q.attempt + 1
           k == Cardinality(granted) + 1
           r == [q EXCEPT !.status = "leased", !.attempt = a, !.token = k, !.live = TRUE]
           l == [job |-> j, attempt |-> a, token |-> k]
<1>0. Exists(j) /\ q.status = "queued" /\ ~Fenced(j)
  BY DEF ClaimNext, Is, NoFence
<1>1. q \in Rows /\ GoodRow(j, q, runs[j]) /\ q.attempt \in Nat
  BY <1>0, RowFacts
<1>2. k \in Nat /\ k # 0 /\ a \in Nat
  <2>1. Cardinality(granted) \in Nat
    BY FS_CardinalityType DEF TypeOK
  <2> QED BY <1>1, <2>1
<1>3. Write(j, r) /\ granted' = granted \cup {l} /\ runs' = runs /\ create' = create
  BY DEF ClaimNext
<1>4. l.job = j /\ l.attempt = a
  OBVIOUS
<1> HIDE DEF k, l
<1>5. /\ r.status = "leased" /\ r.attempt = a /\ r.token = k /\ r.live = TRUE
      /\ r.keys = q.keys /\ r.output = q.output /\ r.resultRef = q.resultRef
      /\ r.cacheHit = q.cacheHit
  BY <1>1 DEF Rows
<1>6. r \in Rows
  BY <1>1, <1>2 DEF Rows, Status, Active
<1> HIDE DEF r
<1>7. RowChecks(r)
  BY <1>0, <1>1, <1>2, <1>5
     DEF GoodRow, RowChecks, StatusChecks, ResultRefCheck, Active, Stopped
<1>8. GoodRow(j, r, runs[j])
  BY <1>0, <1>1, <1>5, <1>7 DEF GoodRow
<1>9. Advances(q, r, runs[j])
  BY <1>0, <1>1, <1>5 DEF Advances
<1>10. j \notin InlineKeys => runs[j] = None
  BY <1>0 DEF Outcome, RunsAreDelivered, Is
<1>11. Progress /\ GoodRows' /\ RunsAreDelivered'
  BY <1>3, <1>6, <1>8, <1>9, <1>10, WriteAdvances
<1>12. ReadsHold'
  BY <1>3, <1>11, ReadSurvives DEF Outcome, ReadsHold
<1>13. jobs'[j] = r /\ Exists(j)'
  BY <1>3, <1>6, NullIsNoRow DEF Write, TypeOK, Exists
<1>14. ASSUME NEW m \in granted
       PROVE  /\ Exists(m.job)' /\ m.attempt <= jobs'[m.job].attempt
              /\ ~(m.job = j /\ m.attempt = a)
  <2>1. m.job \in Jobs /\ m.attempt \in Nat
    BY DEF TypeOK, Leases
  <2>2. /\ Exists(m.job) /\ m.attempt <= jobs[m.job].attempt
        /\ Exists(m.job)' /\ jobs[m.job].attempt <= jobs'[m.job].attempt
    BY <1>11, <2>1 DEF Outcome, LeasesArePast, Progress, Advances
  <2>3. jobs[m.job].attempt \in Nat /\ jobs'[m.job].attempt \in Nat
    BY <2>1, <2>2 DEF TypeOK, Exists, Rows
  <2> QED
    BY <1>1, <2>1, <2>2, <2>3
<1>15. LeasesArePast'
  <2>1. a <= jobs'[j].attempt
    BY <1>2, <1>5, <1>13
  <2> QED BY <1>3, <1>4, <1>13, <1>14, <2>1 DEF LeasesArePast
<1>16. LeaseNamesAttempt'
  BY <1>3, <1>4, <1>14 DEF Outcome, LeaseNamesAttempt
<1> QED
  BY <1>11, <1>12, <1>15, <1>16 DEF Outcome

\* The columns an adoption writes satisfy the table's shape check, and an
\* adoption is settled.
LEMMA AdoptedShape ==
    ASSUME TypeOK, NEW n \in Names \cup {None}, NEW v \in Versions
    PROVE  LET a == Adopted(n, v) IN
           /\ (a.name = None) = (a.status = "none")
           /\ (a.version = None) = (a.status \in {"none", "pending"})
           /\ a.name = n /\ a.status # "pending"
           /\ a.status = "updated" => a.version = v
<1>1. None \notin Names /\ None \notin Versions
  BY ConstantsAssumption
<1>2. n # None => refs[n] \in RefRows
  BY DEF TypeOK
<1> QED
  BY <1>1, <1>2 DEF Adopted, NoResultRef, Adoptable, RefRows

\* A completion: the row, its run and its result ref agree.
LEMMA CompleteKeeps ==
    ASSUME TypeOK, TypeOK', Outcome, NEW l \in granted, NEW v \in Versions,
           CompleteTransformJob(l, v)
    PROVE  Outcome' /\ Progress
<1> DEFINE j == l.job
           q == jobs[j]
           b == runs[j] # None
           a == Adopted(q.resultRef.name, v)
           r == [q EXCEPT !.status = "completed", !.output = v, !.resultRef = a,
                          !.cacheHit = b, !.token = 0, !.live = FALSE]
<1>0. j \in Jobs /\ Exists(j) /\ q.status = "finalizing"
  BY DEF TypeOK, Leases, CompleteTransformJob, Holds, Is
<1>1. q \in Rows /\ GoodRow(j, q, runs[j]) /\ q.attempt \in Nat
  BY <1>0, RowFacts
<1>2. /\ Write(j, r) /\ granted' = granted /\ create' = create
      /\ runs[j] \in {None, v} /\ runs' = [runs EXCEPT ![j] = v]
  BY DEF CompleteTransformJob
<1>3. runs'[j] = v /\ \A i \in Jobs \ {j} : runs'[i] = runs[i]
  BY <1>0, <1>2 DEF TypeOK
<1>4. q.resultRef.name \in Names \cup {None}
  BY <1>1 DEF Rows, ResultRefs
<1>5. /\ (a.name = None) = (a.status = "none")
      /\ (a.version = None) = (a.status \in {"none", "pending"})
      /\ a.name = q.resultRef.name /\ a.status # "pending"
      /\ a.status = "updated" => a.version = v
  BY <1>4, AdoptedShape
<1>6. a \in ResultRefs
  BY <1>4, AdoptedType DEF TypeOK
<1>7. b \in BOOLEAN /\ (b = TRUE) = (runs[j] # None)
  OBVIOUS
<1>8. v # None
  BY ConstantsAssumption
<1> HIDE DEF a, b
<1>9. /\ r.status = "completed" /\ r.attempt = q.attempt /\ r.token = 0 /\ r.live = FALSE
      /\ r.keys = q.keys /\ r.output = v /\ r.resultRef = a /\ r.cacheHit = b
  BY <1>1 DEF Rows
<1>10. r \in Rows
  BY <1>1, <1>6, <1>7 DEF Rows, Status
<1> HIDE DEF r
<1>11. RowChecks(r)
  BY <1>1, <1>5, <1>8, <1>9
     DEF GoodRow, RowChecks, StatusChecks, ResultRefCheck, Active, Stopped
<1>12. j \notin InlineKeys => runs[j] = None
  BY <1>0 DEF Outcome, RunsAreDelivered, Is
<1>13. GoodRow(j, r, runs'[j])
  BY <1>3, <1>5, <1>7, <1>9, <1>11, <1>12 DEF GoodRow
<1>14. Advances(q, r, runs[j])
  BY <1>0, <1>1, <1>7, <1>9 DEF Advances
<1>15. Progress /\ GoodRows' /\ RunsAreDelivered'
  BY <1>0, <1>2, <1>3, <1>9, <1>10, <1>13, <1>14, WriteAdvances
<1> QED
  BY <1>2, <1>15, RowStepKeeps

\* The inline route registers a run no row has been completed with.
LEMMA RegisterKeeps ==
    ASSUME TypeOK, TypeOK', Outcome, NEW j \in Jobs, NEW v \in Versions,
           RegisterTransformResult(j, v)
    PROVE  Outcome' /\ Progress
<1>1. /\ j \in InlineKeys /\ runs[j] = None /\ jobs' = jobs
      /\ granted' = granted /\ create' = create
      /\ \A i \in Jobs \ {j} : runs'[i] = runs[i]
  BY DEF RegisterTransformResult, TypeOK
<1>2. ASSUME NEW i \in Jobs, Exists(i)
      PROVE  /\ Advances(jobs[i], jobs[i], runs[i])
             /\ GoodRow(i, jobs[i], runs[i])
  BY <1>2, RowFacts DEF Advances
<1>3. Exists(j) => jobs[j].status # "completed"
  BY <1>1, <1>2 DEF GoodRow, RowChecks, StatusChecks, ResultRefCheck
<1>4. Exists(j) => GoodRow(j, jobs[j], runs'[j])
  BY <1>2, <1>3 DEF GoodRow
<1>5. Progress
  BY <1>1, <1>2 DEF Progress, Exists
<1>6. GoodRows'
  BY <1>1, <1>2, <1>4 DEF GoodRows, Exists
<1>7. RunsAreDelivered'
  BY <1>1 DEF Outcome, RunsAreDelivered, Is, Exists
<1> QED
  BY <1>1, <1>5, <1>6, <1>7, RowStepKeeps

\* Every statement under a lease keeps the invariant.
LEMMA LeaseKeeps ==
    ASSUME TypeOK, TypeOK', Outcome, NEW l \in granted, LeaseStep(l)
    PROVE  Outcome' /\ Progress
<1> DEFINE j == l.job
           q == jobs[j]
<1>0. j \in Jobs /\ l.attempt \in Nat /\ l.token \in Nat
  BY DEF TypeOK, Leases
<1>1. ASSUME NEW S \in SUBSET Active, NEW s \in Status \ {"completed", "queued"},
             Transition(l, S, s)
      PROVE  Outcome' /\ Progress
  <2>1. Exists(j) /\ q.status \in Active /\ q.status # "completed"
    BY <1>1 DEF Transition, Holds, Is, Active
  <2>2. Write(j, [q EXCEPT !.status = s]) /\ UNCHANGED <<runs, granted, create>>
    BY <1>1 DEF Transition
  <2> QED
    BY <1>0, <2>1, <2>2, StatusKeeps
<1>2. CASE MarkRunning(l) \/ MarkFinalizing(l) \/ MarkFailed(l) \/ MarkCancelled(l)
  <2>1. {"leased"} \in SUBSET Active /\ {"running"} \in SUBSET Active /\ Active \in SUBSET Active
    BY DEF Active
  <2>2. {"running", "finalizing", "failed", "cancelled"} \subseteq Status \ {"completed", "queued"}
    BY DEF Status, Active, Stopped
  <2> QED
    BY <1>1, <1>2, <2>1, <2>2 DEF MarkRunning, MarkFinalizing, MarkFailed, MarkCancelled
<1>3. CASE SetStagingKeys(l)
  <2>1. Exists(j) /\ q.status = "leased" /\ q.attempt = l.attempt
    BY <1>3 DEF SetStagingKeys, Holds, Is
  <2>2. Write(j, [q EXCEPT !.keys = l.attempt]) /\ UNCHANGED <<runs, granted, create>>
    BY <1>3 DEF SetStagingKeys
  <2> QED
    BY <1>0, <2>1, <2>2, KeysKeep
<1>4. CASE ClearStagingKeys(l)
  <2>1. Exists(j) /\ q.status # "queued"
    BY <1>4 DEF ClearStagingKeys, HoldsFence, Is, Stopped
  <2>2. Write(j, [q EXCEPT !.keys = 0]) /\ UNCHANGED <<runs, granted, create>>
    BY <1>4 DEF ClearStagingKeys
  <2> QED
    BY <1>0, <2>1, <2>2, KeysKeep
<1>5. CASE ClearLeaseFence(l)
  <2>1. Exists(j) /\ q.status \in Stopped
    BY <1>5 DEF ClearLeaseFence, HoldsFence, Is
  <2>2. Write(j, [q EXCEPT !.token = 0, !.live = FALSE]) /\ UNCHANGED <<runs, granted, create>>
    BY <1>5 DEF ClearLeaseFence
  <2> QED
    BY <1>0, <2>1, <2>2, FenceKeeps
<1> QED
  BY <1>2, <1>3, <1>4, <1>5, CompleteKeeps DEF LeaseStep

\* Claims, expiries, cancellations, retries, inline runs and the cleanup of a
\* completed job keep the invariant.
LEMMA RowKeeps ==
    ASSUME TypeOK, TypeOK', Outcome, NEW j \in Jobs, RowStep(j)
    PROVE  Outcome' /\ Progress
<1> DEFINE q == jobs[j]
<1>1. CASE LeaseExpires(j)
  <2>1. Exists(j)
    BY <1>1 DEF LeaseExpires, Fenced
  <2>2. Write(j, [q EXCEPT !.live = FALSE]) /\ UNCHANGED <<runs, granted, create>>
    BY <1>1 DEF LeaseExpires
  <2>3. q.token # 0
    BY <1>1 DEF LeaseExpires, Fenced
  <2>4. [q EXCEPT !.live = FALSE] = [q EXCEPT !.token = q.token, !.live = FALSE]
    BY <2>1, RowFacts DEF Rows
  <2> QED
    BY <2>1, <2>2, <2>3, <2>4, FenceKeeps
<1>2. CASE RequestCancellation(j)
  <2>1. Exists(j) /\ q.status # "completed" /\ "cancelled" \in Status \ {"completed"}
    BY <1>2 DEF RequestCancellation, Is, Active, Status, Stopped
  <2>2. Write(j, [q EXCEPT !.status = "cancelled"]) /\ UNCHANGED <<runs, granted, create>>
    BY <1>2 DEF RequestCancellation
  <2>3. "cancelled" \notin Active
    BY DEF Active
  <2> QED
    BY <2>1, <2>2, <2>3, StatusKeeps
<1>3. CASE Retry(j)
  <2>1. Exists(j) /\ q.status # "completed" /\ "queued" \in Status \ {"completed"}
    BY <1>3 DEF Retry, Is, Status, Stopped
  <2>2. /\ Write(j, [q EXCEPT !.status = "queued"]) /\ UNCHANGED <<runs, granted, create>>
        /\ q.token = 0 /\ q.keys = 0
    BY <1>3 DEF Retry
  <2>3. "queued" \notin Active
    BY DEF Active
  <2> QED
    BY <2>1, <2>2, <2>3, StatusKeeps
<1>4. ASSUME NEW a, NEW v \in Versions, ClearCompletedStagingKeys(j, a, v)
      PROVE  Outcome' /\ Progress
  <2>1. Exists(j) /\ q.status # "queued"
    BY <1>4 DEF ClearCompletedStagingKeys, Is
  <2>2. Write(j, [q EXCEPT !.keys = 0]) /\ UNCHANGED <<runs, granted, create>>
    BY <1>4 DEF ClearCompletedStagingKeys
  <2> QED
    BY <2>1, <2>2, KeysKeep
<1> QED
  BY <1>1, <1>2, <1>3, <1>4, ClaimKeeps, RegisterKeeps DEF RowStep

\* The statement that fails every expired row at once keeps the invariant.
LEMMA ExpiryKeeps ==
    ASSUME TypeOK, TypeOK', Outcome, FailExpired
    PROVE  Outcome' /\ Progress
<1>1. ASSUME NEW j \in Jobs, Expired(j)
      PROVE  /\ GoodRow(j, [jobs[j] EXCEPT !.status = "failed"], runs[j])
             /\ Advances(jobs[j], [jobs[j] EXCEPT !.status = "failed"], runs[j])
  <2> DEFINE q == jobs[j]
             r == [q EXCEPT !.status = "failed"]
  <2>1. q.status \in Active /\ Exists(j)
    BY <1>1 DEF Expired, Is
  <2>2. q \in Rows /\ GoodRow(j, q, runs[j]) /\ q.attempt \in Nat
    BY <2>1, RowFacts
  <2>3. /\ r.status = "failed" /\ r.attempt = q.attempt /\ r.token = q.token
        /\ r.live = q.live /\ r.keys = q.keys /\ r.output = q.output
        /\ r.resultRef = q.resultRef /\ r.cacheHit = q.cacheHit
    BY <2>2 DEF Rows
  <2> HIDE DEF r
  <2>4. RowChecks(r)
    BY <2>1, <2>2, <2>3
       DEF GoodRow, RowChecks, StatusChecks, ResultRefCheck, Active, Stopped
  <2>5. GoodRow(j, r, runs[j]) /\ Advances(q, r, runs[j])
    BY <2>1, <2>2, <2>3, <2>4 DEF GoodRow, Advances, Active
  <2> QED
    BY <2>5 DEF r
<1>2. ASSUME NEW j \in Jobs, Exists(j), ~Expired(j)
      PROVE  GoodRow(j, jobs[j], runs[j]) /\ Advances(jobs[j], jobs[j], runs[j])
  BY <1>2, RowFacts DEF Advances
<1>3. /\ runs' = runs /\ granted' = granted /\ create' = create
      /\ \A j \in Jobs :
            jobs'[j] = IF Expired(j) THEN [jobs[j] EXCEPT !.status = "failed"] ELSE jobs[j]
  BY DEF FailExpired
<1>4. ASSUME NEW j \in Jobs, Exists(j)
      PROVE  Exists(j)'
  <2>1. Expired(j) => [jobs[j] EXCEPT !.status = "failed"] \in Rows
    BY <1>4, RowFacts DEF Rows, Status, Stopped
  <2> QED
    BY <1>3, <1>4, <2>1, NullIsNoRow DEF Exists
<1>5. Progress
  BY <1>1, <1>2, <1>3, <1>4 DEF Progress
<1>6. \A j \in Jobs : Exists(j)' => Exists(j)
  BY <1>3 DEF Exists, Expired, Is
<1>7. GoodRows'
  BY <1>1, <1>2, <1>3, <1>6 DEF GoodRows
<1>8. RunsAreDelivered'
  BY <1>3, <1>4 DEF Outcome, RunsAreDelivered, Is, Expired, Active
<1> QED
  BY <1>3, <1>5, <1>7, <1>8, RowStepKeeps

\* Writers of refs_v2 other than adoption touch none of it.
LEMMA RefKeeps ==
    ASSUME TypeOK, TypeOK', Outcome, RefStep
    PROVE  Outcome' /\ Progress
<1>1. UNCHANGED <<jobs, runs, granted, create>>
  BY DEF RefStep, TrashRef, SetRef
<1> QED
  BY <1>1, NothingWritten, RowStepKeeps

------------------------------------------------------------------------------
(* createOrReadTransformJob.                                                *)

\* A transaction that inserts its row inserts a good one.
LEMMA InsertKeeps ==
    ASSUME TypeOK, TypeOK', Outcome, NEW c \in Clients, CreateInsert(c)
    PROVE  Outcome' /\ Progress
<1> DEFINE t == create[c]
           j == t.job
<1>0. j \in Jobs /\ ~Exists(j) /\ t.pc # "idle"
  BY DEF CreateInsert, TypeOK
<1>1. t.name \in Names \cup {None} /\ t.run \in Versions \cup {None}
  BY DEF TypeOK, Creates
<1>2. j \notin InlineKeys => runs[j] = None
  BY <1>0 DEF Outcome, RunsAreDelivered, Is
<1>3. t.run # None => runs[j] = t.run
  BY <1>0 DEF Outcome, ReadsHold, ReadHolds
<1>4. runs' = runs /\ granted' = granted /\ Finish(c, "ok")
  BY DEF CreateInsert
<1>5. ASSUME NEW ref \in ResultRefs, Write(j, NewRow(t.run, ref)),
             (ref.name = None) = (ref.status = "none"),
             (ref.version = None) = (ref.status \in {"none", "pending"}),
             t.run = None => ref.status \in {"none", "pending"},
             t.run # None => ref.status # "pending",
             ref.status = "updated" => ref.version = t.run
      PROVE  Outcome' /\ Progress
  <2> DEFINE r == NewRow(t.run, ref)
  <2>1. r \in Rows
    BY <1>1, NewRowType
  <2>2. /\ r.status = IF t.run = None THEN "queued" ELSE "completed"
        /\ r.attempt = 0 /\ r.token = 0 /\ r.live = FALSE /\ r.keys = 0
        /\ r.output = t.run /\ r.resultRef = ref
    BY DEF NewRow
  <2>3. r.cacheHit = (t.run # None)
    BY DEF NewRow
  <2>4. Write(j, r)
    BY <1>5
  <2> HIDE DEF r
  <2>5. RowChecks(r)
    <3>1. CASE t.run = None
      <4>1. r.status = "queued" /\ r.output = None /\ r.cacheHit = FALSE
        BY <2>2, <2>3, <3>1
      <4>2. (ref.version = None) = (ref.status \in {"none", "pending"})
        BY <1>5
      <4>3. (ref.name = None) = (ref.status = "none")
        BY <1>5
      <4> QED BY <2>2, <4>1, <4>2, <4>3
         DEF RowChecks, StatusChecks, ResultRefCheck, Active, Stopped
    <3>2. CASE t.run # None
      BY <1>5, <2>2, <2>3, <3>2
         DEF RowChecks, StatusChecks, ResultRefCheck, Active, Stopped
    <3> QED BY <3>1, <3>2
  <2>6. GoodRow(j, r, runs[j])
    BY <1>2, <1>3, <1>5, <2>2, <2>3, <2>5 DEF GoodRow
  <2>7. Progress /\ GoodRows' /\ RunsAreDelivered'
    BY <1>0, <1>2, <1>4, <2>1, <2>4, <2>6, WriteAdvances
  <2> QED
    BY <1>4, <2>7, FinishKeeps
<1>6. CASE t.run = None
  <2> DEFINE ref == IF t.name = None THEN NoResultRef ELSE Pending(t.name)
  <2>1. /\ ref \in ResultRefs /\ (ref.name = None) = (ref.status = "none")
        /\ ref.version = None /\ ref.status \in {"none", "pending"}
    BY <1>1, ConstantsAssumption DEF NoResultRef, Pending, ResultRefs
  <2>2. Write(j, NewRow(t.run, ref))
    BY <1>6 DEF CreateInsert
  <2> HIDE DEF ref
  <2> QED
    BY <1>5, <1>6, <2>1, <2>2
<1>7. CASE t.run # None
  <2> DEFINE ref == Adopted(t.name, t.run)
  <2>1. t.run \in Versions
    BY <1>1, <1>7
  <2>2. ref \in ResultRefs
    BY <1>1, AdoptedType DEF TypeOK
  <2>3. /\ (ref.name = None) = (ref.status = "none")
        /\ (ref.version = None) = (ref.status \in {"none", "pending"})
        /\ ref.status # "pending"
        /\ ref.status = "updated" => ref.version = t.run
    BY <1>1, <2>1, AdoptedShape
  <2>4. Write(j, NewRow(t.run, ref))
    BY <1>7 DEF CreateInsert
  <2> HIDE DEF ref
  <2> QED
    BY <1>5, <1>7, <2>2, <2>3, <2>4
<1> QED
  BY <1>6, <1>7

\* The row a transaction commits when it changes no more than the name.
LEMMA CurrentRowIsGood ==
    ASSUME TypeOK, Outcome, NEW c \in Clients, create[c].pc = "row",
           ~Inconsistent(create[c])
    PROVE  LET t == create[c]
               q == jobs[t.job]
               r == CurrentRow(t)
           IN  /\ r \in Rows /\ GoodRow(t.job, r, runs[t.job])
               /\ r.status = q.status /\ r.attempt = q.attempt
               /\ r.output = q.output /\ r.cacheHit = q.cacheHit
<1> DEFINE t == create[c]
           j == t.job
           q == jobs[j]
           r == CurrentRow(t)
<1>0. j \in Jobs /\ Exists(j) /\ t.row \in Rows /\ t.pc # "idle"
  BY DEF TypeOK
<1>1. q \in Rows /\ GoodRow(j, q, runs[j]) /\ q.cacheHit \in BOOLEAN
  BY <1>0, RowFacts
<1>2. t.name \in Names \cup {None} /\ t.row.output \in Versions \cup {None}
  BY <1>0 DEF TypeOK, Creates, Rows
<1>3. r \in Rows
  BY WorkingRowType
<1>4. CASE ~Attaches(t)
  <2>1. r = q
    BY <1>4 DEF CurrentRow
  <2> QED
    BY <1>1, <2>1
<1>5. CASE Attaches(t)
  <2> DEFINE ref == IF t.row.status = "completed" THEN Adopted(t.name, t.row.output)
                    ELSE Pending(t.name)
  <2>1. t.name # None
    BY <1>5 DEF Attaches
  <2>2. r = [q EXCEPT !.resultRef = ref] /\ r = WorkingRow(t)
    BY <1>5 DEF CurrentRow, WorkingRow
  <2>3. ~(r.status = "completed" /\ t.run # r.output)
    BY <2>2 DEF Inconsistent
  <2>4. t.row.status = "completed" =>
           q.status = "completed" /\ q.output = t.row.output /\ t.row.output \in Versions
    BY <1>0, <1>2 DEF Outcome, ReadsHold, ReadHolds, Is
  <2>5. t.run # None /\ q.status = "completed" /\ ~q.cacheHit => t.row.status = "completed"
    BY <1>0 DEF Outcome, ReadsHold, ReadHolds, Is
  <2>6. q.status = "completed" => q.output # None
    BY <1>1 DEF GoodRow, RowChecks, StatusChecks, ResultRefCheck
  <2>7. /\ (ref.name = None) = (ref.status = "none")
        /\ (ref.version = None) = (ref.status \in {"none", "pending"})
        /\ (t.row.status = "completed") = (ref.status # "pending")
        /\ ref.status = "updated" => ref.version = q.output
    <3>1. CASE t.row.status = "completed"
      BY <1>2, <2>4, <3>1, AdoptedShape
    <3>2. CASE t.row.status # "completed"
      BY <2>1, <3>2 DEF Pending
    <3> QED BY <3>1, <3>2
  <2> HIDE DEF ref
  <2>8. /\ r.status = q.status /\ r.attempt = q.attempt /\ r.token = q.token
        /\ r.live = q.live /\ r.keys = q.keys /\ r.output = q.output
        /\ r.resultRef = ref /\ r.cacheHit = q.cacheHit
    BY <1>1, <2>2 DEF Rows
  <2> HIDE DEF r
  <2>9. RowChecks(r)
    BY <1>1, <2>7, <2>8 DEF GoodRow, RowChecks, StatusChecks, ResultRefCheck
  <2>10. GoodRow(j, r, runs[j])
    BY <1>1, <2>3, <2>4, <2>5, <2>6, <2>7, <2>8, <2>9 DEF GoodRow
  <2> QED
    BY <1>3, <2>8, <2>10 DEF r
<1> QED
  BY <1>4, <1>5

\* The row of the cache-hit UPDATE, when the table does not refuse it.
LEMMA HitRowIsGood ==
    ASSUME TypeOK, Outcome, NEW c \in Clients, create[c].pc = "row",
           ~Inconsistent(create[c]), ~Refused(create[c]), Hits(create[c])
    PROVE  LET t == create[c]
               q == jobs[t.job]
               h == HitRow(t)
           IN  /\ h \in Rows /\ GoodRow(t.job, h, runs[t.job])
               /\ h.status = "completed" /\ h.cacheHit /\ h.attempt = q.attempt
               /\ h.output = t.run /\ t.run \in Versions
               /\ q.status = "queued" /\ q.token = 0
<1> DEFINE t == create[c]
           j == t.job
           q == jobs[j]
           w == WorkingRow(t)
           r == CurrentRow(t)
           a == Adopted(w.resultRef.name, t.run)
           h == HitRow(t)
<1>0. j \in Jobs /\ Exists(j) /\ t.pc # "idle"
  BY DEF TypeOK
<1>1. /\ r \in Rows /\ GoodRow(j, r, runs[j])
      /\ r.status = q.status /\ r.attempt = q.attempt
  BY CurrentRowIsGood
<1>2. w \in Rows
  BY WorkingRowType
<1>3. t.run # None /\ r.status = "queued" /\ r.attempt = 0 /\ r.token = 0
  BY DEF Hits, TakesHit
<1>4. t.run \in Versions
  BY <1>3 DEF TypeOK, Creates
<1>5. runs[j] = t.run
  BY <1>0, <1>3 DEF Outcome, ReadsHold, ReadHolds
<1>6. j \in InlineKeys
  BY <1>0, <1>1, <1>3, <1>5 DEF Outcome, RunsAreDelivered, Is
<1>7. w.resultRef.name = r.resultRef.name
  BY DEF Refused
<1>8. w.resultRef.name \in Names \cup {None}
  BY <1>2 DEF Rows, ResultRefs
<1>9. /\ (a.name = None) = (a.status = "none")
      /\ (a.version = None) = (a.status \in {"none", "pending"})
      /\ a.name = r.resultRef.name /\ a.status # "pending"
      /\ a.status = "updated" => a.version = t.run
  BY <1>4, <1>7, <1>8, AdoptedShape
<1>10. a \in ResultRefs
  BY <1>4, <1>8, AdoptedType DEF TypeOK
<1>11. [a EXCEPT !.name = r.resultRef.name] = a
  BY <1>9, <1>10 DEF ResultRefs
<1>12. h = [r EXCEPT !.status = "completed", !.output = t.run, !.cacheHit = TRUE,
                     !.resultRef = a]
  BY <1>11 DEF HitRow
<1>13. q.token = 0
  <2>1. q \in Rows
    BY <1>0, RowFacts
  <2>2. CASE Attaches(t)
    <3>1. PICK ref : r = [q EXCEPT !.resultRef = ref]
      BY <2>2 DEF CurrentRow, WorkingRow
    <3> HIDE DEF r
    <3> QED BY <1>3, <2>1, <3>1 DEF Rows
  <2>3. CASE ~Attaches(t)
    BY <1>3, <2>3 DEF CurrentRow
  <2> QED BY <2>2, <2>3
<1> HIDE DEF a, r, h
<1>14. /\ h.status = "completed" /\ h.output = t.run /\ h.cacheHit = TRUE
       /\ h.resultRef = a /\ h.attempt = r.attempt /\ h.token = r.token
       /\ h.live = r.live /\ h.keys = r.keys
  BY <1>1, <1>12 DEF Rows
<1>15. h \in Rows
  BY <1>1, <1>4, <1>10, <1>12 DEF Rows, Status
<1>16. RowChecks(h)
  BY <1>1, <1>3, <1>9, <1>14
     DEF GoodRow, RowChecks, StatusChecks, ResultRefCheck, Active, Stopped
<1>17. GoodRow(j, h, runs[j])
  BY <1>5, <1>6, <1>14, <1>16 DEF GoodRow
<1> QED
  BY <1>1, <1>3, <1>4, <1>13, <1>14, <1>15, <1>17 DEF h

\* Every step of createOrReadTransformJob keeps the invariant.
LEMMA CreateKeeps ==
    ASSUME TypeOK, TypeOK', Outcome, NEW c \in Clients, CreateStep(c)
    PROVE  Outcome' /\ Progress
<1> DEFINE t == create[c]
           j == t.job
           q == jobs[j]
<1>1. ASSUME NEW k \in Jobs, NEW n \in Names \cup {None}, CreateBegin(c, k, n)
      PROVE  Outcome' /\ Progress
  <2>1. UNCHANGED <<jobs, runs, granted>>
    BY <1>1 DEF CreateBegin
  <2>2. Progress /\ GoodRows' /\ RunsAreDelivered'
    BY <2>1, NothingWritten
  <2>3. /\ create'[c].pc = "run" /\ create'[c].job = k /\ create'[c].run = runs[k]
        /\ \A d \in Clients \ {c} : create'[d] = create[d]
    BY <1>1 DEF CreateBegin, TypeOK
  <2>4. ReadHolds(create[c])'
    BY <2>1, <2>3 DEF ReadHolds
  <2>5. ReadsHold'
    BY <2>2, <2>3, <2>4, ReadSurvives DEF Outcome, ReadsHold
  <2> QED
    BY <2>1, <2>2, <2>5, LeasesSurvive DEF Outcome
<1>2. CASE CreateRead(c)
  <2>1. UNCHANGED <<jobs, runs, granted>> /\ Exists(j) /\ t.pc = "run" /\ j \in Jobs
    BY <1>2 DEF CreateRead, TypeOK
  <2>2. Progress /\ GoodRows' /\ RunsAreDelivered'
    BY <2>1, NothingWritten
  <2>3. CASE Finish(c, "determinism")
    BY <2>1, <2>2, <2>3, FinishKeeps
  <2>4. CASE create' = [create EXCEPT ![c] = [t EXCEPT !.pc = "row", !.row = q]]
    <3> DEFINE u == [t EXCEPT !.pc = "row", !.row = q]
    <3>1. u.pc = "row" /\ u.row = q /\ u.job = j /\ u.run = t.run
      BY DEF TypeOK, Creates
    <3>2. create'[c] = u /\ \A d \in Clients \ {c} : create'[d] = create[d]
      BY <2>4 DEF TypeOK
    <3> HIDE DEF u
    <3>3. t.run # None => runs[j] = t.run
      BY <2>1 DEF Outcome, ReadsHold, ReadHolds
    <3>4. q.status = "completed" => q.output # None
      BY <2>1, RowFacts DEF GoodRow, RowChecks, StatusChecks, ResultRefCheck
    <3>5. ReadHolds(create[c])'
      BY <2>1, <3>1, <3>2, <3>3, <3>4 DEF ReadHolds, Is, Exists
    <3>6. ReadsHold'
      BY <2>2, <3>2, <3>5, ReadSurvives DEF Outcome, ReadsHold
    <3> QED
      BY <2>1, <2>2, <3>6, LeasesSurvive DEF Outcome
  <2> QED
    BY <1>2, <2>3, <2>4 DEF CreateRead
<1>3. CASE CreateAbort(c) \/ CreateRefused(c)
  <2>1. UNCHANGED <<jobs, runs, granted>> /\ \E o : Finish(c, o)
    BY <1>3 DEF CreateAbort, CreateRefused
  <2> QED
    BY <2>1, NothingWritten, FinishKeeps
<1>4. CASE CreateCommit(c)
  <2> DEFINE r == CurrentRow(t)
             h == HitRow(t)
  <2>1. /\ t.pc = "row" /\ ~Inconsistent(t) /\ ~Refused(t)
        /\ runs' = runs /\ granted' = granted /\ Finish(c, "ok")
        /\ Write(j, IF Hits(t) THEN h ELSE r)
    BY <1>4 DEF CreateCommit
  <2>2. j \in Jobs /\ Exists(j)
    BY <2>1 DEF TypeOK
  <2>3. /\ q.attempt \in Nat /\ q.cacheHit \in BOOLEAN
        /\ j \notin InlineKeys /\ runs[j] # None => q.status = "completed"
    BY <2>2, RowFacts DEF Outcome, RunsAreDelivered, Is
  <2>4. CASE ~Hits(t)
    <3>1. /\ r \in Rows /\ GoodRow(j, r, runs[j])
          /\ r.status = q.status /\ r.attempt = q.attempt
          /\ r.output = q.output /\ r.cacheHit = q.cacheHit
      BY <2>1, CurrentRowIsGood
    <3>2. Write(j, r)
      BY <2>1, <2>4
    <3> HIDE DEF r
    <3>3. Advances(q, r, runs[j])
      BY <2>3, <3>1 DEF Advances
    <3>4. Progress /\ GoodRows' /\ RunsAreDelivered'
      BY <2>1, <2>2, <2>3, <3>1, <3>2, <3>3, WriteAdvances
    <3> QED
      BY <2>1, <3>4, FinishKeeps
  <2>5. CASE Hits(t)
    <3>1. /\ h \in Rows /\ GoodRow(j, h, runs[j])
          /\ h.status = "completed" /\ h.cacheHit /\ h.attempt = q.attempt
          /\ q.status = "queued"
      BY <2>1, <2>5, HitRowIsGood
    <3>2. Write(j, h)
      BY <2>1, <2>5
    <3> HIDE DEF h
    <3>3. Advances(q, h, runs[j])
      BY <2>3, <3>1 DEF Advances
    <3>4. Progress /\ GoodRows' /\ RunsAreDelivered'
      BY <2>1, <2>2, <3>1, <3>2, <3>3, WriteAdvances
    <3> QED
      BY <2>1, <3>4, FinishKeeps
  <2> QED
    BY <2>4, <2>5
<1> QED
  BY <1>1, <1>2, <1>3, <1>4, InsertKeeps DEF CreateStep

------------------------------------------------------------------------------
(* The theorems.                                                            *)

\* The empty table satisfies the invariant.
LEMMA OutcomeInit == Init => Outcome
BY DEF Init, Idle, Outcome, GoodRows, RunsAreDelivered, ReadsHold, ReadHolds,
   LeasesArePast, LeaseNamesAttempt, Exists

\* The invariant is inductive over typed states, and every step is progress.
LEMMA OutcomeStep ==
    ASSUME TypeOK, TypeOK', Outcome, [Next]_vars
    PROVE  Outcome' /\ Progress
<1>1. CASE UNCHANGED vars
  BY <1>1, NothingWritten, RowStepKeeps DEF vars
<1> QED
  BY <1>1, CreateKeeps, LeaseKeeps, RowKeeps, ExpiryKeeps, RefKeeps DEF Next

\* Every reachable state is typed and satisfies the invariant.
LEMMA OutcomeAlways == Spec => [](TypeOK /\ Outcome)
BY InitTyped, OutcomeInit, NextTyped, OutcomeStep, PTL DEF Spec

\* No row violates a CHECK constraint.  RefusedExactly says which of them the
\* statements keep by themselves and which the database has to enforce.
THEOREM RowsPassTheChecks == Spec => []TableChecks
<1>1. TypeOK /\ Outcome => TableChecks
  BY DEF Outcome, GoodRows, GoodRow, TableChecks, Existing
<1> QED BY <1>1, OutcomeAlways, PTL

------------------------------------------------------------------------------
(* What the database refuses.                                               *)

\* The result ref name of a job is attached once and stays.
NamesAreKept ==
    \A j \in Existing : jobs[j].resultRef.name # None =>
        Exists(j)' /\ jobs'[j].resultRef.name = jobs[j].resultRef.name

\* A name a transaction has read is the name of the row until it commits.
ReadNames ==
    \A c \in Clients : LET t == create[c] IN
        t.pc = "row" /\ t.row.resultRef.name # None =>
            jobs[t.job].resultRef.name = t.row.resultRef.name

\* Of a cache hit the database refuses exactly what violates the check on the
\* result_ref columns; it satisfies every other check, refused or not.
RefusalIsExact ==
    \A c \in Clients : LET t == create[c] IN
        t.pc = "row" /\ ~Inconsistent(t) /\ Hits(t) =>
            /\ StatusChecks(HitRow(t))
            /\ Refused(t) <=> ~ResultRefCheck(HitRow(t))

\* Names stay when no row is written.
LEMMA NoNameWritten ==
    ASSUME jobs' = jobs
    PROVE  NamesAreKept
BY DEF NamesAreKept, Existing, Exists

\* Names stay when the one row written keeps its own.
LEMMA NameWritten ==
    ASSUME TypeOK, Progress, NEW j \in Jobs, NEW r, Write(j, r),
           Exists(j) /\ jobs[j].resultRef.name # None =>
               r.resultRef.name = jobs[j].resultRef.name
    PROVE  NamesAreKept
<1>1. jobs'[j] = r /\ \A i \in Jobs \ {j} : jobs'[i] = jobs[i]
  BY DEF Write, TypeOK
<1> QED
  BY <1>1 DEF NamesAreKept, Existing, Progress

\* A step of createOrReadTransformJob attaches a name only where there is none.
LEMMA CreateKeepsNames ==
    ASSUME TypeOK, Outcome, Progress, ReadNames, NEW c \in Clients, CreateStep(c)
    PROVE  NamesAreKept
<1> DEFINE t == create[c]
           q == jobs[t.job]
<1>1. CASE jobs' = jobs
  BY <1>1, NoNameWritten
<1>2. CASE CreateInsert(c)
  <2>1. t.pc = "run" /\ t.job \in Jobs /\ ~Exists(t.job)
    BY <1>2 DEF CreateInsert, TypeOK
  <2>2. \E r : Write(t.job, r)
    BY <1>2 DEF CreateInsert
  <2> QED
    BY <2>1, <2>2, NameWritten
<1>3. CASE CreateCommit(c)
  <2> DEFINE w == CurrentRow(t)
  <2>1. t.pc = "row" /\ ~Inconsistent(t) /\ t.job \in Jobs /\ Exists(t.job)
    BY <1>3 DEF CreateCommit, TypeOK
  <2>2. w \in Rows
    BY <2>1, CurrentRowIsGood
  <2>3. q.resultRef.name # None => w = q
    BY <2>1 DEF Inconsistent, CurrentRow
  <2> HIDE DEF w
  <2>4. HitRow(t).resultRef.name = w.resultRef.name
    <3>1. \A ref : [w EXCEPT !.status = "completed", !.output = t.run, !.cacheHit = TRUE,
                             !.resultRef = ref].resultRef = ref
      BY <2>2 DEF Rows
    <3>2. \A x : [Adopted(WorkingRow(t).resultRef.name, t.run) EXCEPT !.name = x].name = x
      BY DEF Adopted, NoResultRef
    <3> QED
      BY <3>1, <3>2 DEF HitRow, w
  <2>5. PICK r : Write(t.job, r) /\ (r = w \/ r = HitRow(t))
    BY <1>3 DEF CreateCommit, w
  <2> QED
    BY <2>1, <2>3, <2>4, <2>5, NameWritten
<1> QED
  BY <1>1, <1>2, <1>3
  DEF CreateStep, CreateBegin, CreateRead, CreateAbort, CreateRefused

\* A statement under a lease leaves the name alone; a completion settles it.
LEMMA LeaseKeepsNames ==
    ASSUME TypeOK, Outcome, Progress, NEW l \in granted, LeaseStep(l)
    PROVE  NamesAreKept
<1> DEFINE j == l.job
           q == jobs[j]
<1>0. j \in Jobs
  BY DEF TypeOK, Leases
<1>1. ASSUME NEW S, NEW s, Transition(l, S, s)
      PROVE  NamesAreKept
  <2>1. Exists(j) /\ Write(j, [q EXCEPT !.status = s])
    BY <1>1 DEF Transition, Holds, Is
  <2>2. [q EXCEPT !.status = s].resultRef = q.resultRef
    BY <1>0, <2>1, RowFacts DEF Rows
  <2> QED
    BY <1>0, <2>1, <2>2, NameWritten
<1>2. ASSUME NEW k, Exists(j), Write(j, [q EXCEPT !.keys = k])
      PROVE  NamesAreKept
  <2>1. [q EXCEPT !.keys = k].resultRef = q.resultRef
    BY <1>0, <1>2, RowFacts DEF Rows
  <2> QED
    BY <1>0, <1>2, <2>1, NameWritten
<1>3. CASE ClearLeaseFence(l)
  <2>1. Exists(j) /\ Write(j, [q EXCEPT !.token = 0, !.live = FALSE])
    BY <1>3 DEF ClearLeaseFence, HoldsFence, Is
  <2>2. [q EXCEPT !.token = 0, !.live = FALSE].resultRef = q.resultRef
    BY <1>0, <2>1, RowFacts DEF Rows
  <2> QED
    BY <1>0, <2>1, <2>2, NameWritten
<1>4. ASSUME NEW v \in Versions, CompleteTransformJob(l, v)
      PROVE  NamesAreKept
  <2> DEFINE a == Adopted(q.resultRef.name, v)
             r == [q EXCEPT !.status = "completed", !.output = v, !.resultRef = a,
                            !.cacheHit = runs[j] # None, !.token = 0, !.live = FALSE]
  <2>1. Exists(j) /\ Write(j, r)
    BY <1>4 DEF CompleteTransformJob, Holds, Is
  <2>2. q \in Rows /\ q.resultRef.name \in Names \cup {None}
    BY <1>0, <2>1, RowFacts DEF Rows, ResultRefs
  <2>3. a.name = q.resultRef.name
    BY <1>4, <2>2, AdoptedShape
  <2> HIDE DEF a
  <2>4. r.resultRef = a
    BY <2>2 DEF Rows
  <2> HIDE DEF r
  <2> QED
    BY <1>0, <2>1, <2>3, <2>4, NameWritten
<1> QED
  BY <1>1, <1>2, <1>3, <1>4
  DEF LeaseStep, MarkRunning, MarkFinalizing, MarkFailed, MarkCancelled,
      SetStagingKeys, ClearStagingKeys, Holds, HoldsFence, Is

\* So do the statements without a lease.
LEMMA RowKeepsNames ==
    ASSUME TypeOK, Outcome, Progress, NEW j \in Jobs, RowStep(j)
    PROVE  NamesAreKept
<1> DEFINE q == jobs[j]
<1>1. ASSUME NEW r, Exists(j), Write(j, r), q \in Rows => r.resultRef = q.resultRef
      PROVE  NamesAreKept
  BY <1>1, RowFacts, NameWritten
<1>2. CASE ClaimNext(j)
  <2>1. PICK a, k : Write(j, [q EXCEPT !.status = "leased", !.attempt = a, !.token = k,
                                       !.live = TRUE])
    BY <1>2 DEF ClaimNext
  <2>2. Exists(j)
    BY <1>2 DEF ClaimNext, Is
  <2>3. q \in Rows => [q EXCEPT !.status = "leased", !.attempt = a, !.token = k,
                                !.live = TRUE].resultRef = q.resultRef
    BY DEF Rows
  <2> QED
    BY <1>1, <2>1, <2>2, <2>3
<1>3. CASE LeaseExpires(j)
  <2>1. Exists(j) /\ Write(j, [q EXCEPT !.live = FALSE])
    BY <1>3 DEF LeaseExpires, Fenced
  <2>2. q \in Rows => [q EXCEPT !.live = FALSE].resultRef = q.resultRef
    BY DEF Rows
  <2> QED
    BY <1>1, <2>1, <2>2
<1>4. CASE RequestCancellation(j) \/ Retry(j)
  <2>1. PICK s : Exists(j) /\ Write(j, [q EXCEPT !.status = s])
    BY <1>4 DEF RequestCancellation, Retry, Is
  <2>2. q \in Rows => [q EXCEPT !.status = s].resultRef = q.resultRef
    BY DEF Rows
  <2> QED
    BY <1>1, <2>1, <2>2
<1>5. ASSUME NEW a, NEW v, ClearCompletedStagingKeys(j, a, v)
      PROVE  NamesAreKept
  <2>1. Exists(j) /\ Write(j, [q EXCEPT !.keys = 0])
    BY <1>5 DEF ClearCompletedStagingKeys, Is
  <2>2. q \in Rows => [q EXCEPT !.keys = 0].resultRef = q.resultRef
    BY DEF Rows
  <2> QED
    BY <1>1, <2>1, <2>2
<1>6. ASSUME NEW v, RegisterTransformResult(j, v)
      PROVE  NamesAreKept
  BY <1>6, NoNameWritten DEF RegisterTransformResult
<1> QED
  BY <1>2, <1>3, <1>4, <1>5, <1>6 DEF RowStep

\* No step takes the name of a job away or changes it.
LEMMA NamesStay ==
    ASSUME TypeOK, Outcome, Progress, ReadNames, [Next]_vars
    PROVE  NamesAreKept
<1>1. CASE FailExpired
  <2>1. ASSUME NEW j \in Existing
        PROVE  Exists(j)' /\ jobs'[j].resultRef.name = jobs[j].resultRef.name
    <3>1. j \in Jobs /\ Exists(j) /\ jobs[j] \in Rows
      BY <2>1, RowFacts DEF Existing
    <3>2. jobs'[j] = jobs[j] \/ jobs'[j] = [jobs[j] EXCEPT !.status = "failed"]
      BY <1>1, <3>1 DEF FailExpired
    <3>3. [jobs[j] EXCEPT !.status = "failed"].resultRef = jobs[j].resultRef
      BY <3>1 DEF Rows
    <3> QED
      BY <3>1, <3>2, <3>3 DEF Progress
  <2> QED
    BY <2>1 DEF NamesAreKept
<1>2. CASE RefStep \/ UNCHANGED vars
  BY <1>2, NoNameWritten DEF RefStep, SetRef, TrashRef, vars
<1> QED
  BY <1>1, <1>2, CreateKeepsNames, LeaseKeepsNames, RowKeepsNames DEF Next

\* What a transaction has read of a name survives every step.
LEMMA ReadNamesStay ==
    ASSUME TypeOK, TypeOK', Outcome, Progress, ReadNames, [Next]_vars
    PROVE  ReadNames'
<1> SUFFICES ASSUME NEW d \in Clients, (create[d].pc = "row")',
                    (create[d].row.resultRef.name # None)'
             PROVE  (jobs[create[d].job].resultRef.name = create[d].row.resultRef.name)'
  BY DEF ReadNames
<1>1. NamesAreKept
  BY NamesStay
<1>2. CASE create'[d] = create[d]
  BY <1>1, <1>2 DEF ReadNames, NamesAreKept, Existing, TypeOK
<1>3. CASE create'[d] # create[d]
  <2>1. PICK c \in Clients : CreateStep(c)
    BY <1>3
    DEF Next, vars, LeaseStep, RowStep, RefStep, FailExpired, SetRef, TrashRef, MarkRunning,
        MarkFinalizing, MarkFailed, MarkCancelled, Transition, SetStagingKeys,
        ClearStagingKeys, ClearLeaseFence, CompleteTransformJob, ClaimNext, LeaseExpires,
        RequestCancellation, Retry, RegisterTransformResult, ClearCompletedStagingKeys
  <2>2. CASE \E o : Finish(c, o)
    BY <1>3, <2>2 DEF Finish, Idle, TypeOK
  <2>3. ASSUME NEW k, NEW n, CreateBegin(c, k, n)
        PROVE  FALSE
    BY <1>3, <2>3 DEF CreateBegin, TypeOK
  <2>4. CASE CreateRead(c) /\ ~\E o : Finish(c, o)
    <3>1. /\ create' = [create EXCEPT ![c] = [create[c] EXCEPT !.pc = "row",
                                                               !.row = jobs[create[c].job]]]
          /\ jobs' = jobs
      BY <2>4 DEF CreateRead
    <3>2. d = c
      BY <1>3, <3>1 DEF TypeOK
    <3>3. create[c] \in Creates
      BY DEF TypeOK
    <3>4. create'[c].row = jobs[create[c].job] /\ create'[c].job = create[c].job
      BY <3>1, <3>3 DEF TypeOK, Creates
    <3> QED
      BY <3>1, <3>2, <3>4
  <2> QED
    BY <2>1, <2>2, <2>3, <2>4
    DEF CreateStep, CreateInsert, CreateAbort, CreateRefused, CreateCommit
<1> QED
  BY <1>2, <1>3

\* Every cache hit passes all checks but the one on the result_ref columns, and
\* that one unless it is refused.
LEMMA RefusedWhenStale ==
    ASSUME TypeOK, Outcome, ReadNames
    PROVE  RefusalIsExact
<1> SUFFICES ASSUME NEW c \in Clients, create[c].pc = "row", ~Inconsistent(create[c]),
                    Hits(create[c])
             PROVE  /\ StatusChecks(HitRow(create[c]))
                    /\ Refused(create[c]) <=> ~ResultRefCheck(HitRow(create[c]))
  BY DEF RefusalIsExact
<1> DEFINE t == create[c]
           w == WorkingRow(t)
           r == CurrentRow(t)
           a == Adopted(w.resultRef.name, t.run)
           h == HitRow(t)
<1>1. CASE ~Refused(t)
  <2>1. GoodRow(t.job, h, runs[t.job])
    BY <1>1, HitRowIsGood
  <2>2. StatusChecks(h) /\ ResultRefCheck(h)
    BY <2>1 DEF GoodRow, RowChecks
  <2> QED
    BY <1>1, <2>2
<1>2. CASE Refused(t)
  <2>1. r \in Rows /\ GoodRow(t.job, r, runs[t.job]) /\ w \in Rows
    BY CurrentRowIsGood, WorkingRowType
  <2>2. t.run # None /\ r.status = "queued" /\ r.token = 0
    BY DEF Hits, TakesHit
  <2>3. ~Attaches(t) /\ w = t.row /\ r = jobs[t.job]
    BY <1>2 DEF Refused, CurrentRow, WorkingRow
  <2>4. w.resultRef.name = None /\ r.resultRef.name # None
    BY <1>2, <2>3 DEF Refused, ReadNames
  <2>5. a = NoResultRef
    BY <2>4 DEF Adopted
  <2>6. h = [r EXCEPT !.status = "completed", !.output = t.run, !.cacheHit = TRUE,
                      !.resultRef = [a EXCEPT !.name = r.resultRef.name]]
    BY DEF HitRow
  <2> HIDE DEF a, r, h, w
  <2>7. [a EXCEPT !.name = r.resultRef.name] =
           [name |-> r.resultRef.name, status |-> "none", version |-> None]
    BY <2>5 DEF NoResultRef
  <2>8. /\ h.status = "completed" /\ h.output = t.run /\ h.cacheHit = TRUE
        /\ h.token = r.token /\ h.live = r.live /\ h.keys = r.keys /\ h.attempt = r.attempt
        /\ h.resultRef = [name |-> r.resultRef.name, status |-> "none", version |-> None]
    BY <2>1, <2>6, <2>7 DEF Rows
  <2>9. StatusChecks(h)
    BY <2>1, <2>2, <2>8 DEF GoodRow, RowChecks, StatusChecks, Active, Stopped
  <2>10. h.resultRef.name # None /\ h.resultRef.status = "none"
    BY <2>4, <2>8
  <2>11. ~ResultRefCheck(h)
    BY <2>10 DEF ResultRefCheck
  <2> QED
    BY <1>2, <2>9, <2>11 DEF h
<1> QED
  BY <1>1, <1>2

\* The database refuses a cache hit exactly when it would violate the check on
\* the result_ref columns, because a name was attached after the row was read;
\* every other check such a write satisfies.  What is not a cache hit is never
\* refused and passes all checks (RowsPassTheChecks).
THEOREM RefusedExactly == Spec => []RefusalIsExact
<1>1. Init => ReadNames
  BY DEF Init, Idle, ReadNames
<1>2. TypeOK /\ TypeOK' /\ Outcome /\ ReadNames /\ [Next]_vars => ReadNames'
  BY OutcomeStep, ReadNamesStay
<1>3. TypeOK /\ Outcome /\ ReadNames => RefusalIsExact
  BY RefusedWhenStale
<1> QED BY <1>1, <1>2, <1>3, OutcomeAlways, PTL DEF Spec

\* No attempt of a job is ever leased twice.
THEOREM OneLeasePerAttempt == Spec => []LeaseNamesAttempt
<1>1. TypeOK /\ Outcome => LeaseNamesAttempt
  BY DEF Outcome
<1> QED BY <1>1, OutcomeAlways, PTL

\* A completed job is backed by the run of its key, with the same output.
THEOREM CompletedIsBacked == Spec => []CompletedHasRun
<1>1. TypeOK /\ Outcome => CompletedHasRun
  BY DEF Outcome, GoodRows, GoodRow, CompletedHasRun, Is
<1> QED BY <1>1, OutcomeAlways, PTL

\* A result ref is settled exactly when its job is completed, and names the
\* job's output when it was updated.
THEOREM ResultRefIsSettled == Spec => []ResultRefSettled
<1>1. TypeOK /\ Outcome => ResultRefSettled
  BY DEF Outcome, GoodRows, GoodRow, ResultRefSettled, Existing
<1> QED BY <1>1, OutcomeAlways, PTL

\* A completed job keeps its output and its run for ever, and no attempt number
\* goes back.
THEOREM OutcomeStays == Spec => OutcomeIsFinal
<1> DEFINE Final == \A j \in Existing :
                       /\ jobs'[j] # None /\ jobs'[j].attempt >= jobs[j].attempt
                       /\ jobs[j].status = "completed" =>
                            /\ jobs'[j].status = "completed"
                            /\ jobs'[j].output = jobs[j].output
                            /\ runs'[j] = runs[j]
<1>1. ASSUME TypeOK, TypeOK', Outcome, [Next]_vars
      PROVE  Final
  <2> SUFFICES ASSUME NEW j \in Jobs, Exists(j)
               PROVE  /\ jobs'[j] # None /\ jobs'[j].attempt >= jobs[j].attempt
                      /\ jobs[j].status = "completed" =>
                           /\ jobs'[j].status = "completed"
                           /\ jobs'[j].output = jobs[j].output
                           /\ runs'[j] = runs[j]
    BY DEF Existing
  <2>1. /\ Exists(j)' /\ Advances(jobs[j], jobs'[j], runs[j])
        /\ runs[j] # None => runs'[j] = runs[j]
    BY <1>1, OutcomeStep DEF Progress
  <2>2. jobs[j].attempt \in Nat /\ jobs'[j].attempt \in Nat
    BY <1>1, <2>1 DEF TypeOK, Exists, Rows
  <2>3. jobs[j].status = "completed" => runs[j] # None
    BY <1>1, RowFacts DEF GoodRow, RowChecks, StatusChecks, ResultRefCheck
  <2> QED
    BY <2>1, <2>2, <2>3 DEF Advances, Exists
<1>2. TypeOK /\ TypeOK' /\ Outcome /\ [Next]_vars => [Final]_vars
  BY <1>1
<1> QED
  BY <1>2, OutcomeAlways, PTL DEF Spec, OutcomeIsFinal

\* A step of a job or of a creator leaves every ref that is already there as it
\* is: adoption inserts, and nothing else of theirs writes refs_v2.
THEOREM AdoptionInserts == Spec => AdoptionIsCreateOnly
<1> DEFINE Kept == jobs' # jobs \/ create' # create =>
                     \A n \in Names : refs[n].version # None => refs'[n] = refs[n]
<1>1. ASSUME TypeOK, NEW m, NEW v, refs' = AdoptedRefs(m, v)
      PROVE  Kept
  BY <1>1 DEF AdoptedRefs, TypeOK
<1>2. ASSUME TypeOK, refs' = refs
      PROVE  Kept
  BY <1>2
<1>3. ASSUME TypeOK, [Next]_vars
      PROVE  Kept
  <2>1. ASSUME NEW c \in Clients, CreateStep(c)
        PROVE  Kept
    BY <1>1, <1>2, <1>3, <2>1 DEF CreateStep, CreateBegin, CreateInsert, CreateRead,
       CreateAbort, CreateRefused, CreateCommit
  <2>2. ASSUME NEW l \in granted, LeaseStep(l)
        PROVE  Kept
    BY <1>1, <1>2, <1>3, <2>2 DEF LeaseStep, MarkRunning, MarkFinalizing, MarkFailed,
       MarkCancelled, Transition, SetStagingKeys, ClearStagingKeys, ClearLeaseFence,
       CompleteTransformJob
  <2>3. ASSUME NEW j \in Jobs, RowStep(j)
        PROVE  Kept
    BY <1>2, <1>3, <2>3 DEF RowStep, ClaimNext, LeaseExpires, RequestCancellation, Retry,
       RegisterTransformResult, ClearCompletedStagingKeys
  <2>4. CASE FailExpired
    BY <1>2, <1>3, <2>4 DEF FailExpired
  <2>5. CASE RefStep
    BY <2>5 DEF RefStep, TrashRef, SetRef
  <2>6. CASE UNCHANGED vars
    BY <1>2, <1>3, <2>6 DEF vars
  <2> QED
    BY <1>3, <2>1, <2>2, <2>3, <2>4, <2>5, <2>6 DEF Next
<1>4. TypeOK /\ [Next]_vars => [Kept]_vars
  BY <1>3
<1> QED
  BY <1>4, TypeCorrect, PTL DEF Spec, AdoptionIsCreateOnly

------------------------------------------------------------------------------
(* The job table implements the ledger the service promises.                *)

------------------------------------------------------------------------------
(* The refinement mapping.                                                  *)

\* The phase of each status.
LEMMA Phases ==
    ASSUME NEW s \in Status
    PROVE  /\ s = "queued" => PhaseOf(s) = "waiting"
           /\ s \in Active => PhaseOf(s) = "working"
           /\ s \in Stopped => PhaseOf(s) = "stopped"
           /\ s = "completed" => PhaseOf(s) = "done"
BY DEF Status, Active, Stopped, PhaseOf

\* The slot of the ledger is the job that is leased or fenced.
LEMMA SlotHolder ==
    ASSUME SingleFence, NEW j \in Jobs
    PROVE  Fenced(j) <=> slotBar = j
<1>1. None # j
  BY ConstantsAssumption
<1>2. CASE NoFence
  BY <1>1, <1>2 DEF slotBar, NoFence
<1>3. CASE ~NoFence
  <2>1. \E k \in Jobs : Fenced(k)
    BY <1>3 DEF NoFence
  <2> DEFINE h == CHOOSE k \in Jobs : Fenced(k)
  <2>2. h \in Jobs /\ Fenced(h)
    BY <2>1
  <2>3. slotBar = h
    BY <1>3 DEF slotBar
  <2> HIDE DEF h
  <2> QED
    BY <2>2, <2>3 DEF SingleFence
<1> QED
  BY <1>2, <1>3

\* The slot is a job or nobody's.
LEMMA SlotRange == slotBar \in Jobs \cup {None} /\ (NoFence <=> slotBar = None)
<1>1. None \notin Jobs
  BY ConstantsAssumption
<1>2. CASE NoFence
  BY <1>2 DEF slotBar
<1>3. CASE ~NoFence
  <2>1. \E k \in Jobs : Fenced(k)
    BY <1>3 DEF NoFence
  <2>2. slotBar \in Jobs
    BY <1>3, <2>1 DEF slotBar
  <2> QED BY <1>1, <1>3, <2>2
<1> QED
  BY <1>2, <1>3

\* Who has the slot, and when nobody does.
SlotFacts ==
    /\ \A j \in Jobs : Fenced(j) <=> slotBar = j
    /\ slotBar \in Jobs \cup {None} /\ (NoFence <=> slotBar = None)

\* One fence makes the slot of the ledger its holder.
LEMMA SlotNow == SingleFence => SlotFacts
BY SlotHolder, SlotRange DEF SlotFacts

\* The same in the next state.
LEMMA SlotNext == SingleFence' => SlotFacts'
BY SlotNow, PTL

\* What the write of one row does to the ledger.
LEMMA WriteMaps ==
    ASSUME TypeOK, SingleFence, SingleFence', NEW j \in Jobs, NEW r \in Rows, Write(j, r)
    PROVE  /\ phaseBar' = [phaseBar EXCEPT ![j] = PhaseOf(r.status)]
           /\ resultBar' = [resultBar EXCEPT ![j] = r.output]
           /\ slotBar' = IF r.token # 0 THEN j ELSE IF slotBar = j THEN None ELSE slotBar
<1>1. /\ jobs'[j] = r /\ r # None
      /\ \A i \in Jobs \ {j} : jobs'[i] = jobs[i]
  BY NullIsNoRow DEF Write, TypeOK
<1>2. phaseBar' = [phaseBar EXCEPT ![j] = PhaseOf(r.status)]
  BY <1>1 DEF phaseBar, Exists
<1>3. resultBar' = [resultBar EXCEPT ![j] = r.output]
  BY <1>1 DEF resultBar, Exists
<1>4. /\ Fenced(j)' <=> r.token # 0
      /\ \A i \in Jobs \ {j} : Fenced(i)' <=> Fenced(i)
  BY <1>1 DEF Fenced, Exists
<1>5. slotBar' = IF r.token # 0 THEN j ELSE IF slotBar = j THEN None ELSE slotBar
  BY <1>4, SlotNow, SlotNext DEF SlotFacts, NoFence
<1> QED
  BY <1>2, <1>3, <1>5

\* Where a job stands in the ledger.
LEMMA RowMaps ==
    ASSUME NEW j \in Jobs
    PROVE  /\ Exists(j) => phaseBar[j] = PhaseOf(jobs[j].status) /\ resultBar[j] = jobs[j].output
           /\ ~Exists(j) => phaseBar[j] = "absent" /\ resultBar[j] = None
           /\ [phaseBar EXCEPT ![j] = phaseBar[j]] = phaseBar
           /\ [resultBar EXCEPT ![j] = resultBar[j]] = resultBar
BY DEF phaseBar, resultBar

\* A write that neither takes nor leaves the slot and gives no result.
LEMMA StatusMaps ==
    ASSUME TypeOK, SingleFence, SingleFence', NEW j \in Jobs, Exists(j),
           NEW r \in Rows, Write(j, r),
           r.output = jobs[j].output, r.token # 0 <=> jobs[j].token # 0
    PROVE  LET old == PhaseOf(jobs[j].status)
               new == PhaseOf(r.status)
           IN  /\ new = old => UNCHANGED Ledger!ledger
               /\ new = "stopped" /\ old \in {"waiting", "working"} => Ledger!Stop(j)
               /\ new = "waiting" /\ old = "stopped" /\ r.token = 0 => Ledger!Again(j)
<1> DEFINE old == PhaseOf(jobs[j].status)
           new == PhaseOf(r.status)
<1>1. phaseBar' = [phaseBar EXCEPT ![j] = new] /\ phaseBar[j] = old
  BY WriteMaps, RowMaps
<1>2. resultBar' = resultBar
  BY WriteMaps, RowMaps
<1>3. slotBar' = slotBar /\ (slotBar = j <=> r.token # 0)
  BY WriteMaps, SlotNow DEF SlotFacts, Fenced
<1>4. new = old => phaseBar' = phaseBar
  BY <1>1, RowMaps
<1> HIDE DEF old, new
<1>5. new = old => UNCHANGED Ledger!ledger
  BY <1>2, <1>3, <1>4 DEF Ledger!ledger
<1>6. new = "stopped" /\ old \in {"waiting", "working"} => Ledger!Stop(j)
  BY <1>1, <1>2, <1>3 DEF Ledger!Stop, Ledger!Move
<1>7. new = "waiting" /\ old = "stopped" /\ r.token = 0 => Ledger!Again(j)
  BY <1>1, <1>2, <1>3 DEF Ledger!Again, Ledger!Move
<1> QED
  BY <1>5, <1>6, <1>7 DEF old, new

\* A step that leaves the table alone leaves the ledger alone.
LEMMA SameTable ==
    ASSUME jobs' = jobs
    PROVE  UNCHANGED Ledger!ledger
BY DEF Ledger!ledger, phaseBar, resultBar, slotBar, NoFence, Fenced, Exists

\* The step is one of the ledger, from a state every invariant holds in.
Mapped == [Ledger!Next]_(Ledger!ledger)
Steady == TypeOK /\ TypeOK' /\ Outcome /\ SingleFence /\ SingleFence'

\* A step of one job of the ledger is a step of the ledger.
LEMMA OneJobMoves ==
    ASSUME NEW j \in Jobs,
           \/ Ledger!Submit(j) \/ Ledger!Start(j) \/ Ledger!Stop(j)
           \/ Ledger!Release(j) \/ Ledger!Again(j)
           \/ \E v \in Versions : Ledger!Hit(j, v) \/ Ledger!Deliver(j, v)
           \/ UNCHANGED Ledger!ledger
    PROVE  Mapped
BY DEF Mapped, Ledger!Next

\* Statements under a lease: they stop the job, deliver it, release it, or are
\* invisible in the ledger.
LEMMA LeaseMaps ==
    ASSUME Steady, NEW l \in granted, LeaseStep(l)
    PROVE  Mapped
<1> DEFINE j == l.job
           q == jobs[j]
<1>0. j \in Jobs
  BY DEF Steady, TypeOK, Leases
<1>1. Exists(j) /\ q.status # "completed"
  BY DEF LeaseStep, MarkRunning, MarkFinalizing, MarkFailed, MarkCancelled, Transition,
     SetStagingKeys, ClearStagingKeys, ClearLeaseFence, CompleteTransformJob, Holds,
     HoldsFence, Is, Active, Stopped
<1>2. q \in Rows /\ GoodRow(j, q, runs[j]) /\ q.status \in Status
  BY <1>0, <1>1, RowFacts DEF Steady
<1>3. ASSUME NEW S \in SUBSET Active, NEW s \in {"running", "finalizing", "failed", "cancelled"},
             Transition(l, S, s)
      PROVE  Mapped
  <2> DEFINE r == [q EXCEPT !.status = s]
  <2>1. r.status = s /\ r.output = q.output /\ r.token = q.token
    BY <1>2 DEF Rows
  <2>2. s \in Status /\ r \in Rows
    BY <1>2 DEF Rows, Status, Active, Stopped
  <2>3. Write(j, r) /\ q.status \in Active
    BY <1>3 DEF Transition, Holds, Is
  <2>4. PhaseOf(q.status) = "working" /\ PhaseOf(s) \in {"working", "stopped"}
    BY <1>2, <2>2, <2>3, Phases DEF Active, Stopped
  <2> HIDE DEF r
  <2>5. UNCHANGED Ledger!ledger \/ Ledger!Stop(j)
    BY <1>0, <1>1, <2>1, <2>2, <2>3, <2>4, StatusMaps DEF Steady
  <2> QED
    BY <1>0, <2>5, OneJobMoves
<1>4. CASE MarkRunning(l) \/ MarkFinalizing(l) \/ MarkFailed(l) \/ MarkCancelled(l)
  <2>1. {"leased"} \in SUBSET Active /\ {"running"} \in SUBSET Active /\ Active \in SUBSET Active
    BY DEF Active
  <2> QED
    BY <1>3, <1>4, <2>1 DEF MarkRunning, MarkFinalizing, MarkFailed, MarkCancelled
<1>5. CASE SetStagingKeys(l) \/ ClearStagingKeys(l)
  <2>1. PICK k \in Nat : Write(j, [q EXCEPT !.keys = k])
    BY <1>5 DEF SetStagingKeys, ClearStagingKeys, Steady, TypeOK, Leases
  <2> DEFINE r == [q EXCEPT !.keys = k]
  <2>2. r.status = q.status /\ r.output = q.output /\ r.token = q.token /\ r \in Rows
    BY <1>2 DEF Rows
  <2>3. Write(j, r)
    BY <2>1
  <2> HIDE DEF r
  <2>4. UNCHANGED Ledger!ledger
    BY <1>0, <1>1, <2>2, <2>3, StatusMaps DEF Steady
  <2> QED
    BY <1>0, <2>4, OneJobMoves
<1>6. CASE ClearLeaseFence(l)
  <2> DEFINE r == [q EXCEPT !.token = 0, !.live = FALSE]
  <2>1. r.status = q.status /\ r.output = q.output /\ r.token = 0 /\ r \in Rows
    BY <1>2 DEF Rows
  <2>2. Write(j, r) /\ q.status \in Stopped
    BY <1>6 DEF ClearLeaseFence, HoldsFence, Is
  <2> HIDE DEF r
  <2>3. CASE q.token = 0
    <3>1. UNCHANGED Ledger!ledger
      BY <1>0, <1>1, <2>1, <2>2, <2>3, StatusMaps DEF Steady
    <3> QED
      BY <1>0, <3>1, OneJobMoves
  <2>4. CASE q.token # 0
    <3>1. slotBar = j /\ slotBar' = None
      BY <1>0, <1>1, <2>1, <2>2, <2>4, WriteMaps, SlotNow DEF Steady, SlotFacts, Fenced
    <3>2. phaseBar[j] = "stopped"
      BY <1>0, <1>1, <1>2, <2>2, RowMaps, Phases
    <3>3. phaseBar' = phaseBar /\ resultBar' = resultBar
      BY <1>0, <1>1, <2>1, <2>2, WriteMaps, RowMaps DEF Steady
    <3>4. Ledger!Release(j)
      BY <3>1, <3>2, <3>3 DEF Ledger!Release
    <3> QED
      BY <1>0, <3>4, OneJobMoves
  <2> QED
    BY <2>3, <2>4
<1>7. ASSUME NEW v \in Versions, CompleteTransformJob(l, v)
      PROVE  Mapped
  <2> DEFINE a == Adopted(q.resultRef.name, v)
             b == runs[j] # None
             r == [q EXCEPT !.status = "completed", !.output = v, !.resultRef = a,
                            !.cacheHit = b, !.token = 0, !.live = FALSE]
  <2>1. q.resultRef.name \in Names \cup {None}
    BY <1>2 DEF Rows, ResultRefs
  <2>2. a \in ResultRefs /\ b \in BOOLEAN
    BY <2>1, AdoptedType DEF Steady, TypeOK
  <2>3. Write(j, r) /\ q.status = "finalizing"
    BY <1>7 DEF CompleteTransformJob, Holds, Is
  <2> HIDE DEF a, b
  <2>4. r.status = "completed" /\ r.output = v /\ r.token = 0 /\ r \in Rows
    BY <1>2, <2>2 DEF Rows, Status
  <2> HIDE DEF r
  <2>5. Fenced(j)
    BY <1>1, <1>2, <2>3
       DEF GoodRow, RowChecks, StatusChecks, ResultRefCheck, Active, Stopped, Fenced
  <2>6. slotBar = j /\ slotBar' = None
    BY <1>0, <2>3, <2>4, <2>5, WriteMaps, SlotNow DEF Steady, SlotFacts
  <2>7. phaseBar[j] = "working" /\ PhaseOf(r.status) = "done"
    BY <1>0, <1>1, <1>2, <2>3, <2>4, RowMaps, Phases DEF Active, Status
  <2>8. /\ phaseBar' = [phaseBar EXCEPT ![j] = "done"]
        /\ resultBar' = [resultBar EXCEPT ![j] = v]
    BY <1>0, <2>3, <2>4, <2>7, WriteMaps DEF Steady
  <2>9. Ledger!Deliver(j, v)
    BY <2>6, <2>7, <2>8 DEF Ledger!Deliver, Ledger!Move
  <2> QED
    BY <1>0, <2>9, OneJobMoves
<1> QED
  BY <1>4, <1>5, <1>6, <1>7 DEF LeaseStep

\* Statements on a row that need no lease: a claim starts the job, a
\* cancellation stops it, a retry asks for it again.
LEMMA RowStepMaps ==
    ASSUME Steady, NEW j \in Jobs, RowStep(j)
    PROVE  Mapped
<1> DEFINE q == jobs[j]
<1>1. ASSUME Exists(j)
      PROVE  q \in Rows /\ GoodRow(j, q, runs[j]) /\ q.status \in Status
  BY <1>1, RowFacts DEF Steady
<1>2. CASE ClaimNext(j)
  <2> DEFINE a == q.attempt + 1
             k == Cardinality(granted) + 1
             r == [q EXCEPT !.status = "leased", !.attempt = a, !.token = k, !.live = TRUE]
  <2>1. Exists(j) /\ q.status = "queued" /\ NoFence /\ Write(j, r)
    BY <1>2 DEF ClaimNext, Is
  <2>2. q \in Rows /\ GoodRow(j, q, runs[j]) /\ q.status \in Status
    BY <1>1, <2>1
  <2>3. Cardinality(granted) \in Nat
    BY FS_CardinalityType DEF Steady, TypeOK
  <2>4. k \in Nat /\ k # 0 /\ a \in Nat
    BY <2>2, <2>3 DEF Rows
  <2> HIDE DEF a, k
  <2>5. /\ r.status = "leased" /\ r.output = q.output /\ r.token = k
        /\ r \in Rows
    BY <2>2, <2>4 DEF Rows, Status, Active
  <2> HIDE DEF r
  <2>6. phaseBar[j] = "waiting" /\ PhaseOf(r.status) = "working"
    BY <2>1, <2>2, <2>5, RowMaps, Phases DEF Active, Status
  <2>7. /\ phaseBar' = [phaseBar EXCEPT ![j] = "working"]
        /\ resultBar' = resultBar /\ slotBar' = j
    BY <2>1, <2>4, <2>5, <2>6, WriteMaps, RowMaps DEF Steady
  <2>8. slotBar = None
    BY <2>1, SlotNow DEF Steady, SlotFacts
  <2>9. Ledger!Start(j)
    BY <2>6, <2>7, <2>8 DEF Ledger!Start, Ledger!Move
  <2> QED
    BY <2>9, OneJobMoves
<1>3. CASE LeaseExpires(j)
  <2> DEFINE r == [q EXCEPT !.live = FALSE]
  <2>1. Exists(j) /\ Write(j, r)
    BY <1>3 DEF LeaseExpires, Fenced
  <2>2. r.status = q.status /\ r.output = q.output /\ r.token = q.token /\ r \in Rows
    BY <1>1, <2>1 DEF Rows
  <2> HIDE DEF r
  <2>3. UNCHANGED Ledger!ledger
    BY <2>1, <2>2, StatusMaps DEF Steady
  <2> QED
    BY <2>3, OneJobMoves
<1>4. CASE RequestCancellation(j)
  <2> DEFINE r == [q EXCEPT !.status = "cancelled"]
  <2>1. Exists(j) /\ Write(j, r) /\ q.status \in {"queued"} \cup Active
    BY <1>4 DEF RequestCancellation, Is
  <2>2. /\ r.status = "cancelled" /\ r.output = q.output /\ r.token = q.token
        /\ r \in Rows
    BY <1>1, <2>1 DEF Rows, Status, Stopped
  <2>3. PhaseOf(q.status) \in {"waiting", "working"} /\ PhaseOf("cancelled") = "stopped"
    BY <1>1, <2>1, Phases DEF Status, Stopped
  <2> HIDE DEF r
  <2>4. Ledger!Stop(j)
    BY <2>1, <2>2, <2>3, StatusMaps DEF Steady
  <2> QED
    BY <2>4, OneJobMoves
<1>5. CASE Retry(j)
  <2> DEFINE r == [q EXCEPT !.status = "queued"]
  <2>1. Exists(j) /\ Write(j, r) /\ q.status \in Stopped /\ q.token = 0
    BY <1>5 DEF Retry, Is
  <2>2. r.status = "queued" /\ r.output = q.output /\ r.token = q.token /\ r \in Rows
    BY <1>1, <2>1 DEF Rows, Status
  <2>3. PhaseOf(q.status) = "stopped" /\ PhaseOf("queued") = "waiting"
    BY <1>1, <2>1, Phases DEF Status
  <2> HIDE DEF r
  <2>4. Ledger!Again(j)
    BY <2>1, <2>2, <2>3, StatusMaps DEF Steady
  <2> QED
    BY <2>4, OneJobMoves
<1>6. ASSUME NEW v \in Versions, RegisterTransformResult(j, v)
      PROVE  Mapped
  BY <1>6, SameTable, OneJobMoves DEF RegisterTransformResult
<1>7. ASSUME NEW a, NEW v \in Versions, ClearCompletedStagingKeys(j, a, v)
      PROVE  Mapped
  <2> DEFINE r == [q EXCEPT !.keys = 0]
  <2>1. Exists(j) /\ Write(j, r)
    BY <1>7 DEF ClearCompletedStagingKeys, Is
  <2>2. r.status = q.status /\ r.output = q.output /\ r.token = q.token /\ r \in Rows
    BY <1>1, <2>1 DEF Rows
  <2> HIDE DEF r
  <2>3. UNCHANGED Ledger!ledger
    BY <2>1, <2>2, StatusMaps DEF Steady
  <2> QED
    BY <2>3, OneJobMoves
<1> QED
  BY <1>2, <1>3, <1>4, <1>5, <1>6, <1>7 DEF RowStep

\* At most one lease can have expired, so failing them all stops one job.
LEMMA ExpiryMaps ==
    ASSUME Steady, FailExpired
    PROVE  Mapped
<1>1. PICK j \in Jobs : Expired(j)
  BY DEF FailExpired
<1> DEFINE q == jobs[j]
           r == [q EXCEPT !.status = "failed"]
<1>2. Exists(j) /\ q.status \in Active /\ Fenced(j)
  BY <1>1 DEF Expired, Is, Fenced
<1>3. \A i \in Jobs \ {j} : ~Expired(i)
  BY <1>2 DEF Steady, SingleFence, Expired, Is, Fenced
<1>4. q \in Rows /\ q.status \in Status
  BY <1>2, RowFacts DEF Steady
<1>5. Write(j, r)
  BY <1>1, <1>3 DEF FailExpired, Write, Steady, TypeOK
<1>6. r.status = "failed" /\ r.output = q.output /\ r.token = q.token /\ r \in Rows
  BY <1>4 DEF Rows, Status, Stopped
<1>7. PhaseOf(q.status) = "working" /\ PhaseOf("failed") = "stopped"
  BY <1>2, <1>4, Phases DEF Status, Stopped
<1> HIDE DEF r
<1>8. Ledger!Stop(j)
  BY <1>2, <1>5, <1>6, <1>7, StatusMaps DEF Steady
<1> QED
  BY <1>8, OneJobMoves

\* createOrReadTransformJob submits a job, or finds its result.
LEMMA CreateMaps ==
    ASSUME Steady, NEW c \in Clients, CreateStep(c)
    PROVE  Mapped
<1> DEFINE t == create[c]
           j == t.job
           q == jobs[j]
<1>1. CASE CreateInsert(c)
  <2>1. j \in Jobs /\ ~Exists(j) /\ t.run \in Versions \cup {None}
    BY <1>1 DEF CreateInsert, Steady, TypeOK, Creates
  <2>2. \E ref \in ResultRefs : Write(j, NewRow(t.run, ref))
    <3>1. t.name \in Names \cup {None}
      BY DEF Steady, TypeOK, Creates
    <3>2. NoResultRef \in ResultRefs /\ Pending(t.name) \in ResultRefs
      BY <3>1 DEF NoResultRef, Pending, ResultRefs
    <3>3. Adopted(t.name, t.run) \in ResultRefs
      BY <2>1, <3>1, AdoptedType DEF Steady, TypeOK
    <3> QED
      BY <1>1, <3>2, <3>3 DEF CreateInsert
  <2>3. PICK ref \in ResultRefs : Write(j, NewRow(t.run, ref))
    BY <2>2
  <2> DEFINE r == NewRow(t.run, ref)
  <2>4. r \in Rows /\ Write(j, r)
    BY <2>1, <2>3, NewRowType
  <2>5. /\ r.status = IF t.run = None THEN "queued" ELSE "completed"
        /\ r.output = t.run /\ r.token = 0
    BY DEF NewRow
  <2> HIDE DEF r
  <2>6. phaseBar[j] = "absent" /\ resultBar[j] = None /\ slotBar # j
    BY <2>1, RowMaps, SlotNow DEF Steady, SlotFacts, Fenced
  <2>7. /\ phaseBar' = [phaseBar EXCEPT ![j] = PhaseOf(r.status)]
        /\ resultBar' = [resultBar EXCEPT ![j] = t.run] /\ slotBar' = slotBar
    BY <2>1, <2>4, <2>5, <2>6, WriteMaps DEF Steady
  <2>8. "queued" \in Status /\ "completed" \in Status
    BY DEF Status
  <2>9. CASE t.run = None
    <3>1. PhaseOf(r.status) = "waiting"
      BY <2>5, <2>8, <2>9, Phases
    <3>2. resultBar' = resultBar
      BY <2>1, <2>6, <2>7, <2>9, RowMaps
    <3>3. Ledger!Submit(j)
      BY <2>6, <2>7, <3>1, <3>2 DEF Ledger!Submit, Ledger!Move
    <3> QED
      BY <2>1, <3>3, OneJobMoves
  <2>10. CASE t.run # None
    <3>1. PhaseOf(r.status) = "done"
      BY <2>5, <2>8, <2>10, Phases
    <3>2. Ledger!Hit(j, t.run)
      BY <2>6, <2>7, <3>1 DEF Ledger!Hit, Ledger!Move
    <3> QED
      BY <2>1, <2>10, <3>2, OneJobMoves
  <2> QED
    BY <2>9, <2>10
<1>2. CASE CreateCommit(c)
  <2> DEFINE r == CurrentRow(t)
             h == HitRow(t)
  <2>1. /\ t.pc = "row" /\ ~Inconsistent(t) /\ ~Refused(t)
        /\ Write(j, IF Hits(t) THEN h ELSE r)
    BY <1>2 DEF CreateCommit
  <2>2. j \in Jobs /\ Exists(j)
    BY <2>1 DEF Steady, TypeOK
  <2>3. q \in Rows
    BY <2>2, RowFacts DEF Steady
  <2>4. CASE ~Hits(t)
    <3>1. r \in Rows /\ r.status = q.status /\ r.output = q.output
      BY <2>1, CurrentRowIsGood DEF Steady
    <3>2. r.token = q.token
      <4>1. CASE Attaches(t)
        <5>1. PICK ref : r = [q EXCEPT !.resultRef = ref]
          BY <4>1 DEF CurrentRow, WorkingRow
        <5> HIDE DEF r
        <5> QED BY <2>3, <5>1 DEF Rows
      <4>2. CASE ~Attaches(t)
        BY <4>2 DEF CurrentRow
      <4> QED BY <4>1, <4>2
    <3>3. Write(j, r)
      BY <2>1, <2>4
    <3> HIDE DEF r
    <3>4. UNCHANGED Ledger!ledger
      BY <2>2, <3>1, <3>2, <3>3, StatusMaps DEF Steady
    <3> QED
      BY <2>2, <3>4, OneJobMoves
  <2>5. CASE Hits(t)
    <3>1. /\ h \in Rows /\ h.status = "completed" /\ h.output = t.run /\ t.run \in Versions
          /\ GoodRow(j, h, runs[j]) /\ q.status = "queued" /\ q.token = 0
      BY <2>1, <2>5, HitRowIsGood DEF Steady
    <3>2. Write(j, h)
      BY <2>1, <2>5
    <3> HIDE DEF h
    <3>3. h.token = 0
      BY <3>1 DEF GoodRow, RowChecks, StatusChecks, ResultRefCheck, Active, Stopped
    <3>4. "queued" \in Status /\ "completed" \in Status
      BY DEF Status
    <3>5. phaseBar[j] = "waiting" /\ PhaseOf(h.status) = "done"
      BY <2>2, <3>1, <3>4, RowMaps, Phases
    <3>6. slotBar # j
      BY <2>2, <3>1, SlotNow DEF Steady, SlotFacts, Fenced
    <3>7. /\ phaseBar' = [phaseBar EXCEPT ![j] = "done"]
          /\ resultBar' = [resultBar EXCEPT ![j] = t.run] /\ slotBar' = slotBar
      BY <2>2, <3>1, <3>2, <3>3, <3>5, <3>6, WriteMaps DEF Steady
    <3>8. Ledger!Hit(j, t.run)
      BY <3>5, <3>7 DEF Ledger!Hit, Ledger!Move
    <3> QED
      BY <2>2, <3>1, <3>8, OneJobMoves
  <2> QED
    BY <2>4, <2>5
<1>3. ASSUME jobs' = jobs
      PROVE  Mapped
  BY <1>3, SameTable DEF Mapped
<1> QED
  BY <1>1, <1>2, <1>3 DEF CreateStep, CreateBegin, CreateRead, CreateAbort, CreateRefused

------------------------------------------------------------------------------
(* The theorem.                                                             *)

\* The empty table is the empty ledger.
LEMMA InitMaps == Init => Ledger!Init
<1> SUFFICES ASSUME Init
             PROVE  Ledger!Init
  OBVIOUS
<1>1. \A j \in Jobs : ~Exists(j)
  BY DEF Init, Exists
<1>2. NoFence
  BY <1>1 DEF NoFence, Fenced
<1> QED
  BY <1>1, <1>2 DEF Ledger!Init, phaseBar, resultBar, slotBar

\* Every step of the table is a step of the ledger or invisible in it.
LEMMA NextMaps == Steady /\ [Next]_vars => Mapped
<1> SUFFICES ASSUME Steady, [Next]_vars
             PROVE  Mapped
  OBVIOUS
<1>1. ASSUME jobs' = jobs
      PROVE  Mapped
  BY <1>1, SameTable DEF Mapped
<1>2. CASE RefStep
  BY <1>1, <1>2 DEF RefStep, TrashRef, SetRef
<1>3. CASE UNCHANGED vars
  BY <1>1, <1>3 DEF vars
<1> QED
  BY <1>2, <1>3, CreateMaps, LeaseMaps, RowStepMaps, ExpiryMaps DEF Next

\* The table implements the ledger: one job at a time in the slot, results
\* final, and a stopped job asked for again only once it is released.
THEOREM Implements == Spec => ImplementsLedger
<1>1. TypeOK /\ TypeOK' /\ Outcome /\ SingleFence /\ SingleFence' /\ [Next]_vars
        => [Ledger!Next]_(Ledger!ledger)
  BY NextMaps DEF Steady, Mapped
<1> QED
  BY <1>1, InitMaps, OutcomeAlways, OneSlot, PTL DEF Spec, ImplementsLedger, Ledger!Spec
==============================================================================
