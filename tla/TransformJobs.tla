---------------------------- MODULE TransformJobs ----------------------------
(***************************************************************************)
(* The transform-job table of the v2 catalog (transform_jobs_v2) and every *)
(* SQL statement that writes it.  One job exists per transform cache key;  *)
(* the row carries the status, the attempt, the lease that fences the      *)
(* attempt, the exact staging keys of the attempt and the outcome.         *)
(*                                                                         *)
(* A statement is one atomic action.  createOrReadTransformJob is the one  *)
(* transaction whose reads and writes other transactions can separate      *)
(* (READ COMMITTED: the run is read first, the row later, the row is       *)
(* written last), so it is three steps of a client.                        *)
(*                                                                         *)
(* Every lease the table ever granted may be presented again at any time,  *)
(* by anyone: the module assumes nothing about its callers.                *)
(***************************************************************************)
EXTENDS Integers, FiniteSets

CONSTANTS
    Jobs,        \* cache keys; the job of key k is job_k, so the two coincide
    Versions,    \* dataset versions a transform may produce
    Names,       \* ref names a request may ask the result to be bound to
    Clients,     \* concurrent createOrReadTransformJob transactions
    InlineKeys,  \* keys whose operation the inline transform route offers too
    None,        \* SQL NULL
    MaxAttempt   \* bound on attempt: a claim beyond it is not explored

ASSUME ConstantsAssumption ==
    /\ IsFiniteSet(Jobs)
    /\ InlineKeys \subseteq Jobs
    /\ None \notin Versions \cup Names \cup Jobs
    /\ MaxAttempt \in Nat

VARIABLES
    jobs,      \* jobs[j]: the row of j, or None
    runs,      \* runs[j]: output version of the V2Run of cache key j, or None
    refs,      \* refs[n]: the row of ref n; version None means no row
    granted,   \* every lease a claim has returned
    create     \* create[c]: what transaction c has read so far

vars == <<jobs, runs, refs, granted, create>>

Active  == {"leased", "running", "finalizing"}
Stopped == {"failed", "cancelled"}
Status  == {"queued", "completed"} \cup Active \cup Stopped

\* result_ref_{name,status,version}: all null, pending, or adopted.
ResultRefs ==
    [name : Names \cup {None}, status : {"none", "pending", "updated", "conflict"},
     version : Versions \cup {None}]
NoResultRef == [name |-> None, status |-> "none", version |-> None]
Pending(n)  == [name |-> n, status |-> "pending", version |-> None]

\* token 0 is a null lease (owner, token and expiry are null together); live
\* is lease_expires_at > clock_timestamp(); keys is the attempt the two staging
\* keys spell, 0 when both are null.
Rows ==
    [status : Status, attempt : Nat, token : Nat, live : BOOLEAN, keys : Nat,
     output : Versions \cup {None}, resultRef : ResultRefs, cacheHit : BOOLEAN]

ASSUME NullIsNoRow == None \notin Rows

RefRows == [version : Versions \cup {None}, deleted : BOOLEAN]
Leases  == [job : Jobs, attempt : Nat, token : Nat]

Idle == [pc |-> "idle", job |-> None, name |-> None, run |-> None, row |-> None,
         outcome |-> "none"]
Creates ==
    [pc : {"idle", "run", "row"}, job : Jobs \cup {None}, name : Names \cup {None},
     run : Versions \cup {None}, row : Rows \cup {None},
     outcome : {"none", "ok", "determinism", "consistency", "check"}]

Exists(j)   == jobs[j] # None
Existing    == {j \in Jobs : Exists(j)}
Is(j, S)    == Exists(j) /\ jobs[j].status \in S
Fenced(j)   == Exists(j) /\ jobs[j].token # 0
NoFence     == \A j \in Jobs : ~Fenced(j)
Write(j, r) == jobs' = [jobs EXCEPT ![j] = r]

------------------------------------------------------------------------------
(* Result refs: create-only adoption.                                       *)

Adoptable(n, v) == refs[n].version = None \/ refs[n] = [version |-> v, deleted |-> FALSE]

\* The row's result_ref columns after adopting output v under name n.
Adopted(n, v) ==
    IF n = None THEN NoResultRef
    ELSE IF Adoptable(n, v) THEN [name |-> n, status |-> "updated", version |-> v]
    ELSE [name |-> n, status |-> "conflict", version |-> refs[n].version]

\* Mutant: an upsert.
AdoptedRefs_overwrites(n, v) ==
    IF n # None THEN [refs EXCEPT ![n] = [version |-> v, deleted |-> FALSE]] ELSE refs

\* refs_v2 after the same adoption: INSERT ... ON CONFLICT DO NOTHING.
AdoptedRefs(n, v) ==
    IF n # None /\ refs[n].version = None
    THEN [refs EXCEPT ![n] = [version |-> v, deleted |-> FALSE]]
    ELSE refs

------------------------------------------------------------------------------
(* createOrReadTransformJob                                                 *)

NewRow(run, ref) ==
    [status |-> IF run = None THEN "queued" ELSE "completed",
     attempt |-> 0, token |-> 0, live |-> FALSE, keys |-> 0,
     output |-> run, resultRef |-> ref, cacheHit |-> run # None]

\* The transaction starts: it reads the run of its cache key.
CreateBegin(c, j, n) ==
    /\ create[c].pc = "idle"
    /\ create' = [create EXCEPT ![c] =
           [pc |-> "run", job |-> j, name |-> n, run |-> runs[j], row |-> None,
            outcome |-> "none"]]
    /\ UNCHANGED <<jobs, runs, refs, granted>>

Finish(c, outcome) == create' = [create EXCEPT ![c] = [Idle EXCEPT !.outcome = outcome]]

\* No row yet: INSERT, then the rest of the transaction sees its own row, which
\* nobody else can read before the commit.
CreateInsert(c) ==
    LET t == create[c] IN
    /\ t.pc = "run" /\ ~Exists(t.job)
    /\ IF t.run = None
       THEN /\ Write(t.job, NewRow(None, IF t.name = None THEN NoResultRef ELSE Pending(t.name)))
            /\ refs' = refs
       ELSE /\ Write(t.job, NewRow(t.run, Adopted(t.name, t.run)))
            /\ refs' = AdoptedRefs(t.name, t.run)
    /\ Finish(c, "ok")
    /\ UNCHANGED <<runs, granted>>

\* A row exists: the INSERT is skipped and the row is read.  A row bound to
\* another name fails the identity check and the transaction rolls back.
CreateRead(c) ==
    LET t == create[c] IN
    /\ t.pc = "run" /\ Exists(t.job)
    /\ IF t.name # None /\ jobs[t.job].resultRef.name \notin {None, t.name}
       THEN Finish(c, "determinism")
       ELSE create' = [create EXCEPT ![c] = [t EXCEPT !.pc = "row", !.row = jobs[t.job]]]
    /\ UNCHANGED <<jobs, runs, refs, granted>>

Attaches(t) == t.row.resultRef.name = None /\ t.name # None

\* The row the rest of the transaction works on: the row after the attachment
\* UPDATE, whose new columns were computed from the row read earlier, or the
\* row read earlier itself.
WorkingRow(t) ==
    IF ~Attaches(t) THEN t.row
    ELSE [jobs[t.job] EXCEPT !.resultRef =
              IF t.row.status = "completed" THEN Adopted(t.name, t.row.output)
              ELSE Pending(t.name)]

\* Mutant: a completed row is not compared with the run read at the start.
Inconsistent_runUnchecked(t) == Attaches(t) /\ jobs[t.job].resultRef.name # None

\* Attachment lost to another one, or a completed row whose run this
\* transaction did not see: V2CatalogConsistencyError, everything rolls back.
Inconsistent(t) ==
    \/ Attaches(t) /\ jobs[t.job].resultRef.name # None
    \/ WorkingRow(t).status = "completed" /\ t.run # WorkingRow(t).output

CreateAbort(c) ==
    /\ create[c].pc = "row" /\ Inconsistent(create[c])
    /\ Finish(c, "consistency")
    /\ UNCHANGED <<jobs, runs, refs, granted>>

\* The run appeared before the first claim: the queued row becomes a cache hit,
\* if the UPDATE still finds it queued and unclaimed.
TakesHit(t) ==
    t.run # None /\ WorkingRow(t).status = "queued" /\ WorkingRow(t).attempt = 0

\* The row at the commit, before the cache-hit UPDATE.
CurrentRow(t) == IF Attaches(t) THEN WorkingRow(t) ELSE jobs[t.job]
Hits(t) ==
    LET r == CurrentRow(t)
    IN  TakesHit(t) /\ r.status = "queued" /\ r.attempt = 0 /\ r.token = 0

\* Mutant: the table has no result_ref_shape_check.
Refused_never(t) == FALSE

\* The cache-hit UPDATE writes null result_ref columns beside a name attached
\* since the row was read: result_ref_shape_check refuses it.
Refused(t) ==
    Hits(t) /\ WorkingRow(t).resultRef.name # CurrentRow(t).resultRef.name

CreateRefused(c) ==
    /\ create[c].pc = "row" /\ ~Inconsistent(create[c]) /\ Refused(create[c])
    /\ Finish(c, "check")
    /\ UNCHANGED <<jobs, runs, refs, granted>>

\* The row after the cache-hit UPDATE, which leaves the name alone.
HitRow(t) ==
    LET r == CurrentRow(t) IN
    [r EXCEPT !.status = "completed", !.output = t.run, !.cacheHit = TRUE,
              !.resultRef = [Adopted(WorkingRow(t).resultRef.name, t.run)
                                EXCEPT !.name = r.resultRef.name]]

\* A run read at the start adopts the requested name before the row is read,
\* and a cache hit adopts the row's; both hold the ref row until the commit.
CreateCommit(c) ==
    LET t == create[c]
        n == IF t.run # None /\ t.name # None THEN t.name
             ELSE IF TakesHit(t) THEN WorkingRow(t).resultRef.name ELSE None
    IN
    /\ t.pc = "row" /\ ~Inconsistent(t) /\ ~Refused(t)
    /\ refs' = AdoptedRefs(n, t.run)
    /\ Write(t.job, IF Hits(t) THEN HitRow(t) ELSE CurrentRow(t))
    /\ Finish(c, "ok")
    /\ UNCHANGED <<runs, granted>>

------------------------------------------------------------------------------
(* Claim and lease.                                                         *)

\* Mutant: only executing rows block a claim, cleanup fences do not.
ClaimNext_ignoresFences(j) ==
    /\ \A k \in Jobs : ~Is(k, Active)
    /\ Is(j, {"queued"}) /\ jobs[j].attempt < MaxAttempt
    /\ LET a == jobs[j].attempt + 1
           t == Cardinality(granted) + 1
       IN  /\ Write(j, [jobs[j] EXCEPT !.status = "leased", !.attempt = a,
                                       !.token = t, !.live = TRUE])
           /\ granted' = granted \cup {[job |-> j, attempt |-> a, token |-> t]}
    /\ UNCHANGED <<runs, refs, create>>

\* Any lease in the table, of an execution or of a cleanup, blocks every claim.
\* A queued row gets the next attempt and a fresh random token: the oldest of
\* those no other statement has locked at that moment, which can be any of them.
ClaimNext(j) ==
    /\ NoFence
    /\ Is(j, {"queued"}) /\ jobs[j].attempt < MaxAttempt
    /\ LET a == jobs[j].attempt + 1
           t == Cardinality(granted) + 1
       IN  /\ Write(j, [jobs[j] EXCEPT !.status = "leased", !.attempt = a,
                                       !.token = t, !.live = TRUE])
           /\ granted' = granted \cup {[job |-> j, attempt |-> a, token |-> t]}
    /\ UNCHANGED <<runs, refs, create>>

\* WHERE id, attempt and lease_token match, the expiry is ahead of the database
\* clock and the status is one of S.
Holds(l, S) ==
    /\ Is(l.job, S)
    /\ jobs[l.job].attempt = l.attempt /\ jobs[l.job].token = l.token
    /\ jobs[l.job].live

\* The database clock passes lease_expires_at; no renewal revives the lease.
LeaseExpires(j) ==
    /\ Fenced(j) /\ jobs[j].live
    /\ Write(j, [jobs[j] EXCEPT !.live = FALSE])
    /\ UNCHANGED <<runs, refs, granted, create>>

\* A conditional UPDATE under a lease that writes one new status.
Transition(l, S, status) ==
    /\ Holds(l, S)
    /\ Write(l.job, [jobs[l.job] EXCEPT !.status = status])
    /\ UNCHANGED <<runs, refs, granted, create>>

\* Mutant: a status the table's status list does not have.
MarkFailed_unknownStatus(l) == Transition(l, Active, "error")

MarkRunning(l)    == Transition(l, {"leased"}, "running")
MarkFinalizing(l) == Transition(l, {"running"}, "finalizing")
MarkFailed(l)     == Transition(l, Active, "failed")
MarkCancelled(l)  == Transition(l, Active, "cancelled")

SetStagingKeys(l) ==
    /\ Holds(l, {"leased"}) /\ jobs[l.job].keys \in {0, l.attempt}
    /\ Write(l.job, [jobs[l.job] EXCEPT !.keys = l.attempt])
    /\ UNCHANGED <<runs, refs, granted, create>>

\* Mutant: a completed job may still be cancelled.
RequestCancellation_anyStatus(j) ==
    /\ Exists(j) /\ jobs[j].status \notin Stopped
    /\ Write(j, [jobs[j] EXCEPT !.status = "cancelled"])
    /\ UNCHANGED <<runs, refs, granted, create>>

\* A user cancels: no lease is needed, and the lease stays as a cleanup fence.
RequestCancellation(j) ==
    /\ Is(j, {"queued"} \cup Active)
    /\ Write(j, [jobs[j] EXCEPT !.status = "cancelled"])
    /\ UNCHANGED <<runs, refs, granted, create>>

Expired(j) == Is(j, Active) /\ jobs[j].token # 0 /\ ~jobs[j].live

FailExpired ==
    /\ \E j \in Jobs : Expired(j)
    /\ jobs' = [j \in Jobs |->
                  IF Expired(j) THEN [jobs[j] EXCEPT !.status = "failed"] ELSE jobs[j]]
    /\ UNCHANGED <<runs, refs, granted, create>>

------------------------------------------------------------------------------
(* Cleanup of a stopped attempt, and retry.                                 *)

\* The cleanup statements match the lease but not the clock: an expired fence
\* is still a fence.
HoldsFence(l) ==
    /\ Is(l.job, Stopped)
    /\ jobs[l.job].attempt = l.attempt /\ jobs[l.job].token = l.token

ClearStagingKeys(l) ==
    /\ HoldsFence(l)
    /\ Write(l.job, [jobs[l.job] EXCEPT !.keys = 0])
    /\ UNCHANGED <<runs, refs, granted, create>>

ClearLeaseFence(l) ==
    /\ HoldsFence(l) /\ jobs[l.job].keys = 0
    /\ Write(l.job, [jobs[l.job] EXCEPT !.token = 0, !.live = FALSE])
    /\ UNCHANGED <<runs, refs, granted, create>>

\* Mutant: the attempts are counted from zero again.
Retry_resetsAttempt(j) ==
    /\ Is(j, Stopped) /\ jobs[j].token = 0 /\ jobs[j].keys = 0
    /\ Write(j, [jobs[j] EXCEPT !.status = "queued", !.attempt = 0])
    /\ UNCHANGED <<runs, refs, granted, create>>

\* Mutant: the cleanup fence is not waited for.
Retry_beforeRelease(j) ==
    /\ Is(j, Stopped) /\ jobs[j].keys = 0
    /\ Write(j, [jobs[j] EXCEPT !.status = "queued", !.token = 0, !.live = FALSE])
    /\ UNCHANGED <<runs, refs, granted, create>>

Retry(j) ==
    /\ Is(j, Stopped) /\ jobs[j].token = 0 /\ jobs[j].keys = 0
    /\ Write(j, [jobs[j] EXCEPT !.status = "queued"])
    /\ UNCHANGED <<runs, refs, granted, create>>

ClearCompletedStagingKeys(j, attempt, output) ==
    /\ Is(j, {"completed"})
    /\ jobs[j].attempt = attempt /\ jobs[j].output = output
    /\ jobs[j].keys \in {0, attempt}
    /\ Write(j, [jobs[j] EXCEPT !.keys = 0])
    /\ UNCHANGED <<runs, refs, granted, create>>

------------------------------------------------------------------------------
(* Completion, and the other writers of runs and refs.                      *)

\* Mutant: an existing run of the same key is not compared with the new output.
CompleteTransformJob_anyOutput(l, v) ==
    /\ Holds(l, {"finalizing"}) /\ jobs[l.job].keys = l.attempt
    /\ runs' = [runs EXCEPT ![l.job] = IF @ = None THEN v ELSE @]
    /\ LET r == jobs[l.job] IN
       /\ refs' = AdoptedRefs(r.resultRef.name, v)
       /\ Write(l.job, [r EXCEPT !.status = "completed", !.output = v,
                                 !.resultRef = Adopted(r.resultRef.name, v),
                                 !.cacheHit = runs[l.job] # None,
                                 !.token = 0, !.live = FALSE])
    /\ UNCHANGED <<granted, create>>

\* completeTransformJob: run, result ref and row in one transaction.  A run of
\* the same key with another output is a determinism conflict and changes
\* nothing; so does the replay of a completion that already committed.
CompleteTransformJob(l, v) ==
    /\ Holds(l, {"finalizing"}) /\ jobs[l.job].keys = l.attempt
    /\ runs[l.job] \in {None, v}
    /\ runs' = [runs EXCEPT ![l.job] = v]
    /\ LET r == jobs[l.job] IN
       /\ refs' = AdoptedRefs(r.resultRef.name, v)
       /\ Write(l.job, [r EXCEPT !.status = "completed", !.output = v,
                                 !.resultRef = Adopted(r.resultRef.name, v),
                                 !.cacheHit = runs[l.job] # None,
                                 !.token = 0, !.live = FALSE])
    /\ UNCHANGED <<granted, create>>

\* registerTransformResult: the inline transform route registers the same key.
RegisterTransformResult(j, v) ==
    /\ j \in InlineKeys /\ runs[j] = None
    /\ runs' = [runs EXCEPT ![j] = v]
    /\ UNCHANGED <<jobs, refs, granted, create>>

\* compareAndSetRef: the expected version is null (insert) or the live one.
SetRef(n, v) ==
    /\ refs[n].version # v /\ ~refs[n].deleted
    /\ refs' = [refs EXCEPT ![n].version = v]
    /\ UNCHANGED <<jobs, runs, granted, create>>

\* deleteRef and restoreRef: the trash keeps the version.
TrashRef(n) ==
    /\ refs[n].version # None
    /\ refs' = [refs EXCEPT ![n].deleted = ~@]
    /\ UNCHANGED <<jobs, runs, granted, create>>

------------------------------------------------------------------------------
Init ==
    /\ jobs = [j \in Jobs |-> None]
    /\ runs = [j \in Jobs |-> None]
    /\ refs = [n \in Names |-> [version |-> None, deleted |-> FALSE]]
    /\ granted = {}
    /\ create = [c \in Clients |-> Idle]

CreateStep(c) ==
    \/ \E j \in Jobs, n \in Names \cup {None} : CreateBegin(c, j, n)
    \/ CreateInsert(c) \/ CreateRead(c)
    \/ CreateAbort(c) \/ CreateRefused(c) \/ CreateCommit(c)

LeaseStep(l) ==
    \/ MarkRunning(l) \/ MarkFinalizing(l) \/ MarkFailed(l) \/ MarkCancelled(l)
    \/ SetStagingKeys(l) \/ ClearStagingKeys(l) \/ ClearLeaseFence(l)
    \/ \E v \in Versions : CompleteTransformJob(l, v)

RowStep(j) ==
    \/ ClaimNext(j) \/ LeaseExpires(j) \/ RequestCancellation(j) \/ Retry(j)
    \/ \E v \in Versions : RegisterTransformResult(j, v)
    \/ \E l \in granted, v \in Versions :
          l.job = j /\ ClearCompletedStagingKeys(j, l.attempt, v)

RefStep == \E n \in Names : TrashRef(n) \/ \E v \in Versions : SetRef(n, v)

Next ==
    \/ \E c \in Clients : CreateStep(c)
    \/ \E l \in granted : LeaseStep(l)
    \/ \E j \in Jobs : RowStep(j)
    \/ FailExpired
    \/ RefStep

Spec == Init /\ [][Next]_vars

------------------------------------------------------------------------------
(* Properties.                                                              *)

\* Every variable has its type, and a transaction in progress has its job and,
\* once it read one, a row that still exists.
TypeOK ==
    /\ jobs \in [Jobs -> Rows \cup {None}]
    /\ runs \in [Jobs -> Versions \cup {None}]
    /\ refs \in [Names -> RefRows]
    /\ granted \subseteq Leases /\ IsFiniteSet(granted)
    /\ create \in [Clients -> Creates]
    /\ \A c \in Clients : LET t == create[c] IN
          /\ t.pc # "idle" => t.job \in Jobs
          /\ t.pc = "row" => t.row \in Rows /\ Exists(t.job)

\* The CHECK constraints of migrations 0007 to 0009 (names without their
\* transform_jobs_v2_ prefix) on status, lease, outcome and staging keys.
StatusChecks(r) ==
    \* active_lease_check, lease_shape_check
    /\ (r.status \in Active) = (r.token # 0) \/ r.status \in Stopped
    /\ r.live => r.token # 0
    \* completion_check, cache_hit_check
    /\ (r.status = "completed") = (r.output # None)
    /\ r.cacheHit => r.status = "completed"
    \* staging_keys_check
    /\ r.keys \in {0, r.attempt}

\* result_ref_shape_check: the one that Refused lets the database enforce.
ResultRefCheck(r) ==
    /\ (r.resultRef.name = None) = (r.resultRef.status = "none")
    /\ (r.resultRef.version = None) = (r.resultRef.status \in {"none", "pending"})

RowChecks(r) == StatusChecks(r) /\ ResultRefCheck(r)

\* No row violates a CHECK constraint of the table, whichever statements wrote
\* it: the statements keep all of them but result_ref_shape_check, which fails
\* the cache hit of a creator whose read is stale (CreateRefused).
TableChecks == \A j \in Existing : RowChecks(jobs[j])

\* One batch slot in the whole system: at most one row is leased or still
\* fenced, whatever the order of claims, cancellations, expiries and cleanups.
SingleFence == \A j, k \in Jobs : Fenced(j) /\ Fenced(k) => j = k

\* An attempt is leased once: no two leases name the same attempt of a job, so
\* no two executions share the staging keys job/attempt/{input,output}.jsonl.
LeaseNamesAttempt ==
    \A l, m \in granted : l.job = m.job /\ l.attempt = m.attempt => l = m

\* A completed job is backed by the run of its cache key with the same output.
CompletedHasRun ==
    \A j \in Jobs : Is(j, {"completed"}) => runs[j] = jobs[j].output

\* The result ref of a job is settled exactly when the job is completed, and an
\* "updated" one names the job's output: what TransformJobV2Schema demands of a
\* row before any route may return it.  Rows completed by a cache hit on a run of
\* the inline route are excepted: their columns may come from a stale read.
ResultRefSettled ==
    \A j \in Existing : LET r == jobs[j] IN
        r.resultRef.name # None /\ ~(r.cacheHit /\ j \in InlineKeys) =>
            /\ (r.status = "completed") = (r.resultRef.status # "pending")
            /\ r.resultRef.status = "updated" => r.resultRef.version = r.output

\* A completed job never changes its outcome again, and an attempt number never
\* goes back, whichever stale lease is presented.
OutcomeIsFinal ==
    [][\A j \in Existing :
         /\ jobs'[j] # None /\ jobs'[j].attempt >= jobs[j].attempt
         /\ jobs[j].status = "completed" =>
              /\ jobs'[j].status = "completed"
              /\ jobs'[j].output = jobs[j].output
              /\ runs'[j] = runs[j]]_vars

\* A step that touches a job never moves, deletes or restores a ref that is
\* already there: adoption is create-only.
AdoptionIsCreateOnly ==
    [][jobs' # jobs \/ create' # create =>
         \A n \in Names : refs[n].version # None => refs'[n] = refs[n]]_vars

\* createOrReadTransformJob only reports a consistency error when the catalog is
\* inconsistent; in every state this module reaches it is consistent.
NoSpuriousInconsistency == \A c \in Clients : create[c].outcome # "consistency"

------------------------------------------------------------------------------
(* The table implements the service's promise.                              *)

PhaseOf(status) ==
    CASE status = "queued"          -> "waiting"
      [] status \in Active          -> "working"
      [] status \in Stopped         -> "stopped"
      [] status = "completed"       -> "done"

phaseBar  == [j \in Jobs |-> IF Exists(j) THEN PhaseOf(jobs[j].status) ELSE "absent"]
resultBar == [j \in Jobs |-> IF Exists(j) THEN jobs[j].output ELSE None]
slotBar   == IF NoFence THEN None ELSE CHOOSE j \in Jobs : Fenced(j)

Ledger == INSTANCE JobLedger WITH phase <- phaseBar, result <- resultBar, slot <- slotBar

\* Every behaviour of the table is one of the ledger: one job at a time in the
\* slot, results final, a stopped job asked for again only once it is released.
ImplementsLedger == Ledger!Spec
==============================================================================
