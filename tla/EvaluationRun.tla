--------------------------- MODULE EvaluationRun ---------------------------
(***************************************************************************)
(* One evaluation task from its first request to its archive: the task     *)
(* manifest of the EvalScope service, the threads that run the task and    *)
(* call Databench back, the run row, the two-phase upload of the result    *)
(* archive, and the object store.                                          *)
(*                                                                         *)
(* A thread calls Databench and waits; the handler of the call goes on     *)
(* when the thread gives up or dies.  Packaging is deterministic, so the   *)
(* archive of a task stands for its bytes, digest and size.                *)
(***************************************************************************)
EXTENDS Naturals

CONSTANTS Threads, LateCalls, MaxFaults, None
ASSUME EvaluationConstants ==
  MaxFaults \in Nat /\ Threads \cap LateCalls = {} /\ None \notin Threads

VARIABLES
  task,     \* task-claim.json and databench-integration.json of the task
  run,      \* its row of evaluation_runs_v2
  store,    \* staged attempts, and whether the immutable archive exists
  thread,   \* thread[t]: where the thread is
  handler,  \* handler[x]: the call thread x waits for, or a late one
  wrote,    \* the thread that wrote the manifest file last, while it packs
  partial,  \* the partial manifest file that this process's pid names is there
  faults    \* lost calls, crashes and failed writes, at most MaxFaults

vars == <<task, run, store, thread, handler, wrote, partial, faults>>

Terminal == {"completed", "failed", "cancelled"}
Done == task.phase \in Terminal

\* The calls a thread makes at each place of its code.
Call == [create |-> "create", start |-> "start", ensure |-> "ensure", post |-> "post",
         prepare |-> "prepare", put |-> "put", again |-> "prepare", reput |-> "put",
         finalize |-> "finalize", get |-> "get", fail |-> "fail"]
Local == {"idle", "begin", "work", "pack", "write", "packed", "confirm"}

\* Calls whose transport errors are retried once (retry_transport_once).
RetriedOnce == {"create", "ensure", "finalize", "fail"}

NoCall == [kind |-> "none", attempt |-> 0, step |-> "none", answer |-> "none"]
Asking(pc, a) == [kind |-> Call[pc], attempt |-> a, step |-> "run", answer |-> "none"]
At(pc) == [pc |-> pc, attempt |-> 0, retried |-> FALSE, all |-> FALSE]

RunTypeOK ==
  /\ task \in [phase : {"preparing"} \cup Terminal, stop : BOOLEAN, confirmed : BOOLEAN,
               run : BOOLEAN, result : {"none", "fit", "unfit"},
               pinned : BOOLEAN, quarantined : BOOLEAN]
  /\ run \in [status : {"none", "prepared", "running"} \cup Terminal,
              archive : {"not_requested", "pending", "uploading", "available", "failed"},
              attempt : Nat, pinned : BOOLEAN]
  /\ store \in [staged : SUBSET Nat, archive : BOOLEAN]
  /\ thread \in [Threads -> [pc : DOMAIN Call \cup Local, attempt : Nat,
                             retried : BOOLEAN, all : BOOLEAN]]
  /\ handler \in [Threads \cup LateCalls ->
       [kind : {"none"} \cup {Call[pc] : pc \in DOMAIN Call}, attempt : Nat,
        step : {"none", "run", "mark", "publish", "locate", "clean", "done"},
        answer : {"none", "ok", "no", "lost", "available"}]]
  /\ wrote \in Threads \cup {None} /\ partial \in BOOLEAN
  /\ faults \in 0 .. MaxFaults

\* The task is claimed and its integration locator written; one thread, no matter which, goes on.
\* A pinned task evaluates a deployment of a model version.
Init ==
  /\ \E pinned \in BOOLEAN :
       task = [phase |-> "preparing", stop |-> FALSE, confirmed |-> FALSE, run |-> FALSE,
               result |-> "none", pinned |-> pinned, quarantined |-> FALSE]
  /\ run = [status |-> "none", archive |-> "not_requested", attempt |-> 0, pinned |-> FALSE]
  /\ store = [staged |-> {}, archive |-> FALSE]
  /\ LET main == CHOOSE t \in Threads : TRUE IN
       /\ thread = [t \in Threads |-> At(IF t = main THEN "create" ELSE "idle")]
       /\ handler = [x \in Threads \cup LateCalls |->
                       IF x = main THEN Asking("create", 0) ELSE NoCall]
  /\ wrote = None /\ partial = FALSE /\ faults = 0

Fault == faults < MaxFaults /\ faults' = faults + 1

-----------------------------------------------------------------------------
(* Databench: handlers.                                                     *)

Serving(x, kind, step) == handler[x].kind = kind /\ handler[x].step = step
Step(x, step) == handler' = [handler EXCEPT ![x].step = step]

\* The answer, which nobody waits for when the call is late.
AnswerAt(x, answer, a) ==
  handler' = [handler EXCEPT ![x] =
    IF x \in Threads THEN [@ EXCEPT !.step = "done", !.answer = answer, !.attempt = a]
                     ELSE NoCall]
Answer(x, answer) == AnswerAt(x, answer, handler[x].attempt)

\* The request names the deployment of a pinned task; _ensure_run_id does not.
NamesDeployment(x) == handler[x].kind = "create" /\ task.pinned

\* The row is not the one this request asks for (create_request_mismatch).
Mismatch(x, r) == r.pinned # NamesDeployment(x)

\* createOrReadEvaluationRun; prepare_evaluation only accepts a prepared run.
Create(x) ==
  LET r == IF run.status = "none"
           THEN [run EXCEPT !.status = "prepared", !.pinned = NamesDeployment(x)]
           ELSE run IN
  /\ Serving(x, "create", "run") \/ Serving(x, "ensure", "run")
  /\ run' = r
  /\ Answer(x, IF Mismatch(x, r) THEN "no"
               ELSE IF r.status = "prepared" THEN "ok" ELSE "available")
  /\ UNCHANGED store

\* Mutant: a terminal row is overwritten by what comes later.
Transition_fromAny(x, from, to) ==
  /\ run' = [run EXCEPT !.status = to]
  /\ Answer(x, "ok")
  /\ UNCHANGED store

\* transitionEvaluationRun: a miss reads the row, which answers the replay.
Transition(x, from, to) ==
  LET status == IF run.status \in from THEN to ELSE run.status IN
  /\ run' = [run EXCEPT !.status = status]
  /\ Answer(x, IF status = to THEN "ok" ELSE "no")
  /\ UNCHANGED store

Start(x) == Serving(x, "start", "run") /\ Transition(x, {"prepared"}, "running")

Post(x) ==
  /\ Serving(x, "post", "run")
  /\ Transition(x, IF task.phase = "completed" THEN {"running"} ELSE {"prepared", "running"},
                task.phase)

\* prepareEvaluationRunArchive: a new attempt, or the one that is open.
Prepare(x) ==
  LET fresh == run.status = "completed" /\ run.archive \in {"not_requested", "failed"}
      r == IF fresh THEN [run EXCEPT !.archive = "pending", !.attempt = @ + 1] ELSE run IN
  /\ Serving(x, "prepare", "run")
  /\ run' = r
  /\ IF r.archive = "available" THEN AnswerAt(x, "available", r.attempt)
     ELSE IF r.archive = "uploading" THEN AnswerAt(x, "ok", r.attempt)
     ELSE IF r.archive = "pending"
          THEN handler' = [handler EXCEPT ![x].step = "mark", ![x].attempt = r.attempt]
          ELSE Answer(x, "no")
  /\ UNCHANGED store

\* markEvaluationRunArchiveUploading, for the attempt that was prepared.
Mark(x) ==
  LET a == handler[x].attempt
      r == IF run.archive = "pending" /\ run.attempt = a
           THEN [run EXCEPT !.archive = "uploading"] ELSE run IN
  /\ Serving(x, "prepare", "mark")
  /\ run' = r
  /\ Answer(x, IF r.archive = "available" THEN "available"
               ELSE IF r.archive = "uploading" /\ r.attempt = a THEN "ok" ELSE "no")
  /\ UNCHANGED store

\* The conditional PUT to the staging key of the attempt (412 is success).
Put(x) ==
  /\ Serving(x, "put", "run")
  /\ store' = [store EXCEPT !.staged = @ \cup {handler[x].attempt}]
  /\ Answer(x, "ok")
  /\ UNCHANGED run

\* Mutant: the locator is committed before the archive is in the store.
Finalize_locatesFirst(x) ==
  LET a == handler[x].attempt IN
  /\ Serving(x, "finalize", "run")
  /\ IF run.archive = "available" /\ run.attempt = a THEN Step(x, "clean")
     ELSE IF run.archive = "uploading" /\ run.attempt = a THEN Step(x, "locate")
     ELSE Answer(x, "no")
  /\ UNCHANGED <<run, store>>

\* finalizeEvaluationResultUpload: the row, and the replay of a finished one.
Finalize(x) ==
  LET a == handler[x].attempt IN
  /\ Serving(x, "finalize", "run")
  /\ IF run.archive = "available" /\ run.attempt = a THEN Step(x, "clean")
     ELSE IF run.archive = "uploading" /\ run.attempt = a THEN Step(x, "publish")
     ELSE Answer(x, "no")
  /\ UNCHANGED <<run, store>>

\* EvaluationArtifactStoreV1.finalize: the staged bytes are verified, then the
\* immutable object is created, or verified when it is there.
Publish(x) ==
  /\ Serving(x, "finalize", "publish")
  /\ IF handler[x].attempt \in store.staged
     THEN store' = [store EXCEPT !.archive = TRUE] /\ Step(x, "locate")
     ELSE Answer(x, "no") /\ UNCHANGED store
  /\ UNCHANGED run

\* finalizeEvaluationRunArchive: the locator is committed for the open attempt.
Locate(x) ==
  LET a == handler[x].attempt
      r == IF run.archive = "uploading" /\ run.attempt = a
           THEN [run EXCEPT !.archive = "available"] ELSE run IN
  /\ Serving(x, "finalize", "locate")
  /\ run' = r
  /\ IF r.archive = "available" /\ r.attempt = a THEN Step(x, "clean") ELSE Answer(x, "no")
  /\ UNCHANGED store

\* failEvaluationResultUpload.  A replay with another error is refused, which
\* HandlerFails covers.
FailArchive(x) ==
  LET a == handler[x].attempt
      r == IF run.archive \in {"pending", "uploading"} /\ run.attempt = a
           THEN [run EXCEPT !.archive = "failed"] ELSE run IN
  /\ Serving(x, "fail", "run")
  /\ run' = r
  /\ IF r.archive = "failed" /\ r.attempt = a THEN Step(x, "clean") ELSE Answer(x, "no")
  /\ UNCHANGED store

\* cleanupEvaluationArchiveStaging: best effort, of this attempt only.
Clean(x) ==
  /\ handler[x].step = "clean"
  /\ store' = [store EXCEPT !.staged = @ \ {handler[x].attempt}]
  /\ Answer(x, "ok")
  /\ UNCHANGED run

GetRun(x) ==
  /\ Serving(x, "get", "run")
  /\ AnswerAt(x, "ok", run.attempt)
  /\ UNCHANGED <<run, store>>

Serve(x) ==
  /\ \/ Create(x) \/ Start(x) \/ Post(x) \/ Prepare(x) \/ Mark(x) \/ Put(x) \/ GetRun(x)
     \/ Finalize(x) \/ Publish(x) \/ Locate(x) \/ FailArchive(x) \/ Clean(x)
  /\ UNCHANGED <<task, thread, wrote, partial, faults>>

-----------------------------------------------------------------------------
(* The EvalScope service: threads.                                          *)

\* The thread goes to pc, and makes the call that stands there; "all" while it
\* runs reconcile_all.
GoAs(t, pc, a, all) ==
  /\ thread' = [thread EXCEPT ![t] = [pc |-> pc, attempt |-> a, retried |-> FALSE, all |-> all]]
  /\ handler' = [handler EXCEPT ![t] = IF pc \in DOMAIN Call THEN Asking(pc, a) ELSE NoCall]
Go(t, pc, a) == GoAs(t, pc, a, thread[t].all /\ pc # "idle")

\* callback() finds the run of the task, creating it when its id was lost.
FirstCall == IF task.run THEN "post" ELSE "ensure"
CallBack(t) == Go(t, FirstCall, 0)

\* record_terminal: the first terminal evidence stays, and a stop wins.
Recorded(status) ==
  IF Done THEN task
  ELSE [task EXCEPT !.phase = IF task.stop THEN "cancelled" ELSE status]

\* The task fails on its way, and the thread reports what is recorded.
Give(t) == task' = Recorded("failed") /\ CallBack(t)

\* reconcile_all renames the claim of a task: nothing reads or writes it again.
Quarantined == [task EXCEPT !.quarantined = TRUE]

\* An exception that callback() does not handle; reconcile_all catches it.
Throw(t) == task' = (IF thread[t].all THEN Quarantined ELSE task) /\ Go(t, "idle", 0)

\* What a thread does with the answer to its call.
Continue(t, pc, answer, a) ==
  \/ /\ pc = "create"
     /\ IF answer = "ok" THEN task' = [task EXCEPT !.run = TRUE] /\ Go(t, "begin", 0)
                         ELSE Give(t)
  \/ /\ pc = "start"
     /\ IF answer = "ok" THEN Go(t, "work", 0) /\ UNCHANGED task ELSE Give(t)
  \/ /\ pc = "ensure"
     /\ IF answer \in {"ok", "available"}
        THEN task' = [task EXCEPT !.run = TRUE] /\ Go(t, "post", 0)
        ELSE Go(t, "idle", 0) /\ UNCHANGED task
  \/ /\ pc = "post"
     /\ Go(t, IF answer # "ok" THEN "idle"
              ELSE IF task.phase = "completed" THEN "prepare" ELSE "confirm", 0)
     /\ UNCHANGED task
  \/ /\ pc = "prepare"
     /\ IF answer = "ok" THEN Go(t, "pack", a)
        ELSE Go(t, IF answer = "available" THEN "confirm" ELSE "idle", 0)
     /\ UNCHANGED task
  \/ /\ pc = "put"
     /\ Go(t, IF answer = "ok" THEN "finalize" ELSE "again", thread[t].attempt)
     /\ UNCHANGED task
  \/ /\ pc = "again"      \* the attempt must still be the one that was packed for
     /\ IF answer = "ok" /\ a = thread[t].attempt THEN Go(t, "reput", a)
        ELSE Go(t, IF answer = "available" THEN "confirm" ELSE "idle", 0)
     /\ UNCHANGED task
  \/ /\ pc = "reput"
     /\ IF answer = "ok" THEN Go(t, "finalize", thread[t].attempt) ELSE Go(t, "idle", 0)
     /\ UNCHANGED task
  \/ /\ pc = "get"
     /\ IF answer = "ok" THEN Go(t, "fail", a) ELSE Go(t, "idle", 0)
     /\ UNCHANGED task
  \/ /\ pc \in {"finalize", "fail"}
     /\ Go(t, IF answer = "ok" THEN "confirm" ELSE "idle", 0)
     /\ UNCHANGED task

\* _json_request: an answer, or one more try after a transport error.
Return(t) ==
  LET h == handler[t]
      pc == thread[t].pc IN
  /\ h.step = "done"
  /\ IF h.answer = "lost" /\ pc \in RetriedOnce /\ ~thread[t].retried
     THEN /\ thread' = [thread EXCEPT ![t].retried = TRUE]
          /\ handler' = [handler EXCEPT ![t] = Asking(pc, thread[t].attempt)]
          /\ UNCHANGED task
     ELSE Continue(t, pc, h.answer, h.attempt)
  /\ UNCHANGED <<run, store, wrote, partial, faults>>

\* The export is fetched and the task marked running, unless it was stopped or
\* somebody has recorded an end; anything else that fails ends the task.
Begin(t) ==
  /\ thread[t].pc = "begin"
  /\ \/ ~Done /\ ~task.stop /\ Go(t, "start", 0) /\ UNCHANGED task
     \/ Give(t)
  /\ UNCHANGED <<run, store, wrote, partial, faults>>

\* The upstream ends; a completed task has results the packager accepts or not.
Finish(t) ==
  /\ thread[t].pc = "work"
  /\ \E status \in {"completed", "failed"}, result \in {"fit", "unfit"} :
       /\ task' = [Recorded(status) EXCEPT !.result =
                     IF ~Done /\ Recorded(status).phase = "completed" THEN result ELSE @]
  /\ CallBack(t)
  /\ UNCHANGED <<run, store, wrote, partial, faults>>

\* package_result_archive creates its manifest file under a partial name made of
\* the pid: a thread of the same process that is still writing, or a writer of a
\* process of the same pid that failed or died, makes it throw ...
Pack(t) ==
  /\ thread[t].pc = "pack"
  /\ IF partial THEN Throw(t) /\ UNCHANGED partial
     ELSE Go(t, "write", thread[t].attempt) /\ partial' = TRUE /\ UNCHANGED task
  /\ UNCHANGED <<run, store, wrote, faults>>

\* ... writes and renames it ...
Write(t) ==
  /\ thread[t].pc = "write"
  /\ wrote' = t /\ partial' = FALSE
  /\ Go(t, "packed", thread[t].attempt)
  /\ UNCHANGED <<task, run, store, faults>>

\* ... and reads the files: it rejects a result that is not fit, and one that
\* changed while packaging, which is what another thread's manifest file is.
Packed(t) ==
  /\ thread[t].pc = "packed"
  /\ \/ task.result = "fit" /\ Go(t, "put", thread[t].attempt)
     \/ (task.result = "unfit" \/ wrote # t) /\ Go(t, "get", 0)
  /\ wrote' = IF wrote = t THEN None ELSE wrote
  /\ UNCHANGED <<task, run, store, partial, faults>>

Confirm(t) ==
  /\ thread[t].pc = "confirm"
  /\ task' = [task EXCEPT !.confirmed = TRUE]
  /\ Go(t, "idle", 0)
  /\ UNCHANGED <<run, store, wrote, partial, faults>>

\* A thread takes up the task: the claim is readable, and the service has left
\* reconcile_all, which runs before it serves.
Reads(t) ==
  /\ thread[t].pc = "idle" /\ ~task.quarantined
  /\ \A u \in Threads : ~thread[u].all

\* Mutant: only a task whose row has its end already is called back.
Reconcile_terminalOnly(t) ==
  /\ Reads(t) /\ Done /\ ~task.confirmed /\ run.status = task.phase
  /\ CallBack(t)
  /\ UNCHANGED <<task, run, store, wrote, partial, faults>>

\* reconcile_one, and the replay of a terminal task: what has no end is
\* interrupted, and what is not confirmed is called back.
Reconcile(t) ==
  /\ Reads(t) /\ ~task.confirmed
  /\ task' = Recorded("failed")
  /\ CallBack(t)
  /\ UNCHANGED <<run, store, wrote, partial, faults>>

\* A new process has the pid of the one before, or one that left nothing here.
Reborn == partial' \in {partial, FALSE}

\* The service starts: reconcile_all does the same before anything else, and
\* quarantines a claim it cannot read or write.
ReconcileAll(t) ==
  /\ Reads(t) /\ ~task.confirmed
  /\ \A u \in Threads : thread[u].pc = "idle"
  /\ \/ /\ task' = Recorded("failed") /\ GoAs(t, FirstCall, 0, TRUE)
        /\ UNCHANGED faults
     \/ task' = Quarantined /\ Fault /\ UNCHANGED <<thread, handler>>
  /\ Reborn
  /\ UNCHANGED <<run, store, wrote>>

\* request_stop: the intent is on disk before the upstream is told.
Stop ==
  /\ ~Done /\ ~task.stop
  /\ task' = [task EXCEPT !.stop = TRUE]
  /\ UNCHANGED <<run, store, thread, handler, wrote, partial, faults>>

-----------------------------------------------------------------------------
(* Faults.                                                                  *)
Waiting(t) == handler[t].step \notin {"none", "done"}

\* A handler stops half way: an error, or a connection that breaks.
HandlerFails(x) ==
  /\ handler[x].step \notin {"none", "done"} /\ Fault
  /\ \E answer \in {"no", "lost"} : Answer(x, answer)
  /\ UNCHANGED <<task, run, store, thread, wrote, partial>>

\* The thread gives up on a call that goes on.
GiveUp(t) ==
  /\ Waiting(t) /\ Fault
  /\ \E l \in LateCalls :
       /\ handler[l] = NoCall
       /\ handler' = [handler EXCEPT ![l] = handler[t], ![t].step = "done", ![t].answer = "lost"]
  /\ UNCHANGED <<task, run, store, thread, wrote, partial>>

\* A file cannot be created or written.
WriteFails(t) ==
  /\ Fault
  /\ \/ thread[t].pc \in {"pack", "write", "packed", "confirm"} /\ Throw(t)
     \/ /\ handler[t].step = "done" /\ handler[t].answer \in {"ok", "available"}
        /\ (thread[t].pc = "ensure" /\ Throw(t)) \/ (thread[t].pc = "create" /\ Give(t))
  /\ UNCHANGED <<run, store, wrote, partial>>

\* The service dies; of the calls it had open, some one may go on.
Crash ==
  /\ Fault
  /\ thread' = [t \in Threads |-> At("idle")]
  /\ LET dead == [x \in DOMAIN handler |-> IF x \in Threads THEN NoCall ELSE handler[x]] IN
     \/ handler' = dead
     \/ \E t \in Threads, l \in LateCalls :
          Waiting(t) /\ handler[l] = NoCall /\ handler' = [dead EXCEPT ![l] = handler[t]]
  /\ Reborn /\ wrote' = None
  /\ UNCHANGED <<task, run, store>>

ThreadStep(t) ==
  Return(t) \/ Begin(t) \/ Pack(t) \/ Write(t) \/ Packed(t) \/ Confirm(t)

Next ==
  \/ \E x \in Threads \cup LateCalls : Serve(x) \/ HandlerFails(x)
  \/ \E t \in Threads : ThreadStep(t) \/ Finish(t) \/ Reconcile(t) \/ ReconcileAll(t)
  \/ \E t \in Threads : GiveUp(t) \/ WriteFails(t)
  \/ Stop \/ Crash

\* Threads run, Databench answers, and the operator reconciles a task until it is
\* confirmed.  The upstream need not end, and the service need not be restarted.
Spec ==
  /\ Init /\ [][Next]_vars
  /\ \A x \in Threads \cup LateCalls : WF_vars(Serve(x))
  /\ \A t \in Threads : WF_vars(ThreadStep(t))
  /\ WF_vars(Done /\ \E t \in Threads : Reconcile(t))

-----------------------------------------------------------------------------
\* An archive the row offers is in the store, belongs to a completed run and
\* passed the packager; and what did not pass is never published.
ArchiveIsReadable ==
  /\ RunTypeOK
  /\ run.archive = "available" => store.archive /\ run.status = "completed"
  /\ store.archive => task.result = "fit"

\* The row says what the service recorded: a run ends as its task did, whoever
\* recorded the end and whichever calls were lost or late; and a confirmed task
\* has its end in the catalog, and its first archive attempt is settled.
RunAgrees ==
  /\ run.status \in Terminal => run.status = task.phase
  /\ task.confirmed =>
       /\ Done /\ run.status = task.phase
       /\ task.phase = "completed" =>
            run.archive \in {"available", "failed"} \/ run.attempt > 1

\* What no further callback repairs: the claim is quarantined; or the row was
\* created for a deployment and its id was lost, so that _ensure_run_id asks for
\* another run; or a writer left the partial name of this pid.
Undeliverable ==
  \/ task.quarantined
  \/ run.pinned /\ ~task.run
  \/ partial

\* The end of a task reaches the catalog: from some time on its callback is
\* confirmed, or one of these three holds for good.
CallbackIsDelivered == <>[](Done => task.confirmed \/ Undeliverable)
=============================================================================
