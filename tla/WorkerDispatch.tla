---------------------------- MODULE WorkerDispatch ----------------------------
(***************************************************************************)
(* Execution of the batch transform jobs: the in-process dispatchers of    *)
(* the API, the staging objects an attempt leaves in the object store, and *)
(* the gRPC Worker with its single batch slot.                             *)
(*                                                                         *)
(* A dispatcher step is what runs between two awaits; the row it acts on   *)
(* may change before the next one.  An API process may crash or stop       *)
(* anywhere and start again, the Worker may crash, a call may fail.  A     *)
(* statement that commits while its answer is lost is a crash right after  *)
(* it.  A call the Worker has not started dies with its caller.  A PUT      *)
(* whose sender gave up or died may still land, at any time, or never.     *)
(***************************************************************************)
EXTENDS TransformJobs, Sequences

CONSTANTS
    Dispatchers,  \* API processes running a dispatcher loop
    MaxFaults     \* bound on crashes, stops, failed calls and lost answers

ASSUME DispatchAssumption ==
    /\ None \notin Dispatchers
    /\ MaxFaults \in Nat

VARIABLES
    disp,     \* disp[d]: where d stands, and the lease it works on
    calls,    \* RunJob requests the Worker has not started
    worker,   \* the execution in the Worker's slot, or None
    stream,   \* stream[d]: Worker events d has not read yet
    objects,  \* staging objects <<job, attempt, name>>
    late,     \* PUTs of such objects whose sender gave up: they may land
    overtaken,\* those that were on their way when their staging was swept
    faults    \* faults so far

table  == <<jobs, runs, refs, granted, create>>
staging == <<objects, late, overtaken>>
dvars  == <<disp, calls, worker, stream, staging, faults>>
system == <<table, dvars>>

\* Between the claim and the `finally` of #process: the renewal timer runs.
Processing ==
    {"input", "target", "keys", "undo", "send", "stream", "finalize", "sweepDone",
     "clearDone", "error"}
Draining == {"cancel", "await", "sweep", "clearKeys", "clearFence"}
Places   == {"down", "loop", "scan", "claim", "final"} \cup Processing \cup Draining
Events   == {"started", "progress", "completed", "failed", "cancelled", "broken"}

NoLease    == [job |-> None, attempt |-> 0, token |-> 0]
Looping    == [pc |-> "loop", lease |-> NoLease, lost |-> FALSE, aborted |-> FALSE,
               stopping |-> FALSE]
Executions == [lease : Leases, from : Dispatchers, gone : BOOLEAN, cancelled : BOOLEAN,
               phase : {"started", "processing", "uploaded"}]

At(d, pc)       == disp[d].pc = pc
Goto(d, pc)     == disp' = [disp EXCEPT ![d].pc = pc]
LoseLease(d)    == disp' = [disp EXCEPT ![d].pc = "error", ![d].lost = TRUE]
Drain(d, j, pc) ==
    disp' = [disp EXCEPT ![d].pc = pc,
                         ![d].lease = [job |-> j, attempt |-> jobs[j].attempt,
                                       token |-> jobs[j].token]]
Object(l, name) == <<l.job, l.attempt, name>>
Staged(l)       == {Object(l, "input"), Object(l, "output")}
Fault           == faults < MaxFaults /\ faults' = faults + 1
Fine            == faults' = faults
Stays           == UNCHANGED <<calls, worker, stream>>

\* The sender of this PUT gives up on it: it lands later, or never.
MayLand(o) == late' = late \cup {o}

\* A conditional statement, or no row matched it.
IfHeld(l, S, A) == A \/ (~Holds(l, S) /\ UNCHANGED table)

------------------------------------------------------------------------------
(* The loop: fail expired leases, drain a fence, or claim.                   *)

\* Mutant: no sweeper.
FailExpiredLeases_never(d) ==
    /\ At(d, "loop") /\ ~disp[d].stopping
    /\ Goto(d, "scan")
    /\ Fine /\ Stays /\ UNCHANGED <<table, staging>>

FailExpiredLeases(d) ==
    /\ At(d, "loop") /\ ~disp[d].stopping
    /\ \/ FailExpired
       \/ (~\E j \in Jobs : Expired(j)) /\ UNCHANGED table
    /\ Goto(d, "scan")
    /\ Fine /\ Stays /\ UNCHANGED staging

FindFence(d) ==
    /\ At(d, "scan")
    /\ \/ \E j \in Jobs : Is(j, Stopped) /\ Fenced(j) /\ Drain(d, j, "cancel")
       \/ (~\E j \in Jobs : Is(j, Stopped) /\ Fenced(j)) /\ Goto(d, "claim")
    /\ Fine /\ Stays /\ UNCHANGED <<table, staging>>

Claim(d) ==
    /\ At(d, "claim")
    /\ \/ \E j \in Jobs :
            /\ ClaimNext(j)
            /\ disp' = [disp EXCEPT ![d] =
                   [@ EXCEPT !.pc = "input", !.lost = FALSE, !.aborted = FALSE,
                             !.lease = CHOOSE l \in granted' : l \notin granted]]
       \/ /\ ~NoFence \/ ~\E j \in Jobs : Is(j, {"queued"})
          /\ Goto(d, "loop") /\ UNCHANGED table
    /\ Fine /\ Stays /\ UNCHANGED staging

------------------------------------------------------------------------------
(* Preparation of an attempt.                                                *)

\* The job's capability is not one the Worker described at start.
Unsupported(d) ==
    /\ At(d, "input")
    /\ IfHeld(disp[d].lease, Active, MarkFailed(disp[d].lease))
    /\ Goto(d, "final")
    /\ Fine /\ Stays /\ UNCHANGED staging

\* Mutant: the upload of the input is not awaited.
CreateInput_notAwaited(d) ==
    /\ At(d, "input") /\ Goto(d, "target")
    /\ Fine /\ Stays /\ UNCHANGED <<table, staging>>

\* The conditional PUT, and the read that settles an ambiguous answer.  When that
\* finds nothing the call fails and nothing is undone, but the PUT may land; an
\* aborted call may also fail before the PUT.
CreateInput(d) ==
    /\ At(d, "input")
    /\ \/ /\ objects' = objects \cup {Object(disp[d].lease, "input")}
          /\ Goto(d, "target") /\ Fine /\ UNCHANGED late
       \/ /\ \/ UNCHANGED late /\ disp[d].aborted /\ Fine
             \/ MayLand(Object(disp[d].lease, "input")) /\ Fault
          /\ Goto(d, "error") /\ UNCHANGED objects
    /\ Stays /\ UNCHANGED <<table, overtaken>>

CreateOutputTarget(d) ==
    /\ At(d, "target")
    /\ \/ Object(disp[d].lease, "output") \notin objects /\ Goto(d, "keys") /\ Fine
       \/ /\ Object(disp[d].lease, "output") \in objects \/ disp[d].aborted
          /\ Goto(d, "undo") /\ Fine
       \/ Goto(d, "undo") /\ Fault
    /\ Stays /\ UNCHANGED <<table, staging>>

PersistKeys(d) ==
    LET l == disp[d].lease IN
    /\ At(d, "keys")
    /\ \/ SetStagingKeys(l) /\ Goto(d, "send") /\ Fine
       \/ ~Holds(l, {"leased"}) /\ UNCHANGED table /\ Goto(d, "undo") /\ Fine
       \/ (SetStagingKeys(l) \/ UNCHANGED table) /\ Goto(d, "undo") /\ Fault
    /\ Stays /\ UNCHANGED staging

\* The preparer deletes what it created; the error is reported either way.
UndoPreparation(d) ==
    /\ At(d, "undo")
    /\ \/ objects' = objects \ Staged(disp[d].lease) /\ Fine
       \/ \E left \in SUBSET Staged(disp[d].lease) :
             objects' = objects \ (Staged(disp[d].lease) \ left) /\ Fault
    /\ Goto(d, "error")
    /\ Stays /\ UNCHANGED <<table, late, overtaken>>

Send(d) ==
    /\ At(d, "send")
    /\ IF disp[d].aborted
       THEN Goto(d, "error") /\ UNCHANGED <<calls, stream>>
       ELSE /\ Goto(d, "stream")
            /\ calls' = calls \cup {[lease |-> disp[d].lease, from |-> d]}
            /\ stream' = [stream EXCEPT ![d] = <<>>]
    /\ Fine /\ UNCHANGED <<table, worker, staging>>

------------------------------------------------------------------------------
(* Worker events.                                                            *)

\* The next event, if the signal is not aborted; its handler moves the row.
Handle(d, event) ==
    /\ At(d, "stream") /\ ~disp[d].aborted
    /\ stream[d] # <<>> /\ Head(stream[d]) = event
    /\ stream' = [stream EXCEPT ![d] = Tail(@)]
    /\ Fine /\ UNCHANGED <<calls, worker, staging>>

\* A handler that finds the lease lost throws; the call itself is left open.
HandleStarted(d) ==
    LET l == disp[d].lease IN
    /\ Handle(d, "started")
    /\ \/ MarkRunning(l) /\ UNCHANGED disp
       \/ ~Holds(l, {"leased"}) /\ UNCHANGED table /\ LoseLease(d)

HandleProgress(d) ==
    /\ Handle(d, "progress")
    /\ IF Holds(disp[d].lease, {"running"}) THEN UNCHANGED disp ELSE LoseLease(d)
    /\ UNCHANGED table

\* The failed and the cancelled event; a dispatcher that reads is told of a
\* cancellation only if somebody else asked for it.
HandleEnded(d) ==
    LET l == disp[d].lease IN
    \E event \in {"failed", "cancelled"} :
      /\ Handle(d, event)
      /\ IfHeld(l, Active, IF event = "failed" THEN MarkFailed(l) ELSE MarkCancelled(l))
      /\ Goto(d, "final")

HandleCompleted(d) ==
    LET l == disp[d].lease IN
    /\ Handle(d, "completed")
    /\ \/ MarkFinalizing(l) /\ Goto(d, "finalize")
       \/ ~Holds(l, {"running"}) /\ UNCHANGED table /\ LoseLease(d)

HandleBroken(d) == Handle(d, "broken") /\ Goto(d, "error") /\ UNCHANGED table

\* The stream throws when its signal is aborted.
StreamAborted(d) ==
    /\ At(d, "stream") /\ disp[d].aborted
    /\ Goto(d, "error")
    /\ Fine /\ Stays /\ UNCHANGED <<table, staging>>

------------------------------------------------------------------------------
(* Finalizer, and the staging of a completed job.                            *)

CanFinalize(l) == Holds(l, {"finalizing"}) /\ Object(l, "output") \in objects

Finalize(d) ==
    LET l == disp[d].lease IN
    /\ At(d, "finalize")
    /\ \/ /\ CanFinalize(l)
          /\ \E v \in Versions : CompleteTransformJob(l, v)
          /\ Goto(d, "sweepDone") /\ Fine
       \/ /\ ~CanFinalize(l) \/ disp[d].aborted
          /\ Goto(d, "error") /\ Fine /\ UNCHANGED table
       \/ Goto(d, "error") /\ Fault /\ UNCHANGED table
    /\ Stays /\ UNCHANGED staging

\* Both deletes succeed; a PUT still on its way is not affected.
SweepAll(l) ==
    /\ objects' = objects \ Staged(l)
    /\ overtaken' = overtaken \cup (late \cap Staged(l))

\* A delete fails, and the drain has to come again.
SweepSome(l) ==
    /\ \E left \in SUBSET Staged(l) \ {{}} : objects' = objects \ (Staged(l) \ left)
    /\ UNCHANGED overtaken

\* Best effort: a failed delete is reported and the objects stay.
SweepCompleted(d) ==
    /\ At(d, "sweepDone")
    /\ \/ SweepAll(disp[d].lease) /\ Goto(d, "clearDone") /\ Fine
       \/ SweepSome(disp[d].lease) /\ Goto(d, "final") /\ Fault
    /\ Stays /\ UNCHANGED <<table, late>>

ClearCompleted(d) ==
    LET l == disp[d].lease IN
    /\ At(d, "clearDone")
    /\ \/ \E v \in Versions : ClearCompletedStagingKeys(l.job, l.attempt, v) /\ Fine
       \/ UNCHANGED table /\ Fault
    /\ Goto(d, "final")
    /\ Stays /\ UNCHANGED staging

------------------------------------------------------------------------------
(* Errors, renewal, and the `finally` of #process.                           *)

HandleExecutionError(d) ==
    LET l == disp[d].lease IN
    /\ At(d, "error")
    /\ IF Is(l.job, {"cancelled"}) \/ disp[d].stopping
       THEN IfHeld(l, Active, MarkCancelled(l))
       ELSE IF disp[d].lost THEN UNCHANGED table
       ELSE IfHeld(l, Active, MarkFailed(l))
    /\ Goto(d, "final")
    /\ Fine /\ Stays /\ UNCHANGED staging

\* The call of d is cancelled: a request not started is dropped, and the Worker
\* will notice that the caller of an execution is gone.
Hangup(d) ==
    /\ calls' = {c \in calls : c.from # d}
    /\ worker' = IF worker # None /\ worker.from = d THEN [worker EXCEPT !.gone = TRUE]
                 ELSE worker

\* A renewal matched no row, and this attempt has not completed the job; or it
\* failed.
RenewalFails(d) ==
    LET l == disp[d].lease IN
    /\ disp[d].pc \in Processing /\ ~disp[d].lost
    /\ \/ /\ ~Holds(l, Active) /\ Fine
          /\ ~(Is(l.job, {"completed"}) /\ jobs[l.job].attempt = l.attempt)
       \/ Fault
    /\ disp' = [disp EXCEPT ![d].lost = TRUE, ![d].aborted = TRUE]
    /\ Hangup(d)
    /\ UNCHANGED <<table, stream, staging>>

\* The row is read again, and whatever fence it now has is drained.
Reread(d) ==
    LET j == disp[d].lease.job IN
    /\ At(d, "final")
    /\ \/ Is(j, Stopped) /\ Fenced(j) /\ Drain(d, j, "cancel") /\ Fine
       \/ ~(Is(j, Stopped) /\ Fenced(j)) /\ Goto(d, "loop") /\ Fine
       \/ Goto(d, "loop") /\ Fault
    /\ Stays /\ UNCHANGED <<table, staging>>

------------------------------------------------------------------------------
(* Drain of a fence: Worker, objects, row keys, lease.                       *)

Executes(l) == worker # None /\ worker.lease.job = l.job /\ worker.lease.attempt = l.attempt

\* Mutant: the Worker is told to stop, and not waited for.
CancelExecution_noWait(d) ==
    LET l == disp[d].lease IN
    /\ At(d, "cancel") /\ Goto(d, "sweep") /\ Fine
    /\ worker' = IF Executes(l) THEN [worker EXCEPT !.cancelled = TRUE] ELSE worker
    /\ UNCHANGED <<table, calls, stream, staging>>

CancelExecution(d) ==
    LET l == disp[d].lease IN
    /\ At(d, "cancel")
    /\ \/ ~Executes(l) /\ Goto(d, "sweep") /\ Fine /\ UNCHANGED worker
       \/ /\ Executes(l) /\ Fine
          /\ IF worker.lease.token = l.token
             THEN Goto(d, "await") /\ worker' = [worker EXCEPT !.cancelled = TRUE]
             ELSE Goto(d, "loop") /\ UNCHANGED worker
       \/ Goto(d, "loop") /\ Fault /\ UNCHANGED worker
    /\ UNCHANGED <<table, calls, stream, staging>>

AwaitStopped(d) ==
    /\ At(d, "await")
    /\ \/ ~Executes(disp[d].lease) /\ Goto(d, "sweep") /\ Fine
       \/ Executes(disp[d].lease) /\ Goto(d, "loop") /\ Fault
    /\ Stays /\ UNCHANGED <<table, staging>>

\* Mutant: only the output is deleted.
Sweep_outputOnly(d) ==
    /\ At(d, "sweep")
    /\ objects' = objects \ {Object(disp[d].lease, "output")} /\ Goto(d, "clearKeys")
    /\ Fine /\ Stays /\ UNCHANGED <<table, late, overtaken>>

Sweep(d) ==
    /\ At(d, "sweep")
    /\ \/ SweepAll(disp[d].lease) /\ Goto(d, "clearKeys") /\ Fine
       \/ SweepSome(disp[d].lease) /\ Goto(d, "loop") /\ Fault
    /\ Stays /\ UNCHANGED <<table, late>>

ClearKeys(d) ==
    LET l == disp[d].lease IN
    /\ At(d, "clearKeys")
    /\ \/ ClearStagingKeys(l) /\ Goto(d, "clearFence")
       \/ ~HoldsFence(l) /\ UNCHANGED table /\ Goto(d, "loop")
    /\ Fine /\ Stays /\ UNCHANGED staging

ClearFence(d) ==
    LET l == disp[d].lease IN
    /\ At(d, "clearFence")
    /\ ClearLeaseFence(l) \/ (~HoldsFence(l) /\ UNCHANGED table)
    /\ Goto(d, "loop")
    /\ Fine /\ Stays /\ UNCHANGED staging

------------------------------------------------------------------------------
(* The Worker: one slot, no memory of executions that ended.                 *)

\* An event reaches the dispatcher that still reads the stream of this lease.
Push(d, l, event) ==
    stream' = IF At(d, "stream") /\ disp[d].lease = l
              THEN [stream EXCEPT ![d] = Append(@, event)] ELSE stream

RunJob(c) ==
    /\ calls' = calls \ {c}
    /\ IF worker = None
       THEN /\ worker' = [lease |-> c.lease, from |-> c.from, gone |-> FALSE,
                          cancelled |-> FALSE, phase |-> "started"]
            /\ Push(c.from, c.lease, "started")
       ELSE worker' = worker /\ Push(c.from, c.lease, "broken")
    /\ Fine /\ UNCHANGED <<table, disp, staging>>

Download ==
    /\ worker # None /\ worker.phase = "started" /\ ~worker.cancelled
    /\ Object(worker.lease, "input") \in objects
    /\ worker' = [worker EXCEPT !.phase = "processing"]
    /\ Push(worker.from, worker.lease, "progress")
    /\ Fine /\ UNCHANGED <<table, disp, calls, staging>>

\* A cancellation is only looked at before the upload starts and after it.
Upload ==
    /\ worker # None /\ worker.phase = "processing"
    /\ worker' = [worker EXCEPT !.phase = "uploaded"]
    /\ objects' = objects \cup {Object(worker.lease, "output")}
    /\ Fine /\ UNCHANGED <<table, disp, calls, stream, late, overtaken>>

\* The execution ends or dies in its upload, which may land.
LeavesUpload ==
    /\ worker.phase = "processing"
    /\ MayLand(Object(worker.lease, "output")) /\ UNCHANGED <<objects, overtaken>>

\* The terminal event is handed over once the handler has left the slot; a
\* cancellation may come too late to change it.
End ==
    /\ worker # None
    /\ \E event \in {"completed", "failed", "cancelled"} :
          /\ event = "cancelled" => worker.cancelled
          /\ event = "completed" => worker.phase = "uploaded"
          /\ Push(worker.from, worker.lease, event)
    /\ worker' = None
    /\ (UNCHANGED staging /\ Fine) \/ (LeavesUpload /\ Fault)
    /\ UNCHANGED <<table, disp, calls>>

NoticeHangup ==
    /\ worker # None /\ worker.gone /\ ~worker.cancelled
    /\ worker' = [worker EXCEPT !.cancelled = TRUE]
    /\ Fine /\ UNCHANGED <<table, disp, calls, stream, staging>>

------------------------------------------------------------------------------
(* Faults, restarts and users.                                               *)

Crash(d) ==
    /\ ~At(d, "down") /\ Fault
    /\ disp' = [disp EXCEPT ![d] = [Looping EXCEPT !.pc = "down"]]
    /\ stream' = [stream EXCEPT ![d] = <<>>]
    /\ Hangup(d)
    /\ IF At(d, "input") THEN MayLand(Object(disp[d].lease, "input")) ELSE UNCHANGED late
    /\ UNCHANGED <<table, objects, overtaken>>

WorkerCrash ==
    /\ worker # None /\ Fault
    /\ worker' = None
    /\ Push(worker.from, worker.lease, "broken")
    /\ disp' = [d \in Dispatchers |->
                  IF At(d, "await") /\ Executes(disp[d].lease)
                  THEN [disp[d] EXCEPT !.pc = "loop"] ELSE disp[d]]
    /\ LeavesUpload \/ (worker.phase # "processing" /\ UNCHANGED staging)
    /\ UNCHANGED <<table, calls>>

\* A PUT reaches the object store after its sender gave up on it.
Land ==
    /\ \E o \in late : objects' = objects \cup {o} /\ late' = late \ {o}
    /\ Fine /\ Stays /\ UNCHANGED <<table, disp, overtaken>>

\* stop(): the active job is cancelled and its signal aborted; a job claimed
\* after that runs to its end.
Stop(d) ==
    /\ ~At(d, "down") /\ ~disp[d].stopping /\ Fault
    /\ IF disp[d].pc \in Processing
       THEN /\ \/ RequestCancellation(disp[d].lease.job)
               \/ ~Is(disp[d].lease.job, Active \cup {"queued"}) /\ UNCHANGED table
            /\ disp' = [disp EXCEPT ![d].stopping = TRUE, ![d].aborted = TRUE]
            /\ Hangup(d)
       ELSE /\ disp' = [disp EXCEPT ![d].stopping = TRUE]
            /\ UNCHANGED <<table, calls, worker>>
    /\ UNCHANGED <<stream, staging>>

Exit(d) ==
    /\ At(d, "loop") /\ disp[d].stopping
    /\ disp' = [disp EXCEPT ![d] = [Looping EXCEPT !.pc = "down"]]
    /\ Fine /\ Stays /\ UNCHANGED <<table, staging>>

Start(d) ==
    /\ At(d, "down")
    /\ disp' = [disp EXCEPT ![d] = Looping]
    /\ Fine /\ Stays /\ UNCHANGED <<table, staging>>

\* A dispatcher that lives and has not lost the lease renews it in time.
Renewed(j) ==
    \E d \in Dispatchers :
        disp[d].pc \in Processing /\ ~disp[d].lost /\ disp[d].lease.job = j

Expire(j) == LeaseExpires(j) /\ UNCHANGED dvars

\* Jobs are created without a result ref; the bound keeps a retried job
\* claimable.
User ==
    /\ \/ \E c \in Clients :
            \/ CreateInsert(c)
            \/ \E j \in Jobs : ~Exists(j) /\ CreateBegin(c, j, None)
       \/ \E j \in Jobs : RequestCancellation(j)
       \/ \E j \in Jobs : Exists(j) /\ jobs[j].attempt < MaxAttempt /\ Retry(j)
    /\ UNCHANGED dvars

------------------------------------------------------------------------------
DispatchInit ==
    /\ Init
    /\ disp = [d \in Dispatchers |-> Looping]
    /\ calls = {} /\ worker = None /\ faults = 0
    /\ objects = {} /\ late = {} /\ overtaken = {}
    /\ stream = [d \in Dispatchers |-> <<>>]

DispatcherStep(d) ==
    \/ FailExpiredLeases(d) \/ FindFence(d) \/ Claim(d)
    \/ Unsupported(d) \/ CreateInput(d) \/ CreateOutputTarget(d) \/ PersistKeys(d)
    \/ UndoPreparation(d) \/ Send(d)
    \/ HandleStarted(d) \/ HandleProgress(d) \/ HandleEnded(d)
    \/ HandleCompleted(d) \/ HandleBroken(d) \/ StreamAborted(d)
    \/ Finalize(d) \/ SweepCompleted(d) \/ ClearCompleted(d)
    \/ HandleExecutionError(d) \/ Reread(d)
    \/ CancelExecution(d) \/ AwaitStopped(d) \/ Sweep(d) \/ ClearKeys(d) \/ ClearFence(d)
    \/ Exit(d) \/ Start(d)

WorkerStep == (\E c \in calls : RunJob(c)) \/ Download \/ Upload \/ End

DispatchNext ==
    \/ \E d \in Dispatchers :
          DispatcherStep(d) \/ RenewalFails(d) \/ Crash(d) \/ Stop(d)
    \/ WorkerStep \/ NoticeHangup \/ WorkerCrash \/ Land
    \/ \E j \in Jobs : Expire(j)
    \/ User

\* A live process keeps executing, the Worker keeps executing, a stopped process
\* is started again, and a lease nobody renews runs out.
DispatchSpec ==
    /\ DispatchInit /\ [][DispatchNext]_system
    /\ \A d \in Dispatchers : WF_system(DispatcherStep(d))
    /\ WF_system(WorkerStep)
    /\ \A j \in Jobs : WF_system(~Renewed(j) /\ Expire(j))
------------------------------------------------------------------------------
(* Properties.                                                              *)

DispatchTypeOK ==
    /\ TypeOK
    /\ disp \in [Dispatchers -> [pc : Places, lease : Leases \cup {NoLease},
                                 lost : BOOLEAN, aborted : BOOLEAN, stopping : BOOLEAN]]
    /\ \A d \in Dispatchers :
          disp[d].pc \in Processing \cup Draining \cup {"final"} => disp[d].lease \in Leases
    /\ calls \subseteq [lease : Leases, from : Dispatchers]
    /\ worker \in Executions \cup {None}
    /\ stream \in [Dispatchers -> Seq(Events)]
    /\ objects \cup late \cup overtaken \subseteq Jobs \X Nat \X {"input", "output"}
    /\ faults \in 0 .. MaxFaults

\* A staging object is forgotten only when its PUT, which its sender had given up
\* on, was still on its way when the drain swept the attempt: no statement names
\* it again.  Of any other object the attempt is still leased or fenced, or the
\* job completed at that attempt and the row still names the object.
NoForgottenObject ==
    /\ DispatchTypeOK
    /\ \A j \in Jobs, a \in 1 .. MaxAttempt :
          {<<j, a, "input">>, <<j, a, "output">>} \cap (objects \ overtaken) # {} =>
              /\ jobs[j].attempt = a
              /\ Fenced(j) \/ (Is(j, {"completed"}) /\ jobs[j].keys = a)

\* The Worker only executes the attempt that holds the batch slot, so the slot
\* of the Worker is free whenever the catalog lets another attempt start.
WorkerIsFenced ==
    worker # None =>
        LET l == worker.lease IN
        Exists(l.job) /\ jobs[l.job].attempt = l.attempt /\ jobs[l.job].token = l.token

\* A job the catalog calls running still has its input in the store, under the
\* keys its row names.
RunningHasInput ==
    \A j \in Jobs : Is(j, {"running", "finalizing"}) =>
        jobs[j].keys = jobs[j].attempt /\ <<j, jobs[j].attempt, "input">> \in objects

\* Every queued job is claimed, or cancelled by its user.
QueuedIsServed == \A j \in Jobs : Is(j, {"queued"}) ~> ~Is(j, {"queued"})
==============================================================================
