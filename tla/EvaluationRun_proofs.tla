-------------------------- MODULE EvaluationRun_proofs --------------------------
(* Theorems about EvaluationRun, for any number of threads, late calls, faults *)
(* and archive attempts.  The world is the task k, the row r and the store s.  *)
EXTENDS EvaluationRun, TLAPS

-----------------------------------------------------------------------------
(* The invariant.                                                             *)
Over(k) == k.phase \in Terminal
Fit(k) == k.result = "fit"

\* The archive has been offered or given up once.
Settled(r) == r.archive \in {"available", "failed"} \/ r.attempt > 1

\* The end of the task is in the catalog.
Ended(k, r) ==
  /\ Over(k) /\ r.status = k.phase
  /\ k.phase = "completed" => Settled(r)

WorldOK(k, r, s) ==
  /\ r.status \in Terminal => r.status = k.phase
  /\ r.archive # "not_requested" => r.status = "completed" /\ r.attempt > 0
  /\ r.archive = "not_requested" => r.attempt = 0
  /\ r.archive = "available" => s.archive
  /\ s.archive \/ s.staged # {} => Fit(k)
  /\ k.result # "none" => Over(k)
  /\ k.confirmed => Ended(k, r)

\* What a call carries: what it relies on, and what its answer says.
CallOK(k, r, s, h) ==
  /\ h.kind = "post" => Over(k)
  /\ h.kind \in {"put", "finalize"} => Fit(k)
  /\ h.step = "locate" => s.archive
  /\ h.step = "clean" => h.kind \in {"finalize", "fail"} /\ Settled(r)
  /\ h.kind \in {"finalize", "fail"} /\ h.answer = "ok" => Settled(r)
  /\ h.kind = "prepare" /\ h.answer = "available" => Settled(r)
  /\ h.kind = "post" /\ h.answer = "ok" => r.status = k.phase

\* What a thread relies on at each place.
PlaceOK(k, r, pc) ==
  /\ pc \in {"post", "ensure"} => Over(k)
  /\ pc \in {"put", "again", "reput", "finalize"} => Fit(k)
  /\ pc = "confirm" => Ended(k, r)

\* A thread waits for the call that stands at its place.
Linked(pc, h) == pc \in DOMAIN Call => h.kind = Call[pc]

IInv ==
  /\ RunTypeOK
  /\ WorldOK(task, run, store)
  /\ \A x \in Threads \cup LateCalls : CallOK(task, run, store, handler[x])
  /\ \A t \in Threads : PlaceOK(task, run, thread[t].pc) /\ Linked(thread[t].pc, handler[t])

-----------------------------------------------------------------------------
(* The sets of RunTypeOK.                                                     *)
Tasks == [phase : {"preparing"} \cup Terminal, stop : BOOLEAN, confirmed : BOOLEAN,
          run : BOOLEAN, result : {"none", "fit", "unfit"},
          pinned : BOOLEAN, quarantined : BOOLEAN]
Runs == [status : {"none", "prepared", "running"} \cup Terminal,
         archive : {"not_requested", "pending", "uploading", "available", "failed"},
         attempt : Nat, pinned : BOOLEAN]
Stores == [staged : SUBSET Nat, archive : BOOLEAN]
Kinds == {"none", "create", "start", "ensure", "post", "prepare", "put", "finalize", "get",
          "fail"}
Steps == {"none", "run", "mark", "publish", "locate", "clean", "done"}
Answers == {"none", "ok", "no", "lost", "available"}
Handled == [kind : Kinds, attempt : Nat, step : Steps, answer : Answers]
Asked == {"create", "start", "ensure", "post", "prepare", "put", "again", "reput",
          "finalize", "get", "fail"}
Places == [pc : Asked \cup Local, attempt : Nat, retried : BOOLEAN, all : BOOLEAN]

\* The calls of the places.
LEMMA CallsAre ==
  /\ DOMAIN Call = Asked
  /\ \A pc \in Asked : Call[pc] \in Kinds
  /\ {"none"} \cup {Call[pc] : pc \in DOMAIN Call} = Kinds
<1>1. DOMAIN Call = Asked
  BY DEF Call, Asked
<1>2. /\ Call["create"] = "create" /\ Call["start"] = "start" /\ Call["ensure"] = "ensure"
      /\ Call["post"] = "post" /\ Call["prepare"] = "prepare" /\ Call["put"] = "put"
      /\ Call["again"] = "prepare" /\ Call["reput"] = "put" /\ Call["finalize"] = "finalize"
      /\ Call["get"] = "get" /\ Call["fail"] = "fail"
  BY DEF Call
<1>3. \A pc \in Asked : Call[pc] \in Kinds
  BY <1>2 DEF Asked, Kinds
<1>4. {Call[pc] : pc \in Asked} = Kinds \ {"none"}
  <2>1. ASSUME NEW kind \in Kinds \ {"none"} PROVE \E pc \in Asked : Call[pc] = kind
    BY <1>2 DEF Asked, Kinds
  <2>2. \A pc \in Asked : Call[pc] # "none"
    BY <1>2 DEF Asked
  <2> QED BY <1>3, <2>1, <2>2
<1> QED BY <1>1, <1>3, <1>4 DEF Kinds

\* What is asked at the places that rely on something.
LEMMA CallOf ==
  ASSUME NEW pc \in Asked
  PROVE  /\ Call[pc] = "post" => pc = "post"
         /\ Call[pc] = "put" => pc \in {"put", "reput"}
         /\ Call[pc] \in {"finalize", "fail"} => pc = Call[pc]
         /\ pc \in {"post", "finalize", "fail", "get", "put"} => Call[pc] = pc
         /\ pc \in {"prepare", "again"} => Call[pc] = "prepare"
BY DEF Call, Asked

\* RunTypeOK in terms of these sets.
LEMMA TypeIs ==
  RunTypeOK <=> /\ task \in Tasks /\ run \in Runs /\ store \in Stores
                /\ thread \in [Threads -> Places]
                /\ handler \in [Threads \cup LateCalls -> Handled]
                /\ wrote \in Threads \cup {None} /\ partial \in BOOLEAN
                /\ faults \in 0 .. MaxFaults
BY CallsAre DEF RunTypeOK, Tasks, Runs, Stores, Places, Handled, Steps, Answers

-----------------------------------------------------------------------------
(* What everybody relies on survives: ends, archives and evidence stay.       *)
Grows(k, r, s, K, R, S) ==
  /\ Over(k) => K.phase = k.phase
  /\ Fit(k) => Fit(K)
  /\ s.archive => S.archive
  /\ Settled(r) => Settled(R)
  /\ r.status \in Terminal => R.status = r.status

\* Calls and threads keep what they rely on while the world grows.
LEMMA Stays ==
  ASSUME NEW k, NEW r, NEW s, NEW K, NEW R, NEW S, Grows(k, r, s, K, R, S)
  PROVE  /\ \A h : CallOK(k, r, s, h) => CallOK(K, R, S, h)
         /\ \A pc : PlaceOK(k, r, pc) => PlaceOK(K, R, pc)
<1>1. /\ Over(k) => Over(K)
      /\ Ended(k, r) => Ended(K, R)
      /\ Over(k) /\ r.status = k.phase => R.status = K.phase
  BY DEF Grows, Over, Ended
<1>2. ASSUME NEW h, CallOK(k, r, s, h) PROVE CallOK(K, R, S, h)
  BY <1>1, <1>2 DEF Grows, CallOK
<1>3. ASSUME NEW pc, PlaceOK(k, r, pc) PROVE PlaceOK(K, R, pc)
  BY <1>1, <1>3 DEF Grows, PlaceOK
<1> QED BY <1>2, <1>3

\* A step of Databench moves the row and the store as everybody expects.
WorldMoves ==
  /\ run' \in Runs /\ store' \in Stores /\ UNCHANGED <<task, thread, wrote, partial>>
  /\ faults' \in 0 .. MaxFaults
  /\ WorldOK(task, run', store') /\ Grows(task, run, store, task, run', store')

\* One call moves with it.
LEMMA ServeKeeps ==
  ASSUME IInv, WorldMoves, NEW x \in Threads \cup LateCalls, NEW h \in Handled,
         handler' = [handler EXCEPT ![x] = h],
         CallOK(task, run', store', h),
         x \in Threads => h.kind = handler[x].kind
  PROVE  IInv'
<1>1. /\ task \in Tasks /\ thread \in [Threads -> Places]
      /\ handler \in [Threads \cup LateCalls -> Handled] /\ wrote \in Threads \cup {None}
      /\ partial \in BOOLEAN
  BY TypeIs DEF IInv
<1>2. RunTypeOK'
  <2>1. handler' \in [Threads \cup LateCalls -> Handled]
    BY <1>1
  <2>2. /\ task' \in Tasks /\ thread' \in [Threads -> Places] /\ wrote' \in Threads \cup {None}
        /\ run' \in Runs /\ store' \in Stores /\ faults' \in 0 .. MaxFaults
        /\ partial' \in BOOLEAN
    BY <1>1 DEF WorldMoves
  <2> QED BY <2>1, <2>2, CallsAre
          DEF RunTypeOK, Tasks, Runs, Stores, Places, Handled, Steps, Answers
<1>3. task' = task /\ thread' = thread
  BY DEF WorldMoves
<1>4. WorldOK(task', run', store')
  BY <1>3 DEF WorldMoves
<1>5. ASSUME NEW y \in Threads \cup LateCalls PROVE CallOK(task', run', store', handler'[y])
  <2>1. CASE y = x
    BY <1>1, <1>3, <2>1
  <2>2. CASE y # x
    <3>1. CallOK(task, run, store, handler[y]) /\ handler'[y] = handler[y]
      BY <1>1, <2>2 DEF IInv
    <3> QED BY <1>3, <3>1, Stays DEF WorldMoves
  <2> QED BY <2>1, <2>2
<1>6. ASSUME NEW t \in Threads
      PROVE  PlaceOK(task', run', thread'[t].pc) /\ Linked(thread'[t].pc, handler'[t])
  <2>1. PlaceOK(task, run, thread[t].pc) /\ Linked(thread[t].pc, handler[t])
    BY DEF IInv
  <2>2. PlaceOK(task, run', thread[t].pc)
    BY <2>1, Stays DEF WorldMoves
  <2>3. handler'[t].kind = handler[t].kind
    BY <1>1
  <2> QED BY <1>3, <2>1, <2>2, <2>3 DEF Linked
<1> QED BY <1>2, <1>4, <1>5, <1>6 DEF IInv

-----------------------------------------------------------------------------
(* Databench: answers and further steps of a call.                            *)

\* What an answer says is so.
Truth(k, r, kind, answer) ==
  /\ kind \in {"finalize", "fail"} /\ answer = "ok" => Settled(r)
  /\ kind = "prepare" /\ answer = "available" => Settled(r)
  /\ kind = "post" /\ answer = "ok" => r.status = k.phase

\* A true answer keeps the invariant, whether or not anybody still waits for it.
LEMMA AnswerKeeps ==
  ASSUME IInv, WorldMoves, NEW x \in Threads \cup LateCalls,
         NEW answer \in Answers, NEW a \in Nat,
         AnswerAt(x, answer, a), Truth(task, run', handler[x].kind, answer)
  PROVE  IInv'
<1>1. handler \in [Threads \cup LateCalls -> Handled] /\ handler[x] \in Handled
  BY TypeIs DEF IInv
<1>2. CallOK(task, run', store', handler[x])
  BY Stays DEF IInv, WorldMoves
<1>3. CASE x \in Threads
  <2> DEFINE h == [handler[x] EXCEPT !.step = "done", !.answer = answer, !.attempt = a]
  <2>1. handler' = [handler EXCEPT ![x] = h]
    BY <1>3 DEF AnswerAt
  <2>2. /\ h \in Handled /\ h.kind = handler[x].kind
        /\ h.step = "done" /\ h.answer = answer
    BY <1>1 DEF Handled, Steps
  <2> HIDE DEF h
  <2>3. CallOK(task, run', store', h)
    BY <1>2, <2>2 DEF CallOK, Truth
  <2> QED BY <2>1, <2>2, <2>3, ServeKeeps
<1>4. CASE x \notin Threads
  <2>1. handler' = [handler EXCEPT ![x] = NoCall]
    BY <1>4 DEF AnswerAt
  <2>2. NoCall \in Handled
    BY DEF NoCall, Handled, Kinds, Steps, Answers
  <2>3. CallOK(task, run', store', NoCall)
    BY DEF NoCall, CallOK
  <2> QED BY <1>4, <2>1, <2>2, <2>3, ServeKeeps
<1> QED BY <1>3, <1>4

\* The same, for an answer that carries the attempt of its call.
LEMMA AnswersKeeps ==
  ASSUME IInv, WorldMoves, NEW x \in Threads \cup LateCalls, NEW answer \in Answers,
         Answer(x, answer), Truth(task, run', handler[x].kind, answer)
  PROVE  IInv'
<1>1. handler[x].attempt \in Nat
  BY TypeIs DEF IInv, Handled
<1> QED BY <1>1, AnswerKeeps DEF Answer

\* A handler that goes on to its next step.
LEMMA StepKeeps ==
  ASSUME IInv, WorldMoves, NEW x \in Threads \cup LateCalls,
         NEW step \in {"mark", "publish", "locate", "clean"}, NEW a \in Nat,
         handler' = [handler EXCEPT ![x].step = step, ![x].attempt = a],
         step = "locate" => store'.archive,
         step = "clean" => handler[x].kind \in {"finalize", "fail"} /\ Settled(run')
  PROVE  IInv'
<1>1. handler \in [Threads \cup LateCalls -> Handled] /\ handler[x] \in Handled
  BY TypeIs DEF IInv
<1>2. CallOK(task, run', store', handler[x])
  BY Stays DEF IInv, WorldMoves
<1> DEFINE h == [handler[x] EXCEPT !.step = step, !.attempt = a]
<1>3. handler' = [handler EXCEPT ![x] = h]
  BY <1>1
<1>4. h \in Handled /\ h.kind = handler[x].kind /\ h.answer = handler[x].answer /\ h.step = step
  BY <1>1 DEF Handled, Steps
<1> HIDE DEF h
<1>5. CallOK(task, run', store', h)
  BY <1>2, <1>4 DEF CallOK
<1> QED BY <1>3, <1>4, <1>5, ServeKeeps

\* A call that goes on without a new attempt.
LEMMA OnKeeps ==
  ASSUME IInv, WorldMoves, NEW x \in Threads \cup LateCalls,
         NEW step \in {"publish", "locate", "clean"}, Step(x, step),
         step = "locate" => store'.archive,
         step = "clean" => handler[x].kind \in {"finalize", "fail"} /\ Settled(run')
  PROVE  IInv'
<1>1. handler \in [Threads \cup LateCalls -> Handled] /\ handler[x] \in Handled
  BY TypeIs DEF IInv
<1> DEFINE a == handler[x].attempt
<1>2. a \in Nat
  BY <1>1 DEF Handled
<1>3. [handler[x] EXCEPT !.step = step] = [handler[x] EXCEPT !.step = step, !.attempt = a]
  BY <1>1 DEF Handled
<1>4. handler' = [handler EXCEPT ![x].step = step, ![x].attempt = a]
  BY <1>1, <1>3 DEF Step
<1> HIDE DEF a
<1> QED BY <1>2, <1>4, StepKeeps

\* What every handler leaves alone.
Untouched == UNCHANGED <<task, thread, wrote, partial, faults>>

\* Nothing moves but the call.
LEMMA NothingMoves ==
  ASSUME IInv, UNCHANGED <<run, store>>, UNCHANGED <<task, thread, wrote, partial>>,
         faults' \in 0 .. MaxFaults
  PROVE  WorldMoves
<1>1. run \in Runs /\ store \in Stores /\ WorldOK(task, run, store)
  BY TypeIs DEF IInv
<1>2. Grows(task, run, store, task, run, store)
  BY DEF Grows
<1> QED BY <1>1, <1>2 DEF WorldMoves

\* The row moves: each writer keeps what is settled.
LEMMA RowMoves ==
  ASSUME IInv, Untouched, store' = store, run' \in Runs,
         WorldOK(task, run', store), Settled(run) => Settled(run'),
         run.status \in Terminal => run'.status = run.status
  PROVE  WorldMoves
<1>1. store \in Stores /\ faults \in 0 .. MaxFaults
  BY TypeIs DEF IInv
<1>2. Grows(task, run, store, task, run', store')
  BY DEF Grows
<1> QED BY <1>1, <1>2 DEF WorldMoves, Untouched

-----------------------------------------------------------------------------
(* Databench: one lemma per handler.                                          *)

\* What the invariant says of the world and of the call served.
LEMMA Known ==
  ASSUME IInv, NEW x \in Threads \cup LateCalls
  PROVE  /\ run \in Runs /\ store \in Stores /\ task \in Tasks
         /\ handler[x] \in Handled /\ handler[x].attempt \in Nat
         /\ handler \in [Threads \cup LateCalls -> Handled]
         /\ faults \in 0 .. MaxFaults
         /\ WorldOK(task, run, store) /\ CallOK(task, run, store, handler[x])
BY TypeIs DEF IInv, Handled

\* createOrReadEvaluationRun.
LEMMA CreateKeeps ==
  ASSUME IInv, Untouched, NEW x \in Threads \cup LateCalls, Create(x)
  PROVE  IInv'
<1> DEFINE named == NamesDeployment(x)
           r == IF run.status = "none" THEN [run EXCEPT !.status = "prepared", !.pinned = named]
                ELSE run
           answer == IF r.pinned # named THEN "no"
                     ELSE IF r.status = "prepared" THEN "ok" ELSE "available"
<1>1. /\ run \in Runs /\ task \in Tasks /\ WorldOK(task, run, store)
  BY Known
<1>2. /\ run' = r /\ store' = store
      /\ Answer(x, answer) /\ handler[x].kind \in {"create", "ensure"}
  BY DEF Create, Serving, Mismatch, NamesDeployment
<1>3. named \in BOOLEAN
  BY <1>1 DEF Tasks, NamesDeployment
<1> HIDE DEF named
<1>4. /\ run' \in Runs /\ run'.archive = run.archive /\ run'.attempt = run.attempt
      /\ run'.status = IF run.status = "none" THEN "prepared" ELSE run.status
  BY <1>1, <1>2, <1>3 DEF Runs
<1>5. answer \in Answers
  BY DEF Answers
<1> HIDE DEF r, answer
<1>6. WorldOK(task, run', store) /\ (run.status \in Terminal => run'.status = run.status)
  BY <1>1, <1>4 DEF WorldOK, Terminal, Ended, Settled, Over
<1>7. WorldMoves
  BY <1>2, <1>4, <1>6, RowMoves DEF Settled
<1>8. Truth(task, run', handler[x].kind, answer)
  BY <1>2 DEF Truth
<1> QED BY <1>2, <1>5, <1>7, <1>8, AnswersKeeps

\* transitionEvaluationRun: a run that has not ended starts, or ends as its task.
LEMMA TransitionKeeps ==
  ASSUME IInv, Untouched, NEW x \in Threads \cup LateCalls,
         NEW from \in SUBSET {"prepared", "running"}, NEW to, Transition(x, from, to),
         \/ to = "running" /\ handler[x].kind = "start"
         \/ to = task.phase /\ handler[x].kind = "post"
  PROVE  IInv'
<1> DEFINE status == IF run.status \in from THEN to ELSE run.status
           answer == IF status = to THEN "ok" ELSE "no"
<1>1. /\ run \in Runs /\ task \in Tasks /\ WorldOK(task, run, store)
      /\ CallOK(task, run, store, handler[x])
  BY Known
<1>2. /\ run' = [run EXCEPT !.status = status] /\ store' = store /\ Answer(x, answer)
  BY DEF Transition
<1>3. to = task.phase => to \in Terminal
  <2>1. task.phase # "running"
    BY <1>1 DEF Tasks, Terminal
  <2> QED BY <1>1, <2>1 DEF CallOK, Over
<1>4. run' \in Runs /\ run'.status = status /\ run'.archive = run.archive /\ run'.attempt = run.attempt
  BY <1>1, <1>2, <1>3 DEF Runs, Terminal
<1>5. WorldOK(task, run', store) /\ (run.status \in Terminal => run'.status = run.status)
  <2>1. CASE run.status \in from
    <3>1. run.status \notin Terminal /\ run.archive = "not_requested"
      BY <1>1, <2>1 DEF WorldOK, Terminal
    <3> QED BY <1>1, <1>4, <2>1, <3>1 DEF WorldOK, Terminal, Ended, Over
  <2>2. CASE run.status \notin from
    <3>1. run' = run
      BY <1>1, <1>2, <2>2 DEF Runs
    <3> QED BY <1>1, <3>1
  <2> QED BY <2>1, <2>2
<1>6. WorldMoves
  BY <1>2, <1>4, <1>5, RowMoves DEF Settled
<1>7. answer \in Answers /\ Truth(task, run', handler[x].kind, answer)
  BY <1>4 DEF Answers, Truth
<1> HIDE DEF answer
<1> QED BY <1>2, <1>6, <1>7, AnswersKeeps

\* The run starts.
LEMMA StartKeeps ==
  ASSUME IInv, Untouched, NEW x \in Threads \cup LateCalls, Start(x)
  PROVE  IInv'
<1>1. Transition(x, {"prepared"}, "running") /\ handler[x].kind = "start"
  BY DEF Start, Serving
<1> QED BY <1>1, TransitionKeeps

\* The run ends as its task has ended.
LEMMA PostKeeps ==
  ASSUME IInv, Untouched, NEW x \in Threads \cup LateCalls, Post(x)
  PROVE  IInv'
<1> DEFINE from == IF task.phase = "completed" THEN {"running"} ELSE {"prepared", "running"}
<1>1. Transition(x, from, task.phase) /\ handler[x].kind = "post"
  BY DEF Post, Serving
<1>2. from \in SUBSET {"prepared", "running"}
  OBVIOUS
<1> HIDE DEF from
<1> QED BY <1>1, <1>2, TransitionKeeps

\* prepareEvaluationRunArchive: a new attempt comes after one that was given up.
LEMMA PrepareKeeps ==
  ASSUME IInv, Untouched, NEW x \in Threads \cup LateCalls, Prepare(x)
  PROVE  IInv'
<1> DEFINE fresh == run.status = "completed" /\ run.archive \in {"not_requested", "failed"}
           r == IF fresh THEN [run EXCEPT !.archive = "pending", !.attempt = @ + 1] ELSE run
<1>1. /\ run \in Runs /\ WorldOK(task, run, store)
      /\ handler \in [Threads \cup LateCalls -> Handled] /\ handler[x] \in Handled
  BY Known
<1>2. /\ run' = r /\ store' = store /\ handler[x].kind = "prepare"
  BY DEF Prepare, Serving
<1>3. /\ r \in Runs /\ r.attempt \in Nat
      /\ WorldOK(task, r, store) /\ (run.status \in Terminal => r.status = run.status)
      /\ Settled(run) => Settled(r)
  <2>1. CASE fresh
    <3>1. run.attempt \in Nat /\ run.attempt + 1 \in Nat
      BY <1>1 DEF Runs
    <3>2. r = [run EXCEPT !.archive = "pending", !.attempt = run.attempt + 1]
      BY <2>1
    <3>3. /\ r \in Runs /\ r.status = run.status /\ r.archive = "pending"
          /\ r.attempt = run.attempt + 1
      BY <1>1, <3>1, <3>2 DEF Runs
    <3> HIDE DEF r
    <3>4. Settled(run) => Settled(r)
      BY <1>1, <2>1, <3>1, <3>3 DEF WorldOK, Settled
    <3> QED BY <1>1, <2>1, <3>1, <3>3, <3>4 DEF WorldOK, Ended
  <2>2. CASE ~fresh
    BY <1>1, <2>2 DEF Runs
  <2> QED BY <2>1, <2>2
<1> HIDE DEF r
<1>4. WorldMoves
  BY <1>2, <1>3, RowMoves
<1>5. CASE r.archive = "available"
  <2>1. AnswerAt(x, "available", r.attempt)
    BY <1>5 DEF Prepare, r
  <2>2. Truth(task, run', handler[x].kind, "available")
    BY <1>2, <1>5 DEF Truth, Settled
  <2> QED BY <1>3, <1>4, <2>1, <2>2, AnswerKeeps DEF Answers
<1>6. CASE r.archive = "uploading"
  <2>1. AnswerAt(x, "ok", r.attempt)
    BY <1>6 DEF Prepare, r
  <2>2. Truth(task, run', handler[x].kind, "ok")
    BY <1>2 DEF Truth
  <2> QED BY <1>3, <1>4, <2>1, <2>2, AnswerKeeps DEF Answers
<1>7. CASE r.archive = "pending"
  <2>1. handler' = [handler EXCEPT ![x].step = "mark", ![x].attempt = r.attempt]
    BY <1>7 DEF Prepare, r
  <2> QED BY <1>3, <1>4, <2>1, StepKeeps
<1>8. CASE r.archive \notin {"available", "uploading", "pending"}
  <2>1. Answer(x, "no")
    BY <1>8 DEF Prepare, r
  <2>2. Truth(task, run', handler[x].kind, "no")
    BY DEF Truth
  <2> QED BY <1>4, <2>1, <2>2, AnswersKeeps DEF Answers
<1> QED BY <1>5, <1>6, <1>7, <1>8

\* A writer that moves the archive of a row whose attempt is open.
LEMMA ArchiveMoves ==
  ASSUME IInv, Untouched, store' = store, NEW archive,
         run' = [run EXCEPT !.archive = archive],
         run.archive \in {"pending", "uploading"},
         archive \in {"uploading", "failed"} \/ (archive = "available" /\ store.archive)
  PROVE  /\ WorldMoves
         /\ run'.archive = archive /\ run'.attempt = run.attempt
<1>1. run \in Runs /\ WorldOK(task, run, store)
  BY TypeIs DEF IInv
<1>2. /\ run' \in Runs /\ run'.archive = archive /\ run'.attempt = run.attempt
      /\ run'.status = run.status
  BY <1>1 DEF Runs
<1>3. Settled(run) => Settled(run')
  BY <1>2 DEF Settled
<1>4. WorldOK(task, run', store)
  BY <1>1, <1>2, <1>3 DEF WorldOK, Ended
<1> QED BY <1>2, <1>3, <1>4, RowMoves

\* A writer that finds the row as it expects, or leaves it.
LEMMA WriterMoves ==
  ASSUME IInv, Untouched, store' = store, NEW archive,
         \/ run' = run
         \/ /\ run' = [run EXCEPT !.archive = archive]
            /\ run.archive \in {"pending", "uploading"},
         archive \in {"uploading", "failed"} \/ (archive = "available" /\ store.archive)
  PROVE  WorldMoves
<1>1. CASE run' = run
  <2>1. faults \in 0 .. MaxFaults
    BY TypeIs DEF IInv
  <2> QED BY <1>1, <2>1, NothingMoves DEF Untouched
<1>2. CASE run' = [run EXCEPT !.archive = archive] /\ run.archive \in {"pending", "uploading"}
  BY <1>2, ArchiveMoves
<1> QED BY <1>1, <1>2

\* markEvaluationRunArchiveUploading.
LEMMA MarkKeeps ==
  ASSUME IInv, Untouched, NEW x \in Threads \cup LateCalls, Mark(x)
  PROVE  IInv'
<1> DEFINE a == handler[x].attempt
           found == run.archive = "pending" /\ run.attempt = a
           r == IF found THEN [run EXCEPT !.archive = "uploading"] ELSE run
           answer == IF r.archive = "available" THEN "available"
                     ELSE IF r.archive = "uploading" /\ r.attempt = a THEN "ok" ELSE "no"
<1>1. run' = r /\ store' = store /\ Answer(x, answer) /\ handler[x].kind = "prepare"
  BY DEF Mark, Serving
<1>2. WorldMoves
  <2>1. \/ run' = run
        \/ /\ run' = [run EXCEPT !.archive = "uploading"]
           /\ run.archive \in {"pending", "uploading"}
    BY <1>1
  <2>2. store' = store
    BY <1>1
  <2> QED BY <2>1, <2>2, WriterMoves
<1>3. answer \in Answers /\ Truth(task, run', handler[x].kind, answer)
  <2> HIDE DEF r
  <2> QED BY <1>1 DEF Answers, Truth, Settled
<1> HIDE DEF answer
<1> QED BY <1>1, <1>2, <1>3, AnswersKeeps

\* The PUT to the staging key.
LEMMA PutKeeps ==
  ASSUME IInv, Untouched, NEW x \in Threads \cup LateCalls, Put(x)
  PROVE  IInv'
<1>1. /\ run \in Runs /\ store \in Stores /\ WorldOK(task, run, store)
      /\ CallOK(task, run, store, handler[x]) /\ handler[x].attempt \in Nat
      /\ faults \in 0 .. MaxFaults
  BY Known
<1>2. /\ store' = [store EXCEPT !.staged = @ \cup {handler[x].attempt}] /\ run' = run
      /\ Answer(x, "ok") /\ handler[x].kind = "put"
  BY DEF Put, Serving
<1>3. store' \in Stores /\ store'.archive = store.archive /\ Fit(task)
  BY <1>1, <1>2 DEF Stores, CallOK
<1>4. WorldOK(task, run, store') /\ Grows(task, run, store, task, run', store')
  BY <1>1, <1>2, <1>3 DEF WorldOK, Grows
<1>5. WorldMoves
  BY <1>1, <1>2, <1>3, <1>4 DEF WorldMoves, Untouched
<1>6. Truth(task, run', handler[x].kind, "ok")
  BY <1>2 DEF Truth
<1> QED BY <1>2, <1>5, <1>6, AnswersKeeps DEF Answers

\* finalizeEvaluationResultUpload: nothing is written yet.
LEMMA FinalizeKeeps ==
  ASSUME IInv, Untouched, NEW x \in Threads \cup LateCalls, Finalize(x)
  PROVE  IInv'
<1>1. WorldMoves
  BY Known, NothingMoves DEF Finalize, Untouched
<1>2. handler[x].kind = "finalize" /\ run' = run
  BY DEF Finalize, Serving
<1>3. CASE Step(x, "clean") /\ run.archive = "available"
  BY <1>1, <1>2, <1>3, OnKeeps DEF Settled
<1>4. CASE Step(x, "publish")
  BY <1>1, <1>4, OnKeeps
<1>5. CASE Answer(x, "no")
  BY <1>1, <1>5, AnswersKeeps DEF Truth, Answers
<1> QED BY <1>3, <1>4, <1>5 DEF Finalize

\* The immutable object is created from a staged one.
LEMMA PublishKeeps ==
  ASSUME IInv, Untouched, NEW x \in Threads \cup LateCalls, Publish(x)
  PROVE  IInv'
<1>1. /\ run \in Runs /\ store \in Stores /\ WorldOK(task, run, store)
      /\ CallOK(task, run, store, handler[x]) /\ faults \in 0 .. MaxFaults
  BY Known
<1>2. handler[x].kind = "finalize" /\ run' = run
  BY DEF Publish, Serving
<1>3. CASE store' = [store EXCEPT !.archive = TRUE] /\ Step(x, "locate")
  <2>1. store' \in Stores /\ store'.archive /\ store'.staged = store.staged /\ Fit(task)
    BY <1>1, <1>2, <1>3 DEF Stores, CallOK
  <2>2. WorldOK(task, run', store') /\ Grows(task, run, store, task, run', store')
    BY <1>1, <1>2, <2>1 DEF WorldOK, Grows
  <2>3. WorldMoves
    BY <1>1, <1>2, <2>1, <2>2 DEF WorldMoves, Untouched
  <2> QED BY <1>3, <2>1, <2>3, OnKeeps
<1>4. CASE store' = store /\ Answer(x, "no")
  <2>1. WorldMoves
    BY <1>1, <1>2, <1>4, NothingMoves DEF Untouched
  <2> QED BY <1>4, <2>1, AnswersKeeps DEF Truth, Answers
<1> QED BY <1>3, <1>4 DEF Publish

\* finalizeEvaluationRunArchive: the object is there when its locator is written.
LEMMA LocateKeeps ==
  ASSUME IInv, Untouched, NEW x \in Threads \cup LateCalls, Locate(x)
  PROVE  IInv'
<1> DEFINE a == handler[x].attempt
           found == run.archive = "uploading" /\ run.attempt = a
           r == IF found THEN [run EXCEPT !.archive = "available"] ELSE run
<1>1. /\ run' = r /\ store' = store
      /\ handler[x].kind = "finalize" /\ handler[x].step = "locate"
  BY DEF Locate, Serving
<1>2. store.archive
  BY <1>1, Known DEF CallOK
<1>3. WorldMoves
  <2>1. \/ run' = run
        \/ /\ run' = [run EXCEPT !.archive = "available"]
           /\ run.archive \in {"pending", "uploading"}
    BY <1>1
  <2>2. store' = store
    BY <1>1
  <2> QED BY <1>2, <2>1, <2>2, WriterMoves
<1> HIDE DEF r
<1>4. CASE r.archive = "available" /\ Step(x, "clean")
  BY <1>1, <1>3, <1>4, OnKeeps DEF Settled
<1>5. CASE Answer(x, "no")
  BY <1>3, <1>5, AnswersKeeps DEF Truth, Answers
<1> QED BY <1>4, <1>5 DEF Locate, r

\* failEvaluationResultUpload.
LEMMA FailArchiveKeeps ==
  ASSUME IInv, Untouched, NEW x \in Threads \cup LateCalls, FailArchive(x)
  PROVE  IInv'
<1> DEFINE a == handler[x].attempt
           found == run.archive \in {"pending", "uploading"} /\ run.attempt = a
           r == IF found THEN [run EXCEPT !.archive = "failed"] ELSE run
<1>1. run' = r /\ store' = store /\ handler[x].kind = "fail"
  BY DEF FailArchive, Serving
<1>2. WorldMoves
  <2>1. \/ run' = run
        \/ /\ run' = [run EXCEPT !.archive = "failed"]
           /\ run.archive \in {"pending", "uploading"}
    BY <1>1
  <2>2. store' = store
    BY <1>1
  <2> QED BY <2>1, <2>2, WriterMoves
<1> HIDE DEF r
<1>3. CASE r.archive = "failed" /\ Step(x, "clean")
  BY <1>1, <1>2, <1>3, OnKeeps DEF Settled
<1>4. CASE Answer(x, "no")
  BY <1>2, <1>4, AnswersKeeps DEF Truth, Answers
<1> QED BY <1>3, <1>4 DEF FailArchive, r

\* cleanupEvaluationArchiveStaging.
LEMMA CleanKeeps ==
  ASSUME IInv, Untouched, NEW x \in Threads \cup LateCalls, Clean(x)
  PROVE  IInv'
<1>1. /\ run \in Runs /\ store \in Stores /\ WorldOK(task, run, store)
      /\ CallOK(task, run, store, handler[x]) /\ faults \in 0 .. MaxFaults
  BY Known
<1>2. /\ store' = [store EXCEPT !.staged = @ \ {handler[x].attempt}] /\ run' = run
      /\ Answer(x, "ok") /\ handler[x].step = "clean"
  BY DEF Clean
<1>3. /\ store' \in Stores /\ store'.archive = store.archive
      /\ store'.staged \subseteq store.staged
  BY <1>1, <1>2 DEF Stores
<1>4. WorldOK(task, run, store') /\ Grows(task, run, store, task, run', store')
  BY <1>1, <1>2, <1>3 DEF WorldOK, Grows
<1>5. WorldMoves
  BY <1>1, <1>2, <1>3, <1>4 DEF WorldMoves, Untouched
<1>6. Truth(task, run', handler[x].kind, "ok")
  BY <1>1, <1>2 DEF Truth, CallOK
<1> QED BY <1>2, <1>5, <1>6, AnswersKeeps DEF Answers

\* A read of the row.
LEMMA GetRunKeeps ==
  ASSUME IInv, Untouched, NEW x \in Threads \cup LateCalls, GetRun(x)
  PROVE  IInv'
<1>1. /\ handler[x].kind = "get" /\ AnswerAt(x, "ok", run.attempt) /\ UNCHANGED <<run, store>>
  BY DEF GetRun, Serving
<1>2. WorldMoves /\ run.attempt \in Nat
  BY <1>1, Known, NothingMoves DEF Untouched, Runs
<1>3. Truth(task, run', handler[x].kind, "ok")
  BY <1>1 DEF Truth
<1> QED BY <1>1, <1>2, <1>3, AnswerKeeps DEF Answers

\* All handlers together.
LEMMA ServesKeep ==
  ASSUME IInv, NEW x \in Threads \cup LateCalls, Serve(x)
  PROVE  IInv'
<1>1. Untouched
  BY DEF Serve, Untouched
<1> QED BY <1>1, CreateKeeps, StartKeeps, PostKeeps, PrepareKeeps, MarkKeeps, PutKeeps, GetRunKeeps,
           FinalizeKeeps, PublishKeeps, LocateKeeps, FailArchiveKeeps, CleanKeeps DEF Serve

\* A handler that stops says nothing anybody acts on.
LEMMA HandlerFailsKeeps ==
  ASSUME IInv, NEW x \in Threads \cup LateCalls, HandlerFails(x)
  PROVE  IInv'
<1>1. faults' \in 0 .. MaxFaults
  BY EvaluationConstants, Known DEF HandlerFails, Fault
<1>2. WorldMoves
  BY <1>1, NothingMoves DEF HandlerFails
<1>3. PICK answer \in {"no", "lost"} : Answer(x, answer)
  BY DEF HandlerFails
<1>4. answer \in Answers /\ Truth(task, run', handler[x].kind, answer)
  BY DEF Answers, Truth
<1> QED BY <1>2, <1>3, <1>4, AnswersKeeps

-----------------------------------------------------------------------------
(* The service: a thread moves with its call, and the task with it.           *)
TaskMoves ==
  /\ UNCHANGED <<run, store>> /\ task' \in Tasks
  /\ WorldOK(task', run, store) /\ Grows(task, run, store, task', run, store)

Counters ==
  /\ wrote' \in Threads \cup {None} /\ partial' \in BOOLEAN
  /\ faults' \in 0 .. MaxFaults

\* What the invariant says of a thread.
LEMMA KnownThread ==
  ASSUME IInv, NEW t \in Threads
  PROVE  /\ task \in Tasks /\ run \in Runs /\ store \in Stores
         /\ thread \in [Threads -> Places] /\ thread[t] \in Places
         /\ handler \in [Threads \cup LateCalls -> Handled] /\ handler[t] \in Handled
         /\ wrote \in Threads \cup {None} /\ partial \in BOOLEAN
         /\ faults \in 0 .. MaxFaults
         /\ WorldOK(task, run, store) /\ CallOK(task, run, store, handler[t])
         /\ PlaceOK(task, run, thread[t].pc) /\ Linked(thread[t].pc, handler[t])
BY TypeIs DEF IInv

\* The records of a thread or a call change, and say what they may.
LEMMA TurnKeeps ==
  ASSUME IInv, TaskMoves, Counters, NEW t \in Threads, NEW p \in Places, NEW h \in Handled,
         thread' = [thread EXCEPT ![t] = p], handler' = [handler EXCEPT ![t] = h],
         PlaceOK(task', run, p.pc), CallOK(task', run, store, h), Linked(p.pc, h)
  PROVE  IInv'
<1>1. /\ run \in Runs /\ store \in Stores /\ thread \in [Threads -> Places]
      /\ handler \in [Threads \cup LateCalls -> Handled]
  BY TypeIs DEF IInv
<1>2. run' = run /\ store' = store /\ task' \in Tasks
  BY DEF TaskMoves
<1>3. RunTypeOK'
  <2>1. thread' \in [Threads -> Places] /\ handler' \in [Threads \cup LateCalls -> Handled]
    BY <1>1
  <2>2. run' \in Runs /\ store' \in Stores
    BY <1>1, <1>2
  <2> QED BY <1>2, <2>1, <2>2, CallsAre
          DEF RunTypeOK, Tasks, Runs, Stores, Places, Handled, Steps, Answers, Counters
<1>4. WorldOK(task', run', store')
  BY <1>2 DEF TaskMoves
<1>5. ASSUME NEW y \in Threads \cup LateCalls PROVE CallOK(task', run', store', handler'[y])
  <2>1. CASE y = t
    BY <1>1, <1>2, <2>1
  <2>2. CASE y # t
    <3>1. CallOK(task, run, store, handler[y]) /\ handler'[y] = handler[y]
      BY <1>1, <2>2 DEF IInv
    <3> QED BY <1>2, <3>1, Stays DEF TaskMoves
  <2> QED BY <2>1, <2>2
<1>6. ASSUME NEW u \in Threads
      PROVE  PlaceOK(task', run', thread'[u].pc) /\ Linked(thread'[u].pc, handler'[u])
  <2>1. CASE u = t
    BY <1>1, <1>2, <2>1
  <2>2. CASE u # t
    <3>1. /\ PlaceOK(task, run, thread[u].pc) /\ Linked(thread[u].pc, handler[u])
          /\ thread'[u] = thread[u] /\ handler'[u] = handler[u]
      BY <1>1, <2>2 DEF IInv
    <3> QED BY <1>2, <3>1, Stays DEF TaskMoves
  <2> QED BY <2>1, <2>2
<1> QED BY <1>3, <1>4, <1>5, <1>6 DEF IInv

\* What a thread asks at a place is what the place relies on.
LEMMA AskingIs ==
  ASSUME NEW k, NEW r, NEW s, NEW pc \in Asked, NEW a \in Nat, PlaceOK(k, r, pc)
  PROVE  /\ Asking(pc, a) \in Handled
         /\ CallOK(k, r, s, Asking(pc, a)) /\ Linked(pc, Asking(pc, a))
<1>1. /\ Call[pc] \in Kinds /\ pc \in DOMAIN Call
  BY CallsAre
<1>2. Asking(pc, a) \in Handled
  BY <1>1 DEF Asking, Handled, Steps, Answers
<1>3. CallOK(k, r, s, Asking(pc, a))
  <2>1. /\ Call[pc] = "post" => pc = "post"
        /\ Call[pc] = "put" => pc \in {"put", "reput"}
        /\ Call[pc] = "finalize" => pc = "finalize"
    BY CallOf
  <2> QED BY <2>1 DEF CallOK, PlaceOK, Asking
<1>4. Linked(pc, Asking(pc, a))
  BY DEF Linked, Asking
<1> QED BY <1>2, <1>3, <1>4

\* The thread goes to a place it may go to.
LEMMA GoAsKeeps ==
  ASSUME IInv, TaskMoves, Counters, NEW t \in Threads, NEW pc \in Asked \cup Local,
         NEW a \in Nat, NEW all \in BOOLEAN, GoAs(t, pc, a, all), PlaceOK(task', run, pc)
  PROVE  IInv'
<1> DEFINE p == [pc |-> pc, attempt |-> a, retried |-> FALSE, all |-> all]
           h == IF pc \in DOMAIN Call THEN Asking(pc, a) ELSE NoCall
<1>1. thread' = [thread EXCEPT ![t] = p] /\ handler' = [handler EXCEPT ![t] = h]
  BY DEF GoAs
<1>2. p \in Places /\ p.pc = pc
  BY DEF Places
<1>3. h \in Handled /\ CallOK(task', run, store, h) /\ Linked(pc, h)
  <2>1. CASE pc \in DOMAIN Call
    <3>1. pc \in Asked
      BY <2>1, CallsAre
    <3>2. /\ Asking(pc, a) \in Handled
          /\ CallOK(task', run, store, Asking(pc, a)) /\ Linked(pc, Asking(pc, a))
      BY <3>1, AskingIs
    <3> QED BY <2>1, <3>2
  <2>2. CASE pc \notin DOMAIN Call
    <3>1. NoCall \in Handled
      BY DEF NoCall, Handled, Kinds, Steps, Answers
    <3>2. CallOK(task', run, store, NoCall)
      BY DEF NoCall, CallOK
    <3>3. Linked(pc, NoCall)
      BY <2>2 DEF Linked
    <3> QED BY <2>2, <3>1, <3>2, <3>3
  <2> QED BY <2>1, <2>2
<1> HIDE DEF p, h
<1> QED BY <1>1, <1>2, <1>3, TurnKeeps

\* The same, in the role the thread has.
LEMMA GoKeeps ==
  ASSUME IInv, TaskMoves, Counters, NEW t \in Threads, NEW pc \in Asked \cup Local,
         NEW a \in Nat, Go(t, pc, a), PlaceOK(task', run, pc)
  PROVE  IInv'
<1> DEFINE all == thread[t].all /\ pc # "idle"
<1>1. all \in BOOLEAN
  BY KnownThread DEF Places
<1>2. GoAs(t, pc, a, all)
  BY DEF Go
<1> HIDE DEF all
<1> QED BY <1>1, <1>2, GoAsKeeps

-----------------------------------------------------------------------------
(* What the service records.                                                  *)

\* Nothing recorded.
LEMMA TaskStays ==
  ASSUME IInv, UNCHANGED <<task, run, store>>
  PROVE  TaskMoves
<1>1. task \in Tasks /\ WorldOK(task, run, store)
  BY TypeIs DEF IInv
<1> QED BY <1>1 DEF TaskMoves, Grows

\* A task that is not over has no result, and its row has no end.
LEMMA OpenTask ==
  ASSUME IInv, ~Done
  PROVE  /\ task.result = "none" /\ ~task.confirmed
         /\ ~store.archive /\ store.staged = {} /\ run.status \notin Terminal
BY DEF IInv, WorldOK, Done, Over, Fit, Ended

\* The first terminal evidence, with the result of a completed task.
LEMMA RecordedMoves ==
  ASSUME IInv, UNCHANGED <<run, store>>, NEW status \in {"completed", "failed"},
         NEW result \in {"none", "fit", "unfit"},
         task' = [Recorded(status) EXCEPT !.result =
                    IF ~Done /\ Recorded(status).phase = "completed" THEN result ELSE @]
  PROVE  TaskMoves /\ Over(task')
<1>1. task \in Tasks /\ WorldOK(task, run, store)
  BY TypeIs DEF IInv
<1>2. CASE Done
  <2>1. Recorded(status) = task
    BY <1>2 DEF Recorded
  <2>2. task' = task
    BY <1>1, <1>2, <2>1 DEF Tasks
  <2> QED BY <1>2, <2>2, TaskStays DEF Over, Done
<1>3. CASE ~Done
  <2> DEFINE phase == IF task.stop THEN "cancelled" ELSE status
  <2>1. Recorded(status) = [task EXCEPT !.phase = phase]
    BY <1>3 DEF Recorded
  <2>2. phase \in Terminal
    BY DEF Terminal
  <2>3. Recorded(status) \in Tasks /\ Recorded(status).confirmed = task.confirmed
    BY <1>1, <2>1, <2>2 DEF Tasks
  <2>4. /\ task' \in Tasks /\ task'.phase = Recorded(status).phase
        /\ task'.confirmed = task.confirmed
    BY <2>3 DEF Tasks
  <2>5. task'.phase \in Terminal
    BY <1>1, <2>1, <2>2, <2>4 DEF Tasks
  <2>6. WorldOK(task', run, store)
    BY <1>1, <1>3, <2>4, <2>5, OpenTask DEF WorldOK, Over
  <2>7. Grows(task, run, store, task', run, store)
    BY <1>3, <2>5, OpenTask DEF Grows, Over, Done, Fit
  <2> QED BY <2>4, <2>5, <2>6, <2>7 DEF TaskMoves, Over
<1> QED BY <1>2, <1>3

\* A task that is interrupted has failed, or was stopped, or had ended.
LEMMA FailedMoves ==
  ASSUME IInv, UNCHANGED <<run, store>>, task' = Recorded("failed")
  PROVE  TaskMoves /\ Over(task')
<1>1. task \in Tasks
  BY TypeIs DEF IInv
<1> DEFINE result == task.result
           full == [Recorded("failed") EXCEPT !.result =
                      IF ~Done /\ Recorded("failed").phase = "completed" THEN result ELSE @]
<1>2. Recorded("failed") \in Tasks /\ (~Done => Recorded("failed").result = result)
  BY <1>1 DEF Recorded, Tasks, Terminal
<1>3. task' = full
  BY <1>2 DEF Tasks
<1>4. result \in {"none", "fit", "unfit"}
  BY <1>1 DEF Tasks
<1> HIDE DEF result
<1> QED BY <1>3, <1>4, RecordedMoves

\* One field that nothing relies on.
LEMMA NoteMoves ==
  ASSUME IInv, UNCHANGED <<run, store>>,
         \/ task' = [task EXCEPT !.run = TRUE]
         \/ task' = [task EXCEPT !.stop = TRUE]
         \/ task' = Quarantined
         \/ (task' = [task EXCEPT !.confirmed = TRUE] /\ Ended(task, run))
  PROVE  TaskMoves /\ (Over(task) => Over(task'))
<1>1. task \in Tasks /\ WorldOK(task, run, store)
  BY TypeIs DEF IInv
<1>2. /\ task' \in Tasks /\ task'.phase = task.phase /\ task'.result = task.result
      /\ task'.confirmed => task.confirmed \/ Ended(task, run)
  BY <1>1 DEF Tasks, Quarantined
<1>3. Ended(task, run) => Ended(task', run)
  BY <1>2 DEF Ended, Over
<1>4. WorldOK(task', run, store) /\ Grows(task, run, store, task', run, store)
  BY <1>1, <1>2, <1>3 DEF WorldOK, Grows, Over, Fit
<1> QED BY <1>2, <1>4 DEF TaskMoves, Over

\* The task moves and nobody else does.
LEMMA NobodyMoves ==
  ASSUME IInv, TaskMoves, Counters, UNCHANGED <<thread, handler>>
  PROVE  IInv'
<1>1. /\ run \in Runs /\ store \in Stores /\ thread \in [Threads -> Places]
      /\ handler \in [Threads \cup LateCalls -> Handled]
  BY TypeIs DEF IInv
<1>2. run' = run /\ store' = store /\ task' \in Tasks
  BY DEF TaskMoves
<1>3. RunTypeOK'
  <2>1. /\ run' \in Runs /\ store' \in Stores /\ thread' \in [Threads -> Places]
        /\ handler' \in [Threads \cup LateCalls -> Handled]
    BY <1>1, <1>2
  <2> QED BY <1>2, <2>1, CallsAre
          DEF RunTypeOK, Tasks, Runs, Stores, Places, Handled, Steps, Answers, Counters
<1>4. /\ \A x \in Threads \cup LateCalls : CallOK(task', run, store, handler[x])
      /\ \A t \in Threads : PlaceOK(task', run, thread[t].pc) /\ Linked(thread[t].pc, handler[t])
  BY Stays DEF IInv, TaskMoves
<1> QED BY <1>2, <1>3, <1>4 DEF IInv, TaskMoves

\* callback(): what is reported is over.
LEMMA CallBackKeeps ==
  ASSUME IInv, TaskMoves, Counters, NEW t \in Threads, CallBack(t), Over(task')
  PROVE  IInv'
<1>1. Go(t, "post", 0) \/ Go(t, "ensure", 0)
  BY DEF CallBack, FirstCall
<1>2. PlaceOK(task', run, "post") /\ PlaceOK(task', run, "ensure")
  BY DEF PlaceOK
<1> QED BY <1>1, <1>2, GoKeeps DEF Asked, Local

\* The task fails on its way.
LEMMA GiveKeeps ==
  ASSUME IInv, UNCHANGED <<run, store>>, Counters, NEW t \in Threads, Give(t)
  PROVE  IInv'
<1>1. TaskMoves /\ Over(task')
  BY FailedMoves DEF Give
<1> QED BY <1>1, CallBackKeeps DEF Give

\* A thread that relies on nothing.
LEMMA FreeGo ==
  ASSUME IInv, TaskMoves, Counters, NEW t \in Threads, NEW a \in Nat,
         NEW pc \in {"idle", "begin", "start", "work", "prepare", "pack", "write", "packed",
                     "get", "fail"},
         Go(t, pc, a)
  PROVE  IInv'
<1>1. PlaceOK(task', run, pc)
  BY DEF PlaceOK
<1> QED BY <1>1, GoKeeps DEF Asked, Local

\* An exception records nothing but, in reconcile_all, the quarantine.
LEMMA ThrowKeeps ==
  ASSUME IInv, UNCHANGED <<run, store>>, Counters, NEW t \in Threads, Throw(t)
  PROVE  IInv'
<1>1. Go(t, "idle", 0) /\ (task' = Quarantined \/ task' = task)
  BY DEF Throw
<1>2. TaskMoves
  BY <1>1, TaskStays, NoteMoves
<1> QED BY <1>1, <1>2, FreeGo

-----------------------------------------------------------------------------
(* The service: one lemma per step.                                           *)

\* A thread that has been told so confirms the end, or gives up.
LEMMA ConfirmGo ==
  ASSUME IInv, UNCHANGED <<task, run, store>>, Counters, NEW t \in Threads, NEW told \in BOOLEAN,
         Go(t, IF told THEN "confirm" ELSE "idle", 0), told => Ended(task, run)
  PROVE  IInv'
<1>1. TaskMoves /\ task' = task
  BY TaskStays
<1>2. CASE told
  <2>1. Go(t, "confirm", 0)
    BY <1>2
  <2>2. PlaceOK(task', run, "confirm")
    BY <1>1, <1>2 DEF PlaceOK
  <2> QED BY <1>1, <2>1, <2>2, GoKeeps DEF Local
<1>3. CASE ~told
  <2>1. Go(t, "idle", 0)
    BY <1>3
  <2> QED BY <1>1, <2>1, FreeGo
<1> QED BY <1>2, <1>3

\* A settled archive belongs to a run that ended as its task.
LEMMA SettledEnds ==
  ASSUME IInv, Settled(run)
  PROVE  Ended(task, run)
<1>1. run \in Runs /\ WorldOK(task, run, store)
  BY TypeIs DEF IInv
<1>2. run.archive # "not_requested"
  BY <1>1 DEF WorldOK, Settled
<1> QED BY <1>1, <1>2 DEF WorldOK, Ended, Over, Terminal

\* What a thread does with the answer to its call.
LEMMA ContinueKeeps ==
  ASSUME IInv, UNCHANGED <<run, store>>, Counters, NEW t \in Threads, NEW pc, NEW answer, NEW a \in Nat,
         pc = thread[t].pc, answer = handler[t].answer,
         Continue(t, pc, answer, a)
  PROVE  IInv'
<1>1. /\ CallOK(task, run, store, handler[t]) /\ PlaceOK(task, run, pc) /\ Linked(pc, handler[t])
      /\ thread[t] \in Places /\ thread[t].attempt \in Nat
  BY KnownThread DEF Places
<1>2. /\ pc \in {"post", "prepare", "again", "finalize", "fail"} =>
           handler[t].kind = IF pc = "again" THEN "prepare" ELSE pc
  <2>1. ASSUME pc \in {"post", "prepare", "again", "finalize", "fail"}
        PROVE  pc \in Asked /\ handler[t].kind = Call[pc]
    BY <1>1, <2>1, CallsAre DEF Linked, Asked
  <2> QED BY <2>1, CallOf
<1>3. task' = task => TaskMoves
  BY TaskStays
<1>4. CASE pc = "create"
  <2>1. CASE task' = [task EXCEPT !.run = TRUE] /\ Go(t, "begin", 0)
    BY <2>1, NoteMoves, FreeGo
  <2>2. CASE Give(t)
    BY <2>2, GiveKeeps
  <2> QED BY <1>4, <2>1, <2>2 DEF Continue
<1>5. CASE pc = "start"
  <2>1. CASE task' = task /\ Go(t, "work", 0)
    BY <1>3, <2>1, FreeGo
  <2>2. CASE Give(t)
    BY <2>2, GiveKeeps
  <2> QED BY <1>5, <2>1, <2>2 DEF Continue
<1>6. CASE pc = "ensure"
  <2>1. CASE task' = [task EXCEPT !.run = TRUE] /\ Go(t, "post", 0)
    <3>1. TaskMoves /\ Over(task')
      BY <1>1, <1>6, <2>1, NoteMoves DEF PlaceOK
    <3>2. PlaceOK(task', run, "post")
      BY <3>1 DEF PlaceOK
    <3> QED BY <2>1, <3>1, <3>2, GoKeeps DEF Asked
  <2>2. CASE task' = task /\ Go(t, "idle", 0)
    BY <1>3, <2>2, FreeGo
  <2> QED BY <1>6, <2>1, <2>2 DEF Continue
<1>7. CASE pc = "post"
  <2>1. task' = task /\ Over(task)
    BY <1>1, <1>7 DEF Continue, PlaceOK
  <2>2. CASE Go(t, "idle", 0)
    BY <1>3, <2>1, <2>2, FreeGo
  <2>3. CASE Go(t, "prepare", 0)
    BY <1>3, <2>1, <2>3, FreeGo
  <2>4. CASE Go(t, "confirm", 0) /\ answer = "ok" /\ task.phase # "completed"
    <3>1. run.status = task.phase
      BY <1>1, <1>2, <1>7, <2>4 DEF CallOK
    <3>2. PlaceOK(task', run, "confirm")
      BY <2>1, <2>4, <3>1 DEF PlaceOK, Ended
    <3> QED BY <1>3, <2>1, <2>4, <3>2, GoKeeps DEF Local
  <2> QED BY <1>7, <2>2, <2>3, <2>4 DEF Continue
<1>8. CASE pc = "prepare"
  <2>1. task' = task
    BY <1>8 DEF Continue
  <2>2. CASE Go(t, "pack", a)
    BY <1>3, <2>1, <2>2, FreeGo
  <2>3. CASE Go(t, IF answer = "available" THEN "confirm" ELSE "idle", 0)
    <3>1. answer = "available" => Ended(task, run)
      BY <1>1, <1>2, <1>8, SettledEnds DEF CallOK
    <3> DEFINE told == answer = "available"
    <3>2. Go(t, IF told THEN "confirm" ELSE "idle", 0) /\ told \in BOOLEAN /\ (told => Ended(task, run))
      BY <2>3, <3>1
    <3> HIDE DEF told
    <3> QED BY <2>1, <3>2, ConfirmGo
  <2> QED BY <1>8, <2>2, <2>3 DEF Continue
<1>9. CASE pc = "put"
  <2>1. task' = task /\ Fit(task)
    BY <1>1, <1>9 DEF Continue, PlaceOK
  <2>2. PlaceOK(task', run, "finalize") /\ PlaceOK(task', run, "again")
    BY <2>1 DEF PlaceOK
  <2>3. Go(t, "finalize", thread[t].attempt) \/ Go(t, "again", thread[t].attempt)
    BY <1>9 DEF Continue
  <2> QED BY <1>1, <1>3, <2>1, <2>2, <2>3, GoKeeps DEF Asked
<1>10. CASE pc = "again"
  <2>1. task' = task /\ Fit(task)
    BY <1>1, <1>10 DEF Continue, PlaceOK
  <2>2. CASE Go(t, "reput", a)
    <3>1. PlaceOK(task', run, "reput")
      BY <2>1 DEF PlaceOK
    <3> QED BY <1>3, <2>1, <2>2, <3>1, GoKeeps DEF Asked
  <2>3. CASE Go(t, IF answer = "available" THEN "confirm" ELSE "idle", 0)
    <3>1. answer = "available" => Ended(task, run)
      BY <1>1, <1>2, <1>10, SettledEnds DEF CallOK
    <3> DEFINE told == answer = "available"
    <3>2. Go(t, IF told THEN "confirm" ELSE "idle", 0) /\ told \in BOOLEAN /\ (told => Ended(task, run))
      BY <2>3, <3>1
    <3> HIDE DEF told
    <3> QED BY <2>1, <3>2, ConfirmGo
  <2> QED BY <1>10, <2>2, <2>3 DEF Continue
<1>11. CASE pc = "reput"
  <2>1. task' = task /\ Fit(task)
    BY <1>1, <1>11 DEF Continue, PlaceOK
  <2>2. CASE Go(t, "finalize", thread[t].attempt)
    <3>1. PlaceOK(task', run, "finalize")
      BY <2>1 DEF PlaceOK
    <3> QED BY <1>1, <1>3, <2>1, <2>2, <3>1, GoKeeps DEF Asked
  <2>3. CASE Go(t, "idle", 0)
    BY <1>3, <2>1, <2>3, FreeGo
  <2> QED BY <1>11, <2>2, <2>3 DEF Continue
<1>12. CASE pc = "get"
  <2>1. task' = task
    BY <1>12 DEF Continue
  <2>2. CASE Go(t, "fail", a)
    BY <1>3, <2>1, <2>2, FreeGo
  <2>3. CASE Go(t, "idle", 0)
    BY <1>3, <2>1, <2>3, FreeGo
  <2> QED BY <1>12, <2>2, <2>3 DEF Continue
<1>13. CASE pc \in {"finalize", "fail"}
  <2>1. task' = task /\ Go(t, IF answer = "ok" THEN "confirm" ELSE "idle", 0)
    BY <1>13 DEF Continue
  <2>2. answer = "ok" => Ended(task, run)
    BY <1>1, <1>2, <1>13, SettledEnds DEF CallOK
  <2> DEFINE told == answer = "ok"
  <2>3. Go(t, IF told THEN "confirm" ELSE "idle", 0) /\ told \in BOOLEAN /\ (told => Ended(task, run))
    BY <2>1, <2>2
  <2> HIDE DEF told
  <2> QED BY <2>1, <2>3, ConfirmGo
<1> QED BY <1>4, <1>5, <1>6, <1>7, <1>8, <1>9, <1>10, <1>11, <1>12, <1>13 DEF Continue

\* The counters that a step leaves alone.
LEMMA SameCounters == IInv /\ UNCHANGED <<wrote, partial, faults>> => Counters
BY TypeIs DEF IInv, Counters

\* _json_request: one more try asks the same again.
LEMMA ReturnKeeps ==
  ASSUME IInv, NEW t \in Threads, Return(t)
  PROVE  IInv'
<1>1. UNCHANGED <<run, store>> /\ Counters
  BY SameCounters DEF Return
<1>2. /\ thread \in [Threads -> Places] /\ thread[t] \in Places
      /\ handler[t] \in Handled /\ PlaceOK(task, run, thread[t].pc)
  BY KnownThread
<1>3. CASE /\ thread[t].pc \in RetriedOnce /\ task' = task
           /\ thread' = [thread EXCEPT ![t].retried = TRUE]
           /\ handler' = [handler EXCEPT ![t] = Asking(thread[t].pc, thread[t].attempt)]
  <2> DEFINE p == [thread[t] EXCEPT !.retried = TRUE]
             h == Asking(thread[t].pc, thread[t].attempt)
  <2>1. p \in Places /\ p.pc = thread[t].pc /\ thread[t].attempt \in Nat
    BY <1>2 DEF Places
  <2>2. thread[t].pc \in Asked
    BY <1>3 DEF RetriedOnce, Asked
  <2>3. h \in Handled /\ CallOK(task, run, store, h) /\ Linked(thread[t].pc, h)
    BY <1>2, <2>1, <2>2, AskingIs
  <2>4. thread' = [thread EXCEPT ![t] = p] /\ handler' = [handler EXCEPT ![t] = h]
    BY <1>3
  <2>5. TaskMoves
    BY <1>1, <1>3, TaskStays
  <2> HIDE DEF p, h
  <2> QED BY <1>1, <1>2, <1>3, <2>1, <2>3, <2>4, <2>5, TurnKeeps
<1>4. CASE Continue(t, thread[t].pc, handler[t].answer, handler[t].attempt)
  <2>1. handler[t].attempt \in Nat
    BY <1>2 DEF Handled
  <2> QED BY <1>1, <1>4, <2>1, ContinueKeeps
<1> QED BY <1>3, <1>4 DEF Return

\* The task starts, or does not.
LEMMA BeginKeeps ==
  ASSUME IInv, NEW t \in Threads, Begin(t)
  PROVE  IInv'
<1>1. UNCHANGED <<run, store>> /\ Counters
  BY SameCounters DEF Begin
<1>2. CASE Go(t, "start", 0) /\ UNCHANGED task
  BY <1>1, <1>2, TaskStays, FreeGo
<1>3. CASE Give(t)
  BY <1>1, <1>3, GiveKeeps
<1> QED BY <1>2, <1>3 DEF Begin

\* The upstream ends, and the end is recorded before it is reported.
LEMMA FinishKeeps ==
  ASSUME IInv, NEW t \in Threads, Finish(t)
  PROVE  IInv'
<1>1. UNCHANGED <<run, store>> /\ Counters /\ CallBack(t)
  BY SameCounters DEF Finish
<1>2. PICK status \in {"completed", "failed"}, result \in {"fit", "unfit"} :
        task' = [Recorded(status) EXCEPT !.result =
                   IF ~Done /\ Recorded(status).phase = "completed" THEN result ELSE @]
  BY DEF Finish
<1>3. TaskMoves /\ Over(task')
  BY <1>1, <1>2, RecordedMoves
<1> QED BY <1>1, <1>3, CallBackKeeps

\* The manifest of the archive is created, or its partial name is taken.
LEMMA PackKeeps ==
  ASSUME IInv, NEW t \in Threads, Pack(t)
  PROVE  IInv'
<1>1. /\ UNCHANGED <<run, store>> /\ thread[t].attempt \in Nat
      /\ wrote \in Threads \cup {None} /\ partial \in BOOLEAN /\ faults \in 0 .. MaxFaults
  BY KnownThread DEF Places, Pack
<1>2. Counters
  BY <1>1 DEF Pack, Counters
<1>3. CASE Throw(t)
  BY <1>1, <1>2, <1>3, ThrowKeeps
<1>4. CASE UNCHANGED task /\ Go(t, "write", thread[t].attempt)
  BY <1>1, <1>2, <1>4, TaskStays, FreeGo
<1> QED BY <1>3, <1>4 DEF Pack

\* It is written and renamed.
LEMMA WriteKeeps ==
  ASSUME IInv, NEW t \in Threads, Write(t)
  PROVE  IInv'
<1>1. /\ UNCHANGED <<task, run, store>> /\ thread[t].attempt \in Nat
      /\ Go(t, "packed", thread[t].attempt)
  BY KnownThread DEF Places, Write
<1>2. Counters
  BY KnownThread DEF Write, Counters
<1> QED BY <1>1, <1>2, TaskStays, FreeGo

\* Only a result that is fit is put.
LEMMA PackedKeeps ==
  ASSUME IInv, NEW t \in Threads, Packed(t)
  PROVE  IInv'
<1>1. UNCHANGED <<task, run, store>> /\ thread[t].attempt \in Nat
  BY KnownThread DEF Packed, Places
<1>c. Counters
  BY KnownThread DEF Packed, Counters
<1>2. TaskMoves
  BY <1>1, TaskStays
<1>3. CASE task.result = "fit" /\ Go(t, "put", thread[t].attempt)
  <2>1. PlaceOK(task', run, "put")
    BY <1>1, <1>3 DEF PlaceOK, Fit
  <2> QED BY <1>1, <1>c, <1>2, <1>3, <2>1, GoKeeps DEF Asked
<1>4. CASE Go(t, "get", 0)
  BY <1>1, <1>c, <1>2, <1>4, FreeGo
<1> QED BY <1>3, <1>4 DEF Packed

\* The task is confirmed only when its end is in the catalog.
LEMMA ConfirmKeeps ==
  ASSUME IInv, NEW t \in Threads, Confirm(t)
  PROVE  IInv'
<1>1. /\ UNCHANGED <<run, store>> /\ Counters /\ Go(t, "idle", 0)
      /\ task' = [task EXCEPT !.confirmed = TRUE] /\ thread[t].pc = "confirm"
  BY SameCounters DEF Confirm
<1>2. Ended(task, run)
  BY <1>1, KnownThread DEF PlaceOK
<1>3. TaskMoves
  BY <1>1, <1>2, NoteMoves
<1> QED BY <1>1, <1>3, FreeGo

\* A task without an end is interrupted, and called back.
LEMMA ReconcileKeeps ==
  ASSUME IInv, NEW t \in Threads, Reconcile(t)
  PROVE  IInv'
<1>1. UNCHANGED <<run, store>> /\ Counters /\ task' = Recorded("failed") /\ CallBack(t)
  BY SameCounters DEF Reconcile
<1>2. TaskMoves /\ Over(task')
  BY <1>1, FailedMoves
<1> QED BY <1>1, <1>2, CallBackKeeps

\* The service starts and does so, or quarantines the claim.
LEMMA ReconcileAllKeeps ==
  ASSUME IInv, NEW t \in Threads, ReconcileAll(t)
  PROVE  IInv'
<1>1. UNCHANGED <<run, store>> /\ partial' \in BOOLEAN /\ wrote' \in Threads \cup {None}
  BY KnownThread DEF ReconcileAll, Reborn
<1>2. faults' \in 0 .. MaxFaults
  <2>1. (faults' = faults) \/ Fault
    BY DEF ReconcileAll
  <2> QED BY <2>1, KnownThread, EvaluationConstants DEF Fault
<1>3. Counters
  BY <1>1, <1>2 DEF Counters
<1>4. CASE task' = Recorded("failed") /\ GoAs(t, FirstCall, 0, TRUE)
  <2>1. TaskMoves /\ Over(task')
    BY <1>1, <1>4, FailedMoves
  <2>2. GoAs(t, "post", 0, TRUE) \/ GoAs(t, "ensure", 0, TRUE)
    BY <1>4 DEF FirstCall
  <2>3. PlaceOK(task', run, "post") /\ PlaceOK(task', run, "ensure")
    BY <2>1 DEF PlaceOK
  <2> QED BY <1>3, <2>1, <2>2, <2>3, GoAsKeeps DEF Asked, Local
<1>5. CASE task' = Quarantined /\ UNCHANGED <<thread, handler>>
  <2>1. TaskMoves
    BY <1>1, <1>5, NoteMoves
  <2> QED BY <1>3, <1>5, <2>1, NobodyMoves
<1> QED BY <1>4, <1>5 DEF ReconcileAll

\* The intent to stop is written.
LEMMA StopKeeps ==
  ASSUME IInv, Stop
  PROVE  IInv'
<1>1. /\ UNCHANGED <<run, store, thread, handler, wrote, partial, faults>>
      /\ task' = [task EXCEPT !.stop = TRUE]
  BY DEF Stop
<1>2. TaskMoves
  BY <1>1, NoteMoves
<1>3. Counters
  BY <1>1, SameCounters
<1> QED BY <1>1, <1>2, <1>3, NobodyMoves

-----------------------------------------------------------------------------
(* Faults: calls that outlive their thread, and threads that die.             *)

\* Every call is one that was there, one that was lost, or none.
CallsMove ==
  /\ handler' \in [Threads \cup LateCalls -> Handled]
  /\ \A x \in Threads \cup LateCalls :
       \/ \E y \in Threads \cup LateCalls : handler'[x] = handler[y]
       \/ handler'[x] = NoCall
       \/ \E y \in Threads \cup LateCalls :
            handler'[x] = [handler[y] EXCEPT !.step = "done", !.answer = "lost"]

\* Calls may be lost or go on without their thread.
LEMMA CallsKeep ==
  ASSUME IInv, UNCHANGED <<task, run, store>>, Counters, CallsMove,
         thread' \in [Threads -> Places],
         \A t \in Threads : PlaceOK(task, run, thread'[t].pc) /\ Linked(thread'[t].pc, handler'[t])
  PROVE  IInv'
<1>1. /\ task \in Tasks /\ run \in Runs /\ store \in Stores
      /\ handler \in [Threads \cup LateCalls -> Handled] /\ WorldOK(task, run, store)
  BY TypeIs DEF IInv
<1>2. RunTypeOK'
  <2>1. /\ task' \in Tasks /\ run' \in Runs /\ store' \in Stores
        /\ handler' \in [Threads \cup LateCalls -> Handled]
    BY <1>1 DEF CallsMove
  <2> QED BY <2>1, CallsAre
          DEF RunTypeOK, Tasks, Runs, Stores, Places, Handled, Steps, Answers, Counters
<1>3. ASSUME NEW x \in Threads \cup LateCalls PROVE CallOK(task, run, store, handler'[x])
  <2>1. CASE \E y \in Threads \cup LateCalls : handler'[x] = handler[y]
    BY <2>1 DEF IInv
  <2>2. CASE handler'[x] = NoCall
    BY <2>2 DEF CallOK, NoCall
  <2>3. ASSUME NEW y \in Threads \cup LateCalls,
               handler'[x] = [handler[y] EXCEPT !.step = "done", !.answer = "lost"]
        PROVE  CallOK(task, run, store, handler'[x])
    <3>1. CallOK(task, run, store, handler[y]) /\ handler[y] \in Handled
      BY <1>1 DEF IInv
    <3>2. /\ handler'[x].kind = handler[y].kind /\ handler'[x].step = "done"
          /\ handler'[x].answer = "lost"
      BY <2>3, <3>1 DEF Handled
    <3> QED BY <3>1, <3>2 DEF CallOK
  <2> QED BY <2>1, <2>2, <2>3 DEF CallsMove
<1> QED BY <1>1, <1>2, <1>3 DEF IInv

\* The thread gives up on a call that goes on.
LEMMA GiveUpKeeps ==
  ASSUME IInv, NEW t \in Threads, GiveUp(t)
  PROVE  IInv'
<1>1. PICK l \in LateCalls :
        handler' = [handler EXCEPT ![l] = handler[t], ![t].step = "done", ![t].answer = "lost"]
  BY DEF GiveUp
<1>2. /\ handler \in [Threads \cup LateCalls -> Handled] /\ thread \in [Threads -> Places]
      /\ l # t /\ l \notin Threads
  BY KnownThread, EvaluationConstants
<1> DEFINE lost == [handler[t] EXCEPT !.step = "done", !.answer = "lost"]
<1>3. lost \in Handled /\ lost.kind = handler[t].kind
  BY <1>2 DEF Handled, Steps, Answers
<1>4. handler' = [handler EXCEPT ![l] = handler[t], ![t] = lost]
  BY <1>1, <1>2
<1> HIDE DEF lost
<1>5. /\ handler' \in [Threads \cup LateCalls -> Handled] /\ handler'[l] = handler[t] /\ handler'[t] = lost
      /\ \A x \in Threads \cup LateCalls : x # l /\ x # t => handler'[x] = handler[x]
  BY <1>2, <1>3, <1>4
<1>6. CallsMove
  BY <1>2, <1>5 DEF CallsMove, lost
<1>7. UNCHANGED <<task, run, store, thread>> /\ Counters
  BY KnownThread, EvaluationConstants DEF GiveUp, Fault, Counters
<1>8. ASSUME NEW u \in Threads
      PROVE  PlaceOK(task, run, thread'[u].pc) /\ Linked(thread'[u].pc, handler'[u])
  <2>1. PlaceOK(task, run, thread[u].pc) /\ Linked(thread[u].pc, handler[u]) /\ thread'[u] = thread[u]
    BY <1>7 DEF IInv
  <2>2. handler'[u].kind = handler[u].kind
    BY <1>2, <1>3, <1>5
  <2> QED BY <2>1, <2>2 DEF Linked
<1> QED BY <1>2, <1>6, <1>7, <1>8, CallsKeep

\* The service dies, and some call goes on.
LEMMA CrashKeeps ==
  ASSUME IInv, Crash
  PROVE  IInv'
<1> DEFINE dead == [x \in DOMAIN handler |-> IF x \in Threads THEN NoCall ELSE handler[x]]
<1>1. /\ handler \in [Threads \cup LateCalls -> Handled] /\ partial \in BOOLEAN
      /\ faults \in 0 .. MaxFaults
  BY TypeIs DEF IInv
<1>2. /\ UNCHANGED <<task, run, store>> /\ Counters
      /\ thread' = [t \in Threads |-> At("idle")]
  <2>1. /\ UNCHANGED <<task, run, store>> /\ Fault /\ Reborn /\ wrote' = None
        /\ thread' = [t \in Threads |-> At("idle")]
    BY DEF Crash
  <2>2. faults' \in 0 .. MaxFaults
    BY <1>1, <2>1, EvaluationConstants DEF Fault
  <2>3. Counters
    BY <1>1, <2>1, <2>2 DEF Reborn, Counters
  <2> QED BY <2>1, <2>3
<1>3. NoCall \in Handled /\ dead \in [Threads \cup LateCalls -> Handled]
  BY <1>1 DEF NoCall, Handled, Kinds, Steps, Answers
<1>4. \A x \in Threads \cup LateCalls : dead[x] = IF x \in Threads THEN NoCall ELSE handler[x]
  BY <1>1
<1>5. /\ CallsMove
      /\ \A u \in Threads : handler'[u] = NoCall
  <2>1. CASE handler' = dead
    BY <1>1, <1>3, <1>4, <2>1 DEF CallsMove
  <2>2. ASSUME NEW t \in Threads, NEW l \in LateCalls, handler' = [dead EXCEPT ![l] = handler[t]]
        PROVE  CallsMove /\ \A u \in Threads : handler'[u] = NoCall
    <3> HIDE DEF dead
    <3>1. /\ handler' \in [Threads \cup LateCalls -> Handled] /\ handler'[l] = handler[t]
          /\ \A x \in Threads \cup LateCalls : x # l => handler'[x] = dead[x]
      BY <1>1, <1>3, <2>2
    <3>2. l \notin Threads
      BY EvaluationConstants
    <3>3. CallsMove
      BY <1>4, <3>1 DEF CallsMove
    <3> QED BY <1>4, <3>1, <3>2, <3>3
  <2> QED BY <2>1, <2>2 DEF Crash
<1>6. thread' \in [Threads -> Places] /\ \A u \in Threads : thread'[u].pc = "idle"
  BY <1>2 DEF At, Places, Local
<1>7. ASSUME NEW u \in Threads
      PROVE  PlaceOK(task, run, thread'[u].pc) /\ Linked(thread'[u].pc, handler'[u])
  <2>1. thread'[u].pc = "idle"
    BY <1>6
  <2>2. "idle" \notin DOMAIN Call
    BY CallsAre DEF Asked
  <2> QED BY <2>1, <2>2 DEF PlaceOK, Linked
<1> QED BY <1>2, <1>5, <1>6, <1>7, CallsKeep

\* A write fails.
LEMMA WriteFailsKeeps ==
  ASSUME IInv, NEW t \in Threads, WriteFails(t)
  PROVE  IInv'
<1>1. UNCHANGED <<run, store>> /\ Counters
  BY KnownThread, EvaluationConstants DEF WriteFails, Fault, Counters
<1> QED BY <1>1, ThrowKeeps, GiveKeeps DEF WriteFails

-----------------------------------------------------------------------------
(* The theorems.                                                              *)

\* A task that was just claimed is in order.
LEMMA InitHolds == Init => IInv
<1> SUFFICES ASSUME Init PROVE IInv
  OBVIOUS
<1> DEFINE main == CHOOSE t \in Threads : TRUE
<1>1. /\ thread = [t \in Threads |-> At(IF t = main THEN "create" ELSE "idle")]
      /\ handler = [x \in Threads \cup LateCalls |->
                      IF x = main THEN Asking("create", 0) ELSE NoCall]
  BY DEF Init
<1> HIDE DEF main
<1>2. task \in Tasks /\ run \in Runs /\ store \in Stores /\ WorldOK(task, run, store)
  <2>1. PICK pinned \in BOOLEAN :
          task = [phase |-> "preparing", stop |-> FALSE, confirmed |-> FALSE, run |-> FALSE,
                  result |-> "none", pinned |-> pinned, quarantined |-> FALSE]
    BY DEF Init
  <2>2. /\ run = [status |-> "none", archive |-> "not_requested", attempt |-> 0, pinned |-> FALSE]
        /\ store = [staged |-> {}, archive |-> FALSE]
    BY DEF Init
  <2> QED BY <2>1, <2>2 DEF Tasks, Runs, Stores, WorldOK, Over, Terminal
<1>3. "create" \in Asked /\ "idle" \notin DOMAIN Call
  BY CallsAre DEF Asked
<1>4. PlaceOK(task, run, "create") /\ PlaceOK(task, run, "idle")
  BY DEF PlaceOK
<1>5. /\ Asking("create", 0) \in Handled /\ CallOK(task, run, store, Asking("create", 0))
      /\ Linked("create", Asking("create", 0))
  BY <1>3, <1>4, AskingIs
<1>6. NoCall \in Handled /\ CallOK(task, run, store, NoCall) /\ Linked("idle", NoCall)
  BY <1>3 DEF NoCall, Handled, Kinds, Steps, Answers, CallOK, Linked
<1>7. /\ thread \in [Threads -> Places]
      /\ \A t \in Threads : thread[t].pc = IF t = main THEN "create" ELSE "idle"
  BY <1>1, <1>3 DEF At, Places, Local
<1>8. handler \in [Threads \cup LateCalls -> Handled]
  BY <1>1, <1>5, <1>6
<1>9. RunTypeOK
  <2>1. wrote = None /\ partial = FALSE /\ faults = 0
    BY DEF Init
  <2>2. 0 \in 0 .. MaxFaults
    BY EvaluationConstants
  <2>3. /\ wrote \in Threads \cup {None} /\ partial \in BOOLEAN
        /\ faults \in 0 .. MaxFaults
    BY <2>1, <2>2
  <2> QED BY <1>2, <1>7, <1>8, <2>3, TypeIs
<1>10. \A x \in Threads \cup LateCalls : CallOK(task, run, store, handler[x])
  BY <1>1, <1>5, <1>6
<1>11. \A t \in Threads : PlaceOK(task, run, thread[t].pc) /\ Linked(thread[t].pc, handler[t])
  BY <1>1, <1>4, <1>5, <1>6, <1>7
<1> QED BY <1>2, <1>9, <1>10, <1>11 DEF IInv

\* Every step keeps the invariant.
LEMMA NextHolds == IInv /\ [Next]_vars => IInv'
<1> SUFFICES ASSUME IInv, [Next]_vars PROVE IInv'
  OBVIOUS
<1>1. ASSUME NEW x \in Threads \cup LateCalls, Serve(x) \/ HandlerFails(x) PROVE IInv'
  BY <1>1, ServesKeep, HandlerFailsKeeps
<1>2. ASSUME NEW t \in Threads, ThreadStep(t) PROVE IInv'
  BY <1>2, ReturnKeeps, BeginKeeps, PackKeeps, WriteKeeps, PackedKeeps, ConfirmKeeps DEF ThreadStep
<1>3. ASSUME NEW t \in Threads,
             Finish(t) \/ Reconcile(t) \/ ReconcileAll(t) \/ GiveUp(t) \/ WriteFails(t)
      PROVE  IInv'
  BY <1>3, FinishKeeps, ReconcileKeeps, ReconcileAllKeeps, GiveUpKeeps, WriteFailsKeeps
<1>4. CASE Stop \/ Crash
  BY <1>4, StopKeeps, CrashKeeps
<1>5. CASE UNCHANGED vars
  BY <1>5 DEF vars, IInv, RunTypeOK
<1> QED BY <1>1, <1>2, <1>3, <1>4, <1>5 DEF Next

\* The invariant holds in every state.
LEMMA Invariant == Spec => []IInv
BY InitHolds, NextHolds, PTL DEF Spec

\* An archive that the row offers is in the store and comes from a completed task
\* whose results passed the packager, whatever calls were lost, late or repeated
\* and wherever the service died (finalizeEvaluationResultUpload).
THEOREM AlwaysReadable == Spec => []ArchiveIsReadable
<1>1. IInv => ArchiveIsReadable
  BY DEF IInv, WorldOK, Fit, ArchiveIsReadable
<1> QED BY <1>1, Invariant, PTL

\* The row ends as the task did, and a confirmed task has its end in the catalog
\* and its first archive attempt settled (transitionEvaluationRun, callback()).
THEOREM RowAgrees == Spec => []RunAgrees
<1>1. IInv => RunAgrees
  BY DEF IInv, WorldOK, Ended, Settled, Over, Done, RunAgrees
<1> QED BY <1>1, Invariant, PTL
=============================================================================
