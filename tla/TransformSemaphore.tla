------------------------- MODULE TransformSemaphore -------------------------
(* The process-local admission gate of inline transforms                     *)
(* (packages/workspace/src/v2/transform-semaphore.ts) together with its one   *)
(* caller, V2Workspace.runTransform, which pins its input datasets before it  *)
(* asks for a slot and has to unpin them on every way out.                    *)
(*                                                                            *)
(* One call of runTransform is a member of Calls.  JavaScript runs one        *)
(* callback at a time, so an action is the code between two awaits; what      *)
(* interleaves are the callers, their abort signals, the ends of operations   *)
(* and the promise callbacks in between.                                      *)
EXTENDS Naturals, FiniteSets, SequencesExt

CONSTANTS Calls, MaxConcurrentRuns, MaxPendingRuns

ASSUME LimitsArePositive == /\ MaxConcurrentRuns \in Nat \ {0}
                            /\ MaxPendingRuns \in Nat \ {0}

VARIABLES
  queue,       \* the waiting calls, first come first served
  activeRuns,  \* the semaphore's count of taken slots
  phase,       \* phase[c]: where the call stands
  operation,   \* operation[c]: the work that runs inside the slot
  slot,        \* slot[c]: the call's decrement of activeRuns is still to come
  aborted,     \* aborted[c]: the caller's signal has fired
  public,      \* public[c]: what the caller's promise has settled to
  leased,      \* leased[c]: runTransform still pins the inputs of the call
  returned     \* returned[c]: runTransform has answered its caller

vars == <<queue, activeRuns, phase, operation, slot, aborted, public, leased, returned>>

\* "preparing": inputs are pinned, run() not called yet; "refused": run() threw;
\* "queued", "running" and "settled" are the phases of PendingRun.
Phases == {"idle", "preparing", "refused", "queued", "running", "settled"}

Init ==
  /\ queue = <<>> /\ activeRuns = 0
  /\ phase = [c \in Calls |-> "idle"]
  /\ operation = [c \in Calls |-> "none"]
  /\ slot = [c \in Calls |-> FALSE]
  /\ aborted = [c \in Calls |-> FALSE]
  /\ public = [c \in Calls |-> "pending"]
  /\ leased = [c \in Calls |-> FALSE]
  /\ returned = [c \in Calls |-> FALSE]

-----------------------------------------------------------------------------
(* #pump: with a free slot the head of the queue starts.  The loop of the    *)
(* code takes at most one turn: a caller of #pump has added one entry or      *)
(* freed one slot, and NoIdleSlot says that nothing else was left to start.   *)
Pump(waiting, active, taken, phases) ==
  IF active < MaxConcurrentRuns /\ waiting # <<>>
  THEN /\ queue' = Tail(waiting)
       /\ activeRuns' = active + 1
       /\ slot' = [taken EXCEPT ![Head(waiting)] = TRUE]
       /\ phase' = [phases EXCEPT ![Head(waiting)] = "running"]
       /\ operation' = [operation EXCEPT ![Head(waiting)] = "running"]
  ELSE /\ queue' = waiting
       /\ activeRuns' = active
       /\ slot' = taken
       /\ phase' = phases
       /\ UNCHANGED operation

\* runTransform has resolved its inputs and pinned each of them.
Lease(c) ==
  /\ phase[c] = "idle"
  /\ phase' = [phase EXCEPT ![c] = "preparing"]
  /\ leased' = [leased EXCEPT ![c] = TRUE]
  /\ UNCHANGED <<queue, activeRuns, operation, slot, aborted, public, returned>>

\* The estimate or the working-set admission throws, the signal has fired, or
\* run() finds every slot taken and the queue full: the promise is rejected.
Full == activeRuns >= MaxConcurrentRuns /\ Len(queue) >= MaxPendingRuns

Refuse(c) ==
  /\ phase[c] = "preparing"
  /\ phase' = [phase EXCEPT ![c] = "refused"]
  /\ public' = [public EXCEPT ![c] = "rejected"]
  /\ UNCHANGED <<queue, activeRuns, operation, slot, aborted, leased, returned>>

Submit(c) ==
  /\ phase[c] = "preparing" /\ ~aborted[c] /\ ~Full
  /\ Pump(Append(queue, c), activeRuns, slot, [phase EXCEPT ![c] = "queued"])
  /\ UNCHANGED <<aborted, public, leased, returned>>

\* Mutant: the abort of a running call gives its slot away.
Abort_freesSlot(c) ==
  /\ phase[c] = "running" /\ ~aborted[c]
  /\ aborted' = [aborted EXCEPT ![c] = TRUE]
  /\ activeRuns' = activeRuns - 1
  /\ UNCHANGED <<queue, phase, operation, slot, public, leased, returned>>

\* onAbort: a queued call leaves the queue at once; a running one stops waiting
\* but its operation keeps the slot.  A settled call ignores the signal.
Answer(c) == public' = IF public[c] = "pending" THEN [public EXCEPT ![c] = "rejected"] ELSE public

Abort(c) ==
  /\ ~aborted[c]
  /\ aborted' = [aborted EXCEPT ![c] = TRUE]
  /\ \/ /\ phase[c] = "preparing"
        /\ UNCHANGED <<queue, phase, public>>
     \/ /\ phase[c] = "queued"
        /\ \E i \in DOMAIN queue: queue[i] = c /\ queue' = RemoveAt(queue, i)
        /\ phase' = [phase EXCEPT ![c] = "settled"]
        /\ Answer(c)
     \/ /\ phase[c] = "running"
        /\ Answer(c)
        /\ UNCHANGED <<queue, phase>>
  /\ UNCHANGED <<activeRuns, operation, slot, leased, returned>>

\* The operation handed to run() ends; its finally block releases the leases.
OperationEnds(c) ==
  /\ operation[c] = "running"
  /\ \E result \in {"succeeded", "failed"}:
       operation' = [operation EXCEPT ![c] = result]
  /\ leased' = [leased EXCEPT ![c] = FALSE]
  /\ UNCHANGED <<queue, activeRuns, phase, slot, aborted, public, returned>>

\* Mutant: the execution races the signal instead of waiting for the operation.
Settle_onAbort(c) ==
  /\ phase[c] = "running" /\ aborted[c]
  /\ phase' = [phase EXCEPT ![c] = "settled"]
  /\ UNCHANGED <<queue, activeRuns, operation, slot, aborted, public, leased, returned>>

\* #execute resumes: the signal is read again, the promise settles unless the
\* abort settled it before.
Settle(c) ==
  /\ phase[c] = "running" /\ operation[c] \in {"succeeded", "failed"}
  /\ phase' = [phase EXCEPT ![c] = "settled"]
  /\ public' =
       IF public[c] # "pending" THEN public
       ELSE [public EXCEPT ![c] =
               IF operation[c] = "succeeded" /\ ~aborted[c] THEN "resolved" ELSE "rejected"]
  /\ UNCHANGED <<queue, activeRuns, operation, slot, aborted, leased, returned>>

\* Mutant: the slot is given back and nobody is started.
Release_noPump(c) ==
  /\ slot[c] /\ phase[c] = "settled"
  /\ activeRuns' = activeRuns - 1
  /\ slot' = [slot EXCEPT ![c] = FALSE]
  /\ UNCHANGED <<queue, phase, operation, aborted, public, leased, returned>>

\* The finally callback of the execution: the slot is free, the next call starts.
Release(c) ==
  /\ slot[c] /\ phase[c] = "settled"
  /\ Pump(queue, activeRuns - 1, [slot EXCEPT ![c] = FALSE], phase)
  /\ UNCHANGED <<aborted, public, leased, returned>>

\* Mutant: the catch block does not ask whether the operation has started.
Return_releasesAlways(c) ==
  /\ public[c] # "pending" /\ ~returned[c]
  /\ returned' = [returned EXCEPT ![c] = TRUE]
  /\ leased' = [leased EXCEPT ![c] = FALSE]
  /\ UNCHANGED <<queue, activeRuns, phase, operation, slot, aborted, public>>

\* Mutant: only the operation releases the leases.
Return_keepsLeases(c) ==
  /\ public[c] # "pending" /\ ~returned[c]
  /\ returned' = [returned EXCEPT ![c] = TRUE]
  /\ UNCHANGED <<queue, activeRuns, phase, operation, slot, aborted, public, leased>>

\* runTransform wakes up: its catch block releases the leases of a call whose
\* operation never started, and the caller has its answer.
Return(c) ==
  /\ public[c] # "pending" /\ ~returned[c]
  /\ returned' = [returned EXCEPT ![c] = TRUE]
  /\ leased' = IF operation[c] = "none" THEN [leased EXCEPT ![c] = FALSE] ELSE leased
  /\ UNCHANGED <<queue, activeRuns, phase, operation, slot, aborted, public>>

Next == \E c \in Calls:
  \/ Lease(c) \/ Refuse(c) \/ Submit(c) \/ Abort(c)
  \/ OperationEnds(c) \/ Settle(c) \/ Release(c) \/ Return(c)

Spec == Init /\ [][Next]_vars

(* Promise callbacks run, the synchronous preparation ends, and an operation  *)
(* ends: it is bounded database and object-store work that observes its       *)
(* signal.  Nobody has to abort, and nobody has to call.                      *)
Fairness == \A c \in Calls:
  /\ WF_vars(Submit(c) \/ Refuse(c))
  /\ WF_vars(OperationEnds(c)) /\ WF_vars(Settle(c))
  /\ WF_vars(Release(c)) /\ WF_vars(Return(c))

FairSpec == Spec /\ Fairness

-----------------------------------------------------------------------------
(* Types, and the bookkeeping between the queue, the phases and the slots.   *)
TypeOK ==
  /\ queue \in Seq(Calls) /\ activeRuns \in Nat
  /\ phase \in [Calls -> Phases]
  /\ operation \in [Calls -> {"none", "running", "succeeded", "failed"}]
  /\ slot \in [Calls -> BOOLEAN] /\ aborted \in [Calls -> BOOLEAN]
  /\ public \in [Calls -> {"pending", "resolved", "rejected"}]
  /\ leased \in [Calls -> BOOLEAN] /\ returned \in [Calls -> BOOLEAN]

Holders == {c \in Calls: slot[c]}

\* The count the gate decides on is the number of executions that have not let
\* go of their slot, abandoned ones included, and it never passes the limit
\* (#pump, #execute and its finally callback).
SlotsAreCounted ==
  /\ TypeOK
  /\ activeRuns = Cardinality(Holders)
  /\ activeRuns <= MaxConcurrentRuns
  /\ \A c \in Calls: operation[c] = "running" => slot[c]

\* No call waits while a slot is free, and every waiting call is in the queue
\* once, so that an abort that splices an entry out neither strands nor
\* duplicates another (onAbort and #pump).
NoIdleSlot ==
  /\ queue # <<>> => activeRuns = MaxConcurrentRuns
  /\ Len(queue) <= MaxPendingRuns
  /\ \A i, j \in DOMAIN queue: queue[i] = queue[j] => i = j
  /\ \A c \in Calls: phase[c] = "queued" <=> \E i \in DOMAIN queue: queue[i] = c

\* An operation reads datasets the cache may not evict: its inputs stay pinned
\* until it has ended, also when its caller has long been answered, and nobody
\* else ever holds a pin once the caller is answered (runTransform).
PinsFollowTheOperation == \A c \in Calls:
  /\ operation[c] = "running" => leased[c]
  /\ leased[c] /\ returned[c] => operation[c] = "running"

\* "A running operation keeps its slot until its underlying Promise settles,
\* even when the caller has already aborted": a slot changes hands only after
\* the operation that held it has ended and unpinned its inputs.
SlotOutlivesOperation ==
  [][\A c \in Calls: slot[c] /\ ~slot'[c] =>
       operation[c] \in {"succeeded", "failed"} /\ ~leased[c]]_vars

\* Whoever pins its inputs is answered and lets go of them, whatever the others
\* do, abort included (the queue is drained by #pump alone).
EveryCallReturns ==
  \A c \in Calls: phase[c] = "preparing" ~> returned[c] /\ ~leased[c] /\ ~slot[c]

=============================================================================
