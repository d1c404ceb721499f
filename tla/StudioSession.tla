--------------------------- MODULE StudioSession ---------------------------
(***************************************************************************)
(* Swift Studio sessions: the catalog row of a create digest, the API      *)
(* requests that prepare, reconcile and close it, and the session store of *)
(* the provider process, which keeps at most one live session on disk.     *)
(*                                                                         *)
(* A digest d stands for the request that hashes to it: for its row (one   *)
(* per digest, never deleted) and for its provider locator.  A caller is   *)
(* one API request at a time.  An export is the digest and size of the     *)
(* bytes a dataset exports to; it differs between two measurements only    *)
(* when the exporter changed between them.                                 *)
(*                                                                         *)
(* A preparation token is named by the caller it was issued to: the caller *)
(* that held an earlier token of that name is gone by then.  The token and *)
(* the deadline of a row that has left preparing are never tested again.   *)
(*                                                                         *)
(* Time: a create request that was sent reaches the provider's lock, or is *)
(* lost, before its row may be claimed (300 s of client timeout against    *)
(* 310 s of grace and 5 h of lease).  What the provider does under its     *)
(* lock may last longer than that.                                         *)
(***************************************************************************)
EXTENDS Naturals

CONSTANTS Callers, Digests, Exports, MaxFaults
CONSTANT None

ASSUME SessionAssumption ==
  /\ None \notin Digests \cup [d : Digests, partial : BOOLEAN]
  /\ MaxFaults \in Nat

VARIABLES
  row,       \* row[d]: the catalog row
  caller,    \* caller[c]: the API request c serves
  creation,  \* creation[d]: the one create request ever sent for d
  dir,       \* dir[d]: the session directory of d and its manifest
  current,   \* the provider's current.json
  lock,      \* the digest whose create holds the provider's lock, or None
  up,        \* the provider process runs
  late,      \* close requests that outlived their callers
  faults     \* lost answers, failed statements, busy answers and crashes

vars == <<row, caller, creation, dir, current, lock, up, late, faults>>

Active == {"preparing", "ready", "closing"}

NoRow == [status |-> "none", token |-> None, abandoned |-> FALSE,
          due |-> FALSE, export |-> None]
Sent(s) == [state |-> s, expected |-> None]
Idle == [pc |-> "idle", then |-> "answer", d |-> None, r |-> None,
         token |-> None, export |-> None, tries |-> 0, seen |-> "none"]

Rows == [status : {"none", "failed", "closed"} \cup Active,
         token : Callers \cup {None}, abandoned : BOOLEAN, due : BOOLEAN,
         export : Exports \cup {None}]
Requests ==
  [pc : {"idle", "admit", "look", "claim", "current", "renew", "call",
         "recheck", "mismatch", "fail", "abandon", "ready", "toClosing",
         "close", "reopen", "converge"},
   then : {"answer", "admit"}, d : Digests \cup {None},
   r : Digests \cup {None}, token : Callers \cup {None},
   export : Exports \cup {None}, tries : 0 .. 4,
   seen : {"none", "failed", "closed"} \cup Active]

Creations ==
  [state : {"unsent", "sent", "serving", "renamed", "ok", "error"},
   expected : Exports \cup {None}]
Directories == [manifest : {"none", "partial", "ready", "closed"},
                export : Exports \cup {None}]

SessionTypeOK ==
  /\ row \in [Digests -> Rows]
  /\ caller \in [Callers -> Requests]
  /\ creation \in [Digests -> Creations]
  /\ dir \in [Digests -> Directories]
  /\ current \in {None} \cup [d : Digests, partial : BOOLEAN]
  /\ lock \in Digests \cup {None}
  /\ up \in BOOLEAN
  /\ late \subseteq Digests
  /\ faults \in 0 .. MaxFaults

Init ==
  /\ row = [d \in Digests |-> NoRow]
  /\ caller = [c \in Callers |-> Idle]
  /\ creation = [d \in Digests |-> Sent("unsent")]
  /\ dir = [d \in Digests |-> [manifest |-> "none", export |-> None]]
  /\ current = None
  /\ lock = None
  /\ up = TRUE
  /\ late = {}
  /\ faults = 0

------------------------------------------------------------------------------
At(c, pc) == caller[c].pc = pc
Becomes(c, q) == caller' = [caller EXCEPT ![c] = q]
Move(c, pc) == Becomes(c, [caller[c] EXCEPT !.pc = pc])
Return(c) == Becomes(c, Idle)

Fault == faults < MaxFaults /\ faults' = faults + 1
NoFault == UNCHANGED faults

Provider == <<creation, dir, current, lock, up, late>>

\* The row is prepared under the token this caller holds.
Holds(c) == /\ row[caller[c].r].status = "preparing"
            /\ row[caller[c].r].token = caller[c].token

\* The reconciliation of row r ends with the table in state rows: a creation
\* that met another preparing session tries again once it has left that state.
Reconciled(c, rows) ==
  IF caller[c].then = "admit" /\ rows[caller[c].r].status # "preparing"
  THEN Becomes(c, [caller[c] EXCEPT !.pc = "admit", !.then = "answer",
                                    !.r = None, !.token = None])
  ELSE Return(c)

------------------------------------------------------------------------------
(* API requests: admission                                                 *)

BeginCreate(c, d) ==
  /\ At(c, "idle")
  /\ Becomes(c, [Idle EXCEPT !.pc = "admit", !.d = d])
  /\ UNCHANGED <<row, Provider, faults>>

\* createOrReadSwiftStudioSession and what the caller does with its answer.
Admit(c) ==
  LET d == caller[c].d
      active == {x \in Digests : row[x].status \in Active}
      n == caller[c].tries + 1
  IN
  /\ At(c, "admit")
  /\ \/ /\ row[d].status = "none" /\ active = {}
        /\ row' = [row EXCEPT ![d] =
             [NoRow EXCEPT !.status = "preparing", !.token = c]]
        /\ Becomes(c, [caller[c] EXCEPT !.pc = "renew", !.r = d,
             !.token = c, !.tries = 0])
     \/ /\ row[d].status = "preparing"
        /\ Becomes(c, [caller[c] EXCEPT !.pc = "claim", !.r = d,
             !.token = row[d].token, !.tries = 0])
        /\ UNCHANGED row
     \/ /\ row[d].status \notin {"none", "preparing"}
        /\ Return(c)
        /\ UNCHANGED row
     \/ \E x \in active :
          /\ row[d].status = "none"
          /\ IF n = 1 /\ row[x].status = "preparing"
             THEN Becomes(c, [caller[c] EXCEPT !.pc = "look", !.r = x,
                                               !.tries = n])
             ELSE Return(c)
          /\ UNCHANGED row
  /\ UNCHANGED Provider /\ NoFault

\* The row of the session in the way is read again before it is reconciled.
Look(c) ==
  /\ At(c, "look")
  /\ Becomes(c, [caller[c] EXCEPT !.pc = "claim", !.then = "admit",
       !.token = row[caller[c].r].token])
  /\ UNCHANGED <<row, Provider, faults>>

\* getSwiftStudioSession, and each preparing row of an unfiltered list.
BeginGet(c, d) ==
  /\ At(c, "idle")
  /\ row[d].status = "preparing"
  /\ Becomes(c, [Idle EXCEPT !.pc = "claim", !.r = d, !.token = row[d].token])
  /\ UNCHANGED <<row, Provider, faults>>

\* The creator renews its lease and, in the same turn, sends the create with
\* the export e it measured when the request began.  A request aborted by its
\* client before that fails the row instead.
Renew(c, e) ==
  LET d == caller[c].r IN
  /\ At(c, "renew")
  /\ IF Holds(c)
     THEN /\ row' = [row EXCEPT ![d].abandoned = FALSE, ![d].due = FALSE]
          /\ creation' = [creation EXCEPT ![d] =
               [state |-> "sent", expected |-> e]]
          /\ Becomes(c, [caller[c] EXCEPT !.pc = "call", !.export = e])
     ELSE Return(c) /\ UNCHANGED <<row, creation>>
  /\ UNCHANGED <<dir, current, lock, up, late>> /\ NoFault

AbortBeforeCall(c) ==
  /\ At(c, "renew")
  /\ Move(c, "fail") /\ Fault
  /\ UNCHANGED <<row, Provider>>

------------------------------------------------------------------------------
(* API requests: preparation                                               *)

\* What a caller does with the session the provider says it prepared.
Compare(c, d) ==
  Move(c, IF dir[d].export = caller[c].export THEN "ready" ELSE "mismatch")

CallAnswered(c) ==
  /\ At(c, "call")
  /\ creation[caller[c].r].state = "ok"
  /\ Compare(c, caller[c].r)
  /\ UNCHANGED <<row, Provider, faults>>

\* The create failed, or its answer did not come within the timeout.
CallFailed(c) ==
  /\ At(c, "call")
  /\ Move(c, "recheck")
  /\ UNCHANGED <<row, Provider, faults>>

\* Mutant: the claim neither waits for the deadline nor takes a new token.
Claim_anyTime(c) ==
  LET d == caller[c].r IN
  /\ At(c, "claim")
  /\ IF Holds(c)
     THEN Move(c, "current")
     ELSE Reconciled(c, row)
  /\ UNCHANGED <<row, Provider, faults>>

\* claimSwiftStudioSessionPreparation with the token the row was read with.
Claim(c) ==
  LET d == caller[c].r IN
  /\ At(c, "claim")
  /\ IF Holds(c) /\ row[d].due
     THEN /\ row' = [row EXCEPT ![d].token = c, ![d].abandoned = FALSE,
                                ![d].due = FALSE]
          /\ Becomes(c, [caller[c] EXCEPT !.pc = "current", !.token = c])
     ELSE Reconciled(c, row) /\ UNCHANGED row
  /\ UNCHANGED Provider /\ NoFault

\* Without the lock current.json names a whole session or is absent; one that
\* names a session already closed is dropped on the way.
Live == IF current = None \/ dir[current.d].manifest # "ready"
        THEN None ELSE current.d

ReadCurrent ==
  /\ up /\ lock = None
  /\ current' = IF Live = None THEN None ELSE current

\* Mutant: a provider that does not answer has no session.
Current_silenceIsAbsence(c) ==
  LET d == caller[c].r IN
  /\ At(c, "current")
  /\ IF up /\ lock = None /\ Live = d
     THEN Becomes(c, [caller[c] EXCEPT !.pc = "ready",
                                       !.export = dir[d].export])
     ELSE Move(c, "fail")
  /\ UNCHANGED <<row, Provider>> /\ NoFault

\* getCurrentSession of a reconciliation.  The bytes are measured again to be
\* compared with what the provider holds; a measurement may fail.
Current(c) ==
  LET d == caller[c].r IN
  /\ At(c, "current")
  /\ \/ /\ ReadCurrent
        /\ NoFault
        /\ \/ Live = None /\ Move(c, "fail")
           \/ Live \notin {None, d} /\ Move(c, "abandon")
           \/ /\ Live = d
              /\ \E e \in Exports :
                   IF dir[d].export = e
                   THEN Becomes(c, [caller[c] EXCEPT !.pc = "ready",
                                                     !.export = e])
                   ELSE Move(c, "mismatch")
     \/ lock # None /\ Move(c, "abandon") /\ UNCHANGED current /\ NoFault
     \/ Move(c, "abandon") /\ UNCHANGED current /\ Fault
  /\ UNCHANGED <<row, creation, dir, lock, up, late>>

\* getCurrentSession of a creator whose create failed.
Recheck(c) ==
  LET d == caller[c].r IN
  /\ At(c, "recheck")
  /\ \/ /\ ReadCurrent
        /\ IF Live = d THEN Compare(c, d) ELSE Move(c, "abandon")
        /\ NoFault
     \/ lock # None /\ Move(c, "abandon") /\ UNCHANGED current /\ NoFault
     \/ Move(c, "abandon") /\ UNCHANGED current /\ Fault
  /\ UNCHANGED <<row, creation, dir, lock, up, late>>

\* transitionSwiftStudioSession(ready), retried once and then abandoned.
MakeReady(c) ==
  LET d == caller[c].r
      done == [row EXCEPT ![d] = [NoRow EXCEPT !.status = "ready",
                                  !.export = caller[c].export]]
      next == IF Holds(c) THEN done ELSE row
  IN
  /\ At(c, "ready")
  /\ \/ row' = next /\ Reconciled(c, next) /\ NoFault
     \/ Holds(c) /\ row' = done /\ Reconciled(c, done) /\ Fault
     \/ /\ Fault /\ UNCHANGED row
        /\ IF ~Holds(c) THEN Reconciled(c, row)
           ELSE IF caller[c].tries < 2
           THEN Becomes(c, [caller[c] EXCEPT !.tries = 2])
           ELSE Move(c, "abandon")
  /\ UNCHANGED Provider

\* transitionSwiftStudioSession(failed), retried once and then abandoned.
MakeFailed(c) ==
  LET d == caller[c].r
      done == [row EXCEPT ![d] = [NoRow EXCEPT !.status = "failed"]]
      next == IF Holds(c) THEN done ELSE row
  IN
  /\ At(c, "fail")
  /\ \/ row' = next /\ Reconciled(c, next) /\ NoFault
     \/ Holds(c) /\ row' = done /\ Reconciled(c, done) /\ Fault
     \/ /\ Fault /\ UNCHANGED row
        /\ IF ~Holds(c) THEN Reconciled(c, row)
           ELSE IF caller[c].tries < 2
           THEN Becomes(c, [caller[c] EXCEPT !.tries = 2])
           ELSE Move(c, "abandon")
  /\ UNCHANGED Provider

\* abandonSwiftStudioSessionPreparation; a failed statement is swallowed.
Abandon(c) ==
  LET d == caller[c].r
      next == IF Holds(c) THEN [row EXCEPT ![d].abandoned = TRUE] ELSE row
  IN
  /\ At(c, "abandon")
  /\ \/ row' = next /\ Reconciled(c, next) /\ NoFault
     \/ UNCHANGED row /\ Reconciled(c, row) /\ Fault
  /\ UNCHANGED Provider

------------------------------------------------------------------------------
(* The provider's close, seen from a caller                                *)

\* Mutant: the pointer goes first and the manifest is left to a clean-up.
CloseDirectory_pointerOnly(d) ==
  /\ current' = IF current # None /\ current.d = d THEN None ELSE current
  /\ UNCHANGED dir

\* SessionStore.close: the manifest first, then the pointer.
CloseDirectory(d) ==
  /\ dir' = [dir EXCEPT ![d].manifest = "closed"]
  /\ current' = IF current # None /\ current.d = d THEN None ELSE current

\* The process dies between the two writes.
CloseAndDie(d) ==
  /\ up' = FALSE
  /\ dir' = [dir EXCEPT ![d].manifest = "closed"]
  /\ UNCHANGED current

Closable(d) == up /\ lock = None /\ dir[d].manifest \in {"ready", "closed"}

\* A close request of c for d: it succeeds and c goes to ok; native tasks or an
\* artifact import keep the session open and c goes to busy; otherwise c goes
\* to lost, while the request may have run, may run later, or never.
RequestClose(c, d, ok, busy, lost) ==
  /\ UNCHANGED <<creation, lock>>
  /\ \/ Closable(d) /\ CloseDirectory(d) /\ ok /\ NoFault
        /\ UNCHANGED <<up, late>>
     \/ Closable(d) /\ dir[d].manifest = "ready" /\ busy /\ Fault
        /\ UNCHANGED <<dir, current, up, late>>
     \/ /\ lost /\ Fault
        /\ \/ Closable(d) /\ CloseDirectory(d) /\ UNCHANGED <<up, late>>
           \/ Closable(d) /\ CloseAndDie(d) /\ UNCHANGED late
           \/ UNCHANGED <<dir, current, up>> /\ late' = late \cup {d}
     \/ /\ ~Closable(d) /\ lost /\ NoFault
        /\ UNCHANGED <<dir, current, up, late>>

\* #closeSwiftStudioProviderAfterPreparationFailure
CloseMismatch(c) ==
  /\ At(c, "mismatch")
  /\ RequestClose(c, caller[c].r, Move(c, "fail"), Move(c, "abandon"),
                  Move(c, "abandon"))
  /\ UNCHANGED row

------------------------------------------------------------------------------
(* API requests: closing                                                   *)

BeginClose(c, d) ==
  /\ At(c, "idle")
  /\ row[d].status \in {"ready", "closing"}
  /\ Becomes(c, [Idle EXCEPT !.r = d,
       !.pc = IF row[d].status = "ready" THEN "toClosing" ELSE "close"])
  /\ UNCHANGED <<row, Provider, faults>>

\* transitionSwiftStudioSession(closing); an unfinished artifact import of the
\* session refuses it.
ToClosing(c) ==
  LET d == caller[c].r IN
  /\ At(c, "toClosing")
  /\ \/ /\ row[d].status \in {"ready", "closing"}
        /\ row' = [row EXCEPT ![d].status = "closing"]
        /\ Move(c, "close")
     \/ Return(c) /\ UNCHANGED row
  /\ UNCHANGED Provider /\ NoFault

CloseProvider(c) ==
  LET d == caller[c].r IN
  /\ At(c, "close")
  /\ RequestClose(c, d,
       Becomes(c, [caller[c] EXCEPT !.pc = "converge", !.tries = 0,
                                    !.seen = row[d].status]),
       Move(c, "reopen"), Return(c))
  /\ UNCHANGED row

\* reopenBusySwiftStudioSession
Reopen(c) ==
  LET d == caller[c].r IN
  /\ At(c, "reopen")
  /\ row' = IF row[d].status = "closing"
            THEN [row EXCEPT ![d].status = "ready"] ELSE row
  /\ Return(c)
  /\ UNCHANGED Provider /\ NoFault

\* One round of #convergeClosedSwiftStudioSession, at most four: the transition
\* the last answer calls for; a refused one reads the row again, and so does the
\* closing of a session that an unfinished artifact import holds open.
Converge(c) ==
  LET d == caller[c].r
      from == caller[c].seen
      to == IF from = "ready" THEN "closing" ELSE "closed"
  IN
  /\ At(c, "converge")
  /\ IF from \notin {"ready", "closing"} \/ caller[c].tries = 4
     THEN Return(c) /\ UNCHANGED row
     ELSE /\ \/ row[d].status = from /\ row' = [row EXCEPT ![d].status = to]
             \/ (from = "ready" \/ row[d].status # from) /\ UNCHANGED row
          /\ Becomes(c, [caller[c] EXCEPT !.tries = @ + 1,
                                          !.seen = row'[d].status])
  /\ UNCHANGED Provider /\ NoFault

\* The API process dies with the request.
CallerDies(c) ==
  /\ ~At(c, "idle")
  /\ Return(c) /\ Fault
  /\ UNCHANGED <<row, Provider>>

------------------------------------------------------------------------------
(* The provider process                                                    *)

\* SessionStore.create up to the partial pointer, or its refusal: another
\* session is current.
StartCreate(d) ==
  /\ creation[d].state = "sent" /\ up /\ lock = None
  /\ IF Live # None \/ dir[d].manifest \in {"ready", "closed"}
     THEN /\ creation' = [creation EXCEPT ![d] = Sent("error")]
          /\ current' = IF Live = None THEN None ELSE current
          /\ UNCHANGED <<dir, lock>>
     ELSE /\ creation' = [creation EXCEPT ![d].state = "serving"]
          /\ dir' = [dir EXCEPT ![d].manifest = "partial"]
          /\ current' = [d |-> d, partial |-> TRUE]
          /\ lock' = d
  /\ UNCHANGED <<row, caller, up, late, faults>>

\* The export is written and verified against what the creator measured, the
\* manifest says ready and the directory gets its final name.
Materialize(d) ==
  /\ creation[d].state = "serving"
  /\ creation' = [creation EXCEPT ![d] = Sent("renamed")]
  /\ dir' = [dir EXCEPT ![d] =
       [manifest |-> "ready", export |-> creation[d].expected]]
  /\ UNCHANGED <<row, caller, current, lock, up, late, faults>>

\* The export failed: pointer and partial directory are removed.
MaterializeFails(d) ==
  /\ creation[d].state = "serving" /\ Fault
  /\ creation' = [creation EXCEPT ![d] = Sent("error")]
  /\ dir' = [dir EXCEPT ![d].manifest = "none"]
  /\ current' = None
  /\ lock' = None
  /\ UNCHANGED <<row, caller, up, late>>

\* The final pointer.  When a sync after the rename raises, _recover_current
\* writes the same pointer and the request still fails.
FinishCreate(d) ==
  /\ creation[d].state = "renamed"
  /\ \/ creation' = [creation EXCEPT ![d].state = "ok"] /\ NoFault
     \/ creation' = [creation EXCEPT ![d] = Sent("error")] /\ Fault
  /\ current' = [d |-> d, partial |-> FALSE]
  /\ lock' = None
  /\ UNCHANGED <<row, caller, dir, up, late>>

\* A create request that never arrives.
LoseCreate(d) ==
  /\ creation[d].state = "sent" /\ Fault
  /\ creation' = [creation EXCEPT ![d] = Sent("error")]
  /\ UNCHANGED <<row, caller, dir, current, lock, up, late>>

\* A close request whose caller is gone runs now.
LateClose(d) ==
  /\ d \in late
  /\ late' = late \ {d}
  /\ IF Closable(d) THEN CloseDirectory(d) ELSE UNCHANGED <<dir, current>>
  /\ UNCHANGED <<row, caller, creation, lock, up, faults>>

Crash ==
  /\ up /\ Fault
  /\ up' = FALSE
  /\ lock' = None
  /\ late' = {}
  /\ creation' = [d \in Digests |->
       IF creation[d].state \in {"sent", "serving", "renamed"}
       THEN Sent("error") ELSE creation[d]]
  /\ UNCHANGED <<row, caller, dir, current>>

\* SessionStore.__init__: _recover_current.
Restart ==
  /\ ~up
  /\ up' = TRUE
  /\ IF current = None THEN UNCHANGED <<dir, current>>
     ELSE LET d == current.d IN
          /\ current' = IF dir[d].manifest = "ready"
                        THEN [d |-> d, partial |-> FALSE] ELSE None
          /\ dir' = IF dir[d].manifest = "partial"
                    THEN [dir EXCEPT ![d].manifest = "none"] ELSE dir
  /\ UNCHANGED <<row, caller, creation, lock, late, faults>>

------------------------------------------------------------------------------
(* Time                                                                    *)

\* This caller is at work on the preparation it holds.
Acting(c) ==
  /\ caller[c].pc \in {"renew", "call", "recheck", "current", "mismatch",
                       "fail", "abandon", "ready"}
  /\ Holds(c)

\* Mutant: only what was abandoned can be claimed.
BecomeDue_abandonedOnly(d) ==
  /\ row[d].status = "preparing" /\ row[d].abandoned /\ ~row[d].due
  /\ creation[d].state # "sent"
  /\ row' = [row EXCEPT ![d].due = TRUE]
  /\ IF \E c \in Callers : Acting(c) /\ caller[c].r = d
     THEN Fault ELSE NoFault
  /\ UNCHANGED <<caller, Provider>>

\* The grace of an abandoned preparation has passed (310 s), or the lease of
\* one nobody abandoned has run out (5 h).  Either is longer than a request
\* lasts; that one is overtaken all the same is a fault.
BecomeDue(d) ==
  /\ row[d].status = "preparing" /\ ~row[d].due
  /\ creation[d].state # "sent"
  /\ row' = [row EXCEPT ![d].due = TRUE]
  /\ IF \E c \in Callers : Acting(c) /\ caller[c].r = d
     THEN Fault ELSE NoFault
  /\ UNCHANGED <<caller, Provider>>

------------------------------------------------------------------------------
Advance(c) ==
  \/ Admit(c) \/ Look(c) \/ (\E e \in Exports : Renew(c, e)) \/ CallAnswered(c)
  \/ CallFailed(c) \/ Claim(c) \/ Current(c) \/ Recheck(c) \/ MakeReady(c) \/ MakeFailed(c)
  \/ Abandon(c) \/ CloseMismatch(c) \/ ToClosing(c) \/ CloseProvider(c)
  \/ Reopen(c) \/ Converge(c)

Serve(d) ==
  StartCreate(d) \/ Materialize(d) \/ FinishCreate(d)

Next ==
  \/ \E c \in Callers :
       \/ \E d \in Digests :
            BeginCreate(c, d) \/ BeginGet(c, d) \/ BeginClose(c, d)
       \/ Advance(c) \/ AbortBeforeCall(c) \/ CallerDies(c)
  \/ \E d \in Digests :
       \/ Serve(d) \/ MaterializeFails(d) \/ LoseCreate(d) \/ LateClose(d)
       \/ BecomeDue(d)
  \/ Crash \/ Restart

Fairness ==
  /\ \A c \in Callers : WF_vars(Advance(c))
  /\ \A d \in Digests :
       /\ WF_vars(Serve(d))
       /\ WF_vars(BecomeDue(d))
       /\ SF_vars(\E c \in Callers : BeginGet(c, d))
  /\ WF_vars(Restart)

Spec == Init /\ [][Next]_vars /\ Fairness
------------------------------------------------------------------------------
(* Properties                                                              *)

\* A session that is live at the provider, where it keeps every other session
\* out, belongs to a row through which it can still be made ready or closed:
\* no preparation is given up while the provider may hold its session.
NoOrphan ==
  \A d \in Digests :
    current # None /\ current.d = d /\ dir[d].manifest = "ready"
      => row[d].status \in Active

\* A row that says ready, closing or closed names a whole session directory
\* with exactly the export the row records, and closed means closed on disk.
ReadyIsWhole ==
  /\ SessionTypeOK
  /\ \A d \in Digests :
       /\ row[d].status \in {"ready", "closing", "closed"} =>
            /\ dir[d].manifest \in {"ready", "closed"}
            /\ dir[d].export = row[d].export
       /\ row[d].status = "closed" => dir[d].manifest = "closed"

\* One request at a time acts for a preparation: the creator until its lease
\* lapses, then whoever claimed it last.
OwnerIsAlone ==
  \A c1, c2 \in Callers :
    /\ c1 # c2
    /\ Acting(c1) /\ Acting(c2)
    => caller[c1].r # caller[c2].r

\* A preparation ends, ready or failed, as long as somebody looks at it: no
\* lost answer, lapsed lease or crash leaves it preparing for ever.
PreparationSettles ==
  \A d \in Digests :
    row[d].status = "preparing" ~> row[d].status # "preparing"
=============================================================================
