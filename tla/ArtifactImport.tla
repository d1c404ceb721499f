--------------------------- MODULE ArtifactImport --------------------------
(***************************************************************************)
(* Import of a model artifact from a Studio session: the catalog row, the  *)
(* POST and GET requests that reconcile it, the importer of the provider   *)
(* process (a table in memory, two files on disk, one thread per import),  *)
(* the staging object and the immutable objects.                           *)
(*                                                                         *)
(* Nothing advances an import but requests: each of them drives the row as *)
(* far as the provider's answer allows.  An archive stands for its bytes,  *)
(* its digest, its size and the manifest made of it; an immutable object   *)
(* is keyed by its digest.  The output snapshot is fixed with the import.  *)
(***************************************************************************)
EXTENDS Naturals

CONSTANTS Callers, Imports, Archives, MaxFaults
CONSTANT None

ASSUME ImportAssumption ==
  None \notin Archives /\ None \notin Imports /\ MaxFaults \in Nat

VARIABLES
  row,       \* row[i]: status, archive and cleanup mark of the import row
  artifact,  \* artifact[i]: the archive of the artifact registered for i
  objects,   \* archives published as immutable objects
  staging,   \* staging[i]: the archive under the staging key of i
  caller,    \* caller[c]: the request c serves
  mem,       \* mem[i]: the importer's table, lost with its process
  disk,      \* disk[i]: started.json and terminal.json
  thread,    \* thread[i]: the importer thread of i
  faults     \* lost answers, failed statements and crashes

vars == <<row, artifact, objects, staging, caller, mem, disk, thread, faults>>
Importer == <<mem, disk, thread>>
Catalog == <<row, artifact>>

Unfinished == {"requested", "staging", "finalizing"}
Terminal == {"completed", "failed"}

\* What the provider answers about an import.
Answer(s, a) == [status |-> s, archive |-> a]
Absent == Answer("absent", None)
Answers == {Absent, Answer("staging", None), Answer("failed", None)}
             \cup {Answer("staged", a) : a \in Archives}

Idle == [pc |-> "idle", post |-> FALSE, i |-> None, seen |-> "none",
         archive |-> None, answer |-> Absent, again |-> FALSE]

Rows == [status : {"none"} \cup Unfinished \cup Terminal,
         archive : Archives \cup {None}, cleaned : BOOLEAN]
Requests ==
  [pc : {"idle", "ask", "askDisk", "interrupt", "remember", "told", "target",
         "start", "undo", "toStaging", "toFinalizing", "publish", "put",
         "reread", "register", "fail", "clean", "mark"},
   post : BOOLEAN, i : Imports \cup {None},
   seen : {"none", "requested", "staging"},
   archive : Archives \cup {None}, answer : Answers, again : BOOLEAN]

Threads == [pc : {"none", "building", "uploading", "ending", "recorded"},
            result : Answers]

ImportTypeOK ==
  /\ row \in [Imports -> Rows]
  /\ artifact \in [Imports -> Archives \cup {None}]
  /\ objects \subseteq Archives
  /\ staging \in [Imports -> Archives \cup {None}]
  /\ caller \in [Callers -> Requests]
  /\ mem \in [Imports -> Answers]
  /\ disk \in [Imports -> Answers]
  /\ thread \in [Imports -> Threads]
  /\ faults \in 0 .. MaxFaults

NoThread == [pc |-> "none", result |-> Absent]

Init ==
  /\ row = [i \in Imports |->
       [status |-> "none", archive |-> None, cleaned |-> FALSE]]
  /\ artifact = [i \in Imports |-> None]
  /\ objects = {}
  /\ staging = [i \in Imports |-> None]
  /\ caller = [c \in Callers |-> Idle]
  /\ mem = [i \in Imports |-> Absent]
  /\ disk = [i \in Imports |-> Absent]
  /\ thread = [i \in Imports |-> NoThread]
  /\ faults = 0

------------------------------------------------------------------------------
At(c, pc) == caller[c].pc = pc
Becomes(c, q) == caller' = [caller EXCEPT ![c] = q]
Move(c, pc) == Becomes(c, [caller[c] EXCEPT !.pc = pc])
Return(c) == Becomes(c, Idle)
Of(c) == caller[c].i
Fault == faults < MaxFaults /\ faults' = faults + 1
NoFault == UNCHANGED faults

\* Where a request goes with the row it has read: terminal rows only need
\* their staging removed, finalizing ones go on from the archive in the row.
Follow(c, i, post, r) ==
  LET begin == [Idle EXCEPT !.i = i, !.post = post]
      next == IF r.status \in Terminal
              THEN IF r.cleaned THEN Idle ELSE [begin EXCEPT !.pc = "clean"]
              ELSE IF r.status = "finalizing"
              THEN [begin EXCEPT !.pc = "publish", !.archive = r.archive]
              ELSE [begin EXCEPT !.pc = "ask", !.seen = r.status]
  IN Becomes(c, next)

------------------------------------------------------------------------------
(* Requests                                                                *)

\* createOrReadModelArtifactImport, while the session is ready, and its replay.
Post(c, i) ==
  LET requested == [row[i] EXCEPT !.status = "requested"]
      r == IF row[i].status = "none" THEN requested ELSE row[i] IN
  /\ At(c, "idle")
  /\ row' = [row EXCEPT ![i] = r]
  /\ Follow(c, i, TRUE, r)
  /\ UNCHANGED <<artifact, objects, staging, Importer, faults>>

\* getModelArtifactImport
Get(c, i) ==
  /\ At(c, "idle")
  /\ row[i].status \in Unfinished
     \/ (row[i].status \in Terminal /\ ~row[i].cleaned)
  /\ Follow(c, i, FALSE, row[i])
  /\ UNCHANGED <<Catalog, objects, staging, Importer, faults>>

\* ArtifactImportManager.get: the table under the lock, or the disk without it.
Ask(c) ==
  LET i == Of(c) IN
  /\ At(c, "ask")
  /\ IF mem[i] # Absent
     THEN Becomes(c, [caller[c] EXCEPT !.pc = "told", !.answer = mem[i]])
     ELSE Move(c, "askDisk")
  /\ UNCHANGED <<Catalog, objects, staging, Importer, faults>>

\* terminal.json, else started.json, else 404.
AskDisk(c) ==
  LET i == Of(c) IN
  /\ At(c, "askDisk")
  /\ Becomes(c, [caller[c] EXCEPT
       !.pc = IF disk[i] = Absent THEN "told"
              ELSE IF disk[i].status = "staging" THEN "interrupt"
              ELSE "remember",
       !.answer = IF disk[i].status = "staging"
                  THEN Answer("failed", None) ELSE disk[i]])
  /\ UNCHANGED <<Catalog, objects, staging, Importer, faults>>

\* _interrupt_started: an import that started and is not in the table was cut
\* off by a restart; its terminal state is written.
Interrupt(c) ==
  LET i == Of(c) IN
  /\ At(c, "interrupt")
  /\ disk' = [disk EXCEPT ![i] = Answer("failed", None)]
  /\ Move(c, "remember")
  /\ UNCHANGED <<Catalog, objects, staging, mem, thread, faults>>

Remember(c) ==
  LET i == Of(c) IN
  /\ At(c, "remember")
  /\ mem' = [mem EXCEPT ![i] = caller[c].answer]
  /\ Move(c, "told")
  /\ UNCHANGED <<Catalog, objects, staging, disk, thread, faults>>

\* The answer of get is lost: the request fails, or, when it asked after a
\* failed start, takes it for absent.
AskLost(c) ==
  /\ caller[c].pc \in {"ask", "askDisk", "interrupt", "remember", "told"}
  /\ IF caller[c].again THEN Move(c, "undo") ELSE Return(c)
  /\ Fault
  /\ UNCHANGED <<Catalog, objects, staging, Importer>>

\* What a reconciliation does with a staging row and the provider's answer;
\* metadata that does not fit the request fails the import.
ActOn(c, answer) ==
  IF answer.status = "failed" THEN Move(c, "fail")
  ELSE IF answer.status # "staged" THEN Return(c)
  ELSE \/ Becomes(c, [caller[c] EXCEPT !.pc = "toFinalizing",
                                       !.archive = answer.archive])
       \/ Move(c, "fail")

Told(c) ==
  LET answer == caller[c].answer IN
  /\ At(c, "told")
  /\ IF caller[c].seen = "staging" THEN ActOn(c, answer)
     ELSE IF answer # Absent THEN Move(c, "toStaging")
     ELSE IF caller[c].again THEN Move(c, "undo")
     ELSE IF caller[c].post THEN Move(c, "target")
     ELSE Return(c)
  /\ UNCHANGED <<Catalog, objects, staging, Importer, faults>>

\* createStagingTarget refuses a key that holds an object.
Target(c) ==
  /\ At(c, "target")
  /\ IF staging[Of(c)] = None THEN Move(c, "start") ELSE Return(c)
  /\ UNCHANGED <<Catalog, objects, staging, Importer, faults>>

\* ArtifactImportManager.start, under its lock, and its answer.
Started(i) ==
  IF mem[i] # Absent THEN mem[i]
  ELSE IF disk[i].status \in {"staged", "failed"} THEN disk[i]
  ELSE IF disk[i].status = "staging" THEN Answer("failed", None)
  ELSE Answer("staging", None)

RunStart(i) ==
  /\ mem' = [mem EXCEPT ![i] = Started(i)]
  /\ IF mem[i] = Absent /\ disk[i].status \notin {"staged", "failed"}
     THEN disk' = [disk EXCEPT ![i] = Started(i)] ELSE UNCHANGED disk
  /\ IF mem[i] = Absent /\ disk[i] = Absent
     THEN thread' = [thread EXCEPT ![i].pc = "building"]
     ELSE UNCHANGED thread

Start(c) ==
  LET i == Of(c)
      retry == [caller[c] EXCEPT !.pc = "ask", !.again = TRUE] IN
  /\ At(c, "start")
  /\ \/ /\ RunStart(i)
        /\ Becomes(c, [caller[c] EXCEPT !.pc = "toStaging",
                                        !.answer = Started(i)])
        /\ NoFault
     \/ RunStart(i) /\ Becomes(c, retry) /\ Fault
     \/ UNCHANGED Importer /\ Becomes(c, retry) /\ Fault
     \/ mem[i] = Absent /\ disk[i] = Absent   \* the session refuses it
        /\ UNCHANGED Importer /\ Becomes(c, retry) /\ NoFault
  /\ UNCHANGED <<Catalog, objects, staging>>

\* cleanupStaging after a start that seems not to have happened; best effort.
Undo(c) ==
  /\ At(c, "undo")
  /\ \/ staging' = [staging EXCEPT ![Of(c)] = None] /\ NoFault
     \/ UNCHANGED staging /\ Fault
  /\ Return(c)
  /\ UNCHANGED <<Catalog, objects, Importer>>

------------------------------------------------------------------------------
(* The catalog's transitions                                               *)

\* transitionModelArtifactImport(staging): replayed by a row further on.
ToStaging(c) ==
  LET i == Of(c) IN
  /\ At(c, "toStaging")
  /\ \/ /\ row[i].status \in {"requested", "staging"}
        /\ row' = [row EXCEPT ![i].status = "staging"]
        /\ ActOn(c, caller[c].answer)
     \/ /\ row[i].status = "finalizing"
        /\ Becomes(c, [caller[c] EXCEPT !.pc = "publish",
                                        !.archive = row[i].archive])
        /\ UNCHANGED row
     \/ row[i].status \in Terminal /\ Return(c) /\ UNCHANGED row
  /\ UNCHANGED <<artifact, objects, staging, Importer>> /\ NoFault

\* Mutant: the archive of a later answer replaces the one in the row.
ToFinalizing_anyStatus(c) ==
  LET i == Of(c) IN
  /\ At(c, "toFinalizing")
  /\ row' = [row EXCEPT ![i].status = "finalizing",
                        ![i].archive = caller[c].archive]
  /\ Move(c, "publish")
  /\ UNCHANGED <<artifact, objects, staging, Importer>> /\ NoFault

\* transitionModelArtifactImport(finalizing): replayed by a row further on.
ToFinalizing(c) ==
  LET i == Of(c) IN
  /\ At(c, "toFinalizing")
  /\ \/ /\ row[i].status = "staging"
        /\ row' = [row EXCEPT ![i].status = "finalizing",
                              ![i].archive = caller[c].archive]
        /\ Move(c, "publish")
     \/ /\ row[i].status = "finalizing"
        /\ IF row[i].archive = caller[c].archive
           THEN Move(c, "publish") ELSE Return(c)
        /\ UNCHANGED row
     \/ row[i].status \notin {"staging", "finalizing"} /\ Return(c)
        /\ UNCHANGED row
  /\ UNCHANGED <<artifact, objects, staging, Importer>> /\ NoFault

\* transitionModelArtifactImport(failed) in #failModelArtifactImport
Fail(c) ==
  LET i == Of(c) IN
  /\ At(c, "fail")
  /\ row' = IF row[i].status \in Unfinished
            THEN [row EXCEPT ![i].status = "failed"] ELSE row
  /\ \/ Move(c, "clean") /\ NoFault
     \/ Move(c, "reread") /\ Fault
  /\ UNCHANGED <<artifact, objects, staging, Importer>>

------------------------------------------------------------------------------
(* Publication                                                             *)

\* finalizeStaging, first half: the staged bytes are downloaded and verified.
Publish(c) ==
  /\ At(c, "publish")
  /\ \/ staging[Of(c)] = caller[c].archive /\ Move(c, "put") /\ NoFault
     \/ staging[Of(c)] # caller[c].archive /\ Move(c, "reread") /\ NoFault
     \/ Move(c, "reread") /\ Fault
  /\ UNCHANGED <<Catalog, objects, staging, Importer>>

\* Mutant: an unclear outcome of the create counts as created.
Put_trustsAmbiguous(c) ==
  /\ At(c, "put")
  /\ \/ objects' = objects \cup {caller[c].archive} /\ NoFault
     \/ UNCHANGED objects /\ Fault
  /\ Move(c, "register")
  /\ UNCHANGED <<Catalog, staging, Importer>>

\* Second half: the conditional create; an object that is there, or may be, is
\* read back and compared.
Put(c) ==
  LET a == caller[c].archive IN
  /\ At(c, "put")
  /\ \/ objects' = objects \cup {a} /\ Move(c, "register") /\ NoFault
     \/ objects' = objects \cup {a} /\ Move(c, "reread") /\ Fault
     \/ UNCHANGED objects /\ Move(c, "reread") /\ Fault
  /\ UNCHANGED <<Catalog, staging, Importer>>

\* The row is read again after a failure.
Reread(c) ==
  /\ At(c, "reread")
  /\ IF row[Of(c)].status \in Terminal /\ ~row[Of(c)].cleaned
     THEN Move(c, "clean") ELSE Return(c)
  /\ UNCHANGED <<Catalog, objects, staging, Importer, faults>>

\* finalizeModelArtifactImport: artifact row and completed import together.
Register(c) ==
  LET i == Of(c) IN
  /\ At(c, "register")
  /\ IF row[i].status = "finalizing"
     THEN /\ artifact' = [artifact EXCEPT ![i] = row[i].archive]
          /\ row' = [row EXCEPT ![i].status = "completed"]
     ELSE UNCHANGED Catalog
  /\ IF row[i].status \in {"finalizing", "completed"}
     THEN \/ Move(c, "clean") /\ NoFault
          \/ Return(c) /\ Fault
     ELSE Return(c) /\ NoFault
  /\ UNCHANGED <<objects, staging, Importer>>

\* #cleanupTerminalModelArtifactImport: delete, then mark; on errors a later
\* request tries again.
Clean(c) ==
  /\ At(c, "clean")
  /\ \/ staging' = [staging EXCEPT ![Of(c)] = None]
        /\ Move(c, "mark") /\ NoFault
     \/ UNCHANGED staging /\ Return(c) /\ Fault
  /\ UNCHANGED <<Catalog, objects, Importer>>

\* markModelArtifactImportStagingCleaned
Mark(c) ==
  LET i == Of(c) IN
  /\ At(c, "mark")
  /\ row' = IF row[i].status \in Terminal
            THEN [row EXCEPT ![i].cleaned = TRUE] ELSE row
  /\ Return(c)
  /\ UNCHANGED <<artifact, objects, staging, Importer, faults>>

CallerDies(c) ==
  /\ ~At(c, "idle")
  /\ Return(c) /\ Fault
  /\ UNCHANGED <<Catalog, objects, staging, Importer>>

------------------------------------------------------------------------------
(* The importer thread and its process                                     *)

\* _run: the archive is built, or the snapshot has changed, or it is too large.
Build(i, a) ==
  /\ thread[i].pc = "building"
  /\ \/ thread' = [thread EXCEPT ![i] =
          [pc |-> "uploading", result |-> Answer("staged", a)]]
     \/ thread' = [thread EXCEPT ![i] =
          [pc |-> "ending", result |-> Answer("failed", None)]]
  /\ UNCHANGED <<Catalog, objects, staging, caller, mem, disk, faults>>

\* The PUT to the signed URL, which may store the object and still fail.
Upload(i) ==
  LET a == thread[i].result.archive
      failed == [pc |-> "ending", result |-> Answer("failed", None)] IN
  /\ thread[i].pc = "uploading"
  /\ \/ /\ staging' = [staging EXCEPT ![i] = a]
        /\ thread' = [thread EXCEPT ![i].pc = "ending"]
        /\ NoFault
     \/ /\ staging' = [staging EXCEPT ![i] = a]
        /\ thread' = [thread EXCEPT ![i] = failed] /\ Fault
     \/ /\ UNCHANGED staging
        /\ thread' = [thread EXCEPT ![i] = failed] /\ Fault
  /\ UNCHANGED <<Catalog, objects, caller, mem, disk>>

\* _write_terminal, which may fail: the thread goes on either way.
WriteTerminal(i) ==
  /\ thread[i].pc = "ending"
  /\ \/ disk' = [disk EXCEPT ![i] = thread[i].result] /\ NoFault
     \/ UNCHANGED disk /\ Fault
  /\ thread' = [thread EXCEPT ![i].pc = "recorded"]
  /\ UNCHANGED <<Catalog, objects, staging, caller, mem>>

\* Mutant: the table is left to the next reader of the disk.
End_diskOnly(i) ==
  /\ thread[i].pc = "recorded"
  /\ thread' = [thread EXCEPT ![i] = NoThread]
  /\ UNCHANGED <<Catalog, objects, staging, caller, mem, disk, faults>>

\* The table gets the result, under the lock and last of all.
End(i) ==
  /\ thread[i].pc = "recorded"
  /\ mem' = [mem EXCEPT ![i] = thread[i].result]
  /\ thread' = [thread EXCEPT ![i] = NoThread]
  /\ UNCHANGED <<Catalog, objects, staging, caller, disk, faults>>

\* The provider process dies and comes back.
Restart ==
  /\ Fault
  /\ mem' = [i \in Imports |-> Absent]
  /\ thread' = [i \in Imports |-> NoThread]
  /\ caller' = [c \in Callers |->
       IF caller[c].pc \notin {"askDisk", "interrupt", "remember"}
       THEN caller[c]
       ELSE IF caller[c].again THEN [caller[c] EXCEPT !.pc = "undo"]
       ELSE Idle]
  /\ UNCHANGED <<Catalog, objects, staging, disk>>

------------------------------------------------------------------------------
Advance(c) ==
  \/ Ask(c) \/ AskDisk(c) \/ Interrupt(c) \/ Remember(c) \/ Told(c)
  \/ Target(c) \/ Start(c) \/ Undo(c) \/ ToStaging(c) \/ ToFinalizing(c)
  \/ Fail(c) \/ Publish(c) \/ Put(c) \/ Reread(c) \/ Register(c)
  \/ Clean(c) \/ Mark(c)

Run(i) ==
  (\E a \in Archives : Build(i, a)) \/ Upload(i) \/ WriteTerminal(i) \/ End(i)

Next ==
  \/ \E c \in Callers :
       \/ \E i \in Imports : Post(c, i) \/ Get(c, i)
       \/ Advance(c) \/ AskLost(c) \/ CallerDies(c)
  \/ \E i \in Imports : Run(i)
  \/ Restart

Fairness ==
  /\ \A c \in Callers : WF_vars(Advance(c))
  /\ \A i \in Imports :
       /\ WF_vars(Run(i))
       /\ SF_vars(\E c \in Callers : Get(c, i))

Spec == Init /\ [][Next]_vars /\ Fairness

------------------------------------------------------------------------------
(* Properties                                                              *)

\* A registered artifact has its immutable object, and exactly the completed
\* imports have registered one, with the archive of their row.
ArtifactIsReadable ==
  /\ ImportTypeOK
  /\ \A i \in Imports :
       /\ artifact[i] # None => artifact[i] \in objects
       /\ (row[i].status = "completed") = (artifact[i] # None)
       /\ artifact[i] # None => artifact[i] = row[i].archive

\* An import only moves forward: its end is final, and neither a late answer
\* nor another request changes the archive once it is in the row.
ImportIsFinal ==
  [][\A i \in Imports :
       /\ row[i].status \in Terminal => row'[i].status = row[i].status
       /\ row[i].archive # None => row'[i].archive = row[i].archive
       /\ row[i].status \in {"staging", "finalizing"} =>
            row'[i].status \notin {"none", "requested"}
       /\ row[i].status = "finalizing" => row'[i].status # "staging"]_vars

\* An import that was started ends, completed or failed with its staging
\* removed, as long as somebody asks for it; only one whose staged archive was
\* deleted before it was registered may be stuck: a request whose start failed
\* and whose question went unanswered removes the staging of an import that is
\* running after all, and nobody can publish what is gone.
Stuck(i) == row[i].status = "finalizing" /\ staging[i] = None
StartedSettles ==
  \A i \in Imports :
    row[i].status \in {"staging", "finalizing"}
      ~> (row[i].status \in Terminal /\ row[i].cleaned) \/ Stuck(i)

\* The importer's terminal state is replayed exactly: "One-process async
\* importer with exact terminal replay".
TerminalIsReplayed ==
  [][\A i \in Imports :
       disk[i].status \in {"staged", "failed"} => disk'[i] = disk[i]]_vars
=============================================================================
