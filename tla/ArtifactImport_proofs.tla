------------------------ MODULE ArtifactImport_proofs ------------------------
(* For any number of requests, imports, archives and faults: a registered      *)
(* artifact is readable, and an import only moves forward.                     *)
EXTENDS ArtifactImport, TLAPS

Places == {"idle", "ask", "askDisk", "interrupt", "remember", "told", "target",
           "start", "undo", "toStaging", "toFinalizing", "publish", "put",
           "reread", "register", "fail", "clean", "mark"}

\* A row has its archive from the transition to finalizing on.
Whole(r) ==
  /\ r.status \in {"none", "requested", "staging"} => r.archive = None
  /\ r.status \in {"finalizing", "completed"} => r.archive \in Archives

\* The artifact a, if any, is the one of row r and is among the objects.
Backed(r, a, objs) ==
  /\ (r.status = "completed") = (a # None)
  /\ a # None => a = r.archive /\ a \in objs

\* What request q relies on: the archive it publishes is the one of its row.
Relies(q, rows, objs) ==
  /\ q.pc # "idle" => q.i \in Imports
  /\ q.pc \in {"toFinalizing", "publish", "put", "register"} => q.archive \in Archives
  /\ q.pc \in {"publish", "put", "register"} => rows[q.i].archive = q.archive
  /\ q.pc = "register" => q.archive \in objs

IInv ==
  /\ ImportTypeOK
  /\ \A i \in Imports : Whole(row[i]) /\ Backed(row[i], artifact[i], objects)
  /\ \A c \in Callers : Relies(caller[c], row, objects)

\* Row r may become s.
Forward(r, s) ==
  /\ r.status \in Terminal => s.status = r.status
  /\ r.archive # None => s.archive = r.archive
  /\ r.status \in {"staging", "finalizing"} => s.status \notin {"none", "requested"}
  /\ r.status = "finalizing" => s.status # "staging"

------------------------------------------------------------------------------
(* Requests as records.                                                        *)

LEMMA TurnedIsRequest ==
  ASSUME NEW q \in Requests, NEW p \in Places
  PROVE  /\ [q EXCEPT !.pc = p] \in Requests
         /\ \A a \in Answers : [q EXCEPT !.pc = p, !.answer = a] \in Requests
         /\ \A a \in Archives : [q EXCEPT !.pc = p, !.archive = a] \in Requests
         /\ \A b \in BOOLEAN : [q EXCEPT !.pc = p, !.again = b] \in Requests
         /\ \A t \in {"none", "requested", "staging"} : [q EXCEPT !.pc = p, !.seen = t] \in Requests
<1>1. [q EXCEPT !.pc = p] \in Requests
  BY DEF Requests, Places
<1>2. \A r \in Requests :
        /\ \A a \in Answers : [r EXCEPT !.answer = a] \in Requests
        /\ \A a \in Archives : [r EXCEPT !.archive = a] \in Requests
        /\ \A b \in BOOLEAN : [r EXCEPT !.again = b] \in Requests
        /\ \A t \in {"none", "requested", "staging"} : [r EXCEPT !.seen = t] \in Requests
  BY DEF Requests
<1> QED BY <1>1, <1>2

\* The types of what is not a row, an object or a request.
Others ==
  /\ staging \in [Imports -> Archives \cup {None}]
  /\ mem \in [Imports -> Answers]
  /\ disk \in [Imports -> Answers]
  /\ thread \in [Imports -> Threads]
  /\ faults \in 0 .. MaxFaults

\* One request goes on; what the others rely on stays as long as archives stay
\* in their rows and objects in the store.
LEMMA OneTurns ==
  ASSUME IInv, NEW c \in Callers, NEW q \in Requests, Becomes(c, q),
         Relies(q, row', objects'), objects \subseteq objects',
         \A i \in Imports : row[i].archive # None => row'[i].archive = row[i].archive
  PROVE  /\ caller' \in [Callers -> Requests]
         /\ \A d \in Callers : Relies(caller'[d], row', objects')
<1>1. caller' \in [Callers -> Requests]
  BY DEF Becomes, IInv, ImportTypeOK
<1>2. ASSUME NEW d \in Callers, d # c
      PROVE  Relies(caller'[d], row', objects')
  <2>1. caller'[d] = caller[d] /\ Relies(caller[d], row, objects)
    BY <1>2 DEF Becomes, IInv, ImportTypeOK
  <2> QED BY <2>1, ImportAssumption DEF Relies
<1>3. caller'[c] = q
  BY DEF Becomes, IInv, ImportTypeOK
<1> QED BY <1>1, <1>2, <1>3

\* The invariant is kept and every row moves forward.
Kept == IInv' /\ \A i \in Imports : Forward(row[i], row'[i])

\* A step of one request that leaves catalog and objects alone.
LEMMA QuietTurn ==
  ASSUME IInv, UNCHANGED <<Catalog, objects>>, Others', NEW c \in Callers,
         \E q \in Requests : Becomes(c, q) /\ Relies(q, row, objects)
  PROVE  Kept
<1>1. row' = row /\ artifact' = artifact /\ objects' = objects
  BY DEF Catalog
<1>2. caller' \in [Callers -> Requests] /\ \A d \in Callers : Relies(caller'[d], row', objects')
  BY <1>1, OneTurns
<1>3. \A i \in Imports : Forward(row[i], row'[i])
  BY <1>1 DEF Forward
<1> QED BY <1>1, <1>2, <1>3 DEF IInv, ImportTypeOK, Others, Kept

\* A step of one request that writes the row of one import.
LEMMA RowTurn ==
  ASSUME IInv, NEW i \in Imports, NEW s \in Rows, row' = [row EXCEPT ![i] = s],
         Forward(row[i], s), Whole(s),
         NEW a \in Archives \cup {None}, artifact' = [artifact EXCEPT ![i] = a],
         Backed(s, a, objects), UNCHANGED objects, Others', NEW c \in Callers,
         \E q \in Requests : Becomes(c, q) /\ Relies(q, row', objects)
  PROVE  Kept
<1>1. row' \in [Imports -> Rows] /\ artifact' \in [Imports -> Archives \cup {None}]
  BY DEF IInv, ImportTypeOK
<1>2. \A k \in Imports : /\ Forward(row[k], row'[k]) /\ Whole(row'[k])
                         /\ Backed(row'[k], artifact'[k], objects')
  BY DEF IInv, ImportTypeOK, Forward
<1>3. \A k \in Imports : row[k].archive # None => row'[k].archive = row[k].archive
  BY <1>2 DEF Forward
<1>4. caller' \in [Callers -> Requests] /\ \A d \in Callers : Relies(caller'[d], row', objects')
  BY <1>3, OneTurns
<1> QED BY <1>1, <1>2, <1>4 DEF IInv, ImportTypeOK, Others, Kept

\* What the invariant says of a request and its import.
LEMMA AtWork ==
  ASSUME IInv, NEW c \in Callers, caller[c].pc # "idle"
  PROVE  /\ caller[c] \in Requests /\ Of(c) \in Imports /\ caller[c].i = Of(c)
         /\ Relies(caller[c], row, objects)
         /\ row[Of(c)] \in Rows /\ Whole(row[Of(c)])
         /\ Backed(row[Of(c)], artifact[Of(c)], objects)
         /\ mem[Of(c)] \in Answers /\ disk[Of(c)] \in Answers
BY DEF IInv, ImportTypeOK, Relies, Of

\* Moving to a place that relies on no archive.
LEMMA MoveTurns ==
  ASSUME IInv, NEW c \in Callers, caller[c].pc # "idle", NEW p \in Places,
         p \notin {"toFinalizing", "publish", "put", "register"}, NEW r, NEW o
  PROVE  /\ Move(c, p) => \E q \in Requests : Becomes(c, q) /\ Relies(q, r, o)
         /\ \A a \in Answers :
              Becomes(c, [caller[c] EXCEPT !.pc = p, !.answer = a])
                => \E q \in Requests : Becomes(c, q) /\ Relies(q, r, o)
         /\ \A b \in BOOLEAN :
              Becomes(c, [caller[c] EXCEPT !.pc = p, !.again = b])
                => \E q \in Requests : Becomes(c, q) /\ Relies(q, r, o)
<1> DEFINE q == caller[c]
<1>1. q \in Requests /\ q.i \in Imports
  BY AtWork
<1> HIDE DEF q
<1>2. \A s \in Requests : s.pc = p /\ s.i = q.i => Relies(s, r, o)
  BY <1>1 DEF Relies
<1>3. /\ [q EXCEPT !.pc = p].pc = p /\ [q EXCEPT !.pc = p].i = q.i
      /\ \A a \in Answers : /\ [q EXCEPT !.pc = p, !.answer = a].pc = p
                            /\ [q EXCEPT !.pc = p, !.answer = a].i = q.i
      /\ \A b \in BOOLEAN : /\ [q EXCEPT !.pc = p, !.again = b].pc = p
                            /\ [q EXCEPT !.pc = p, !.again = b].i = q.i
  BY <1>1 DEF Requests
<1>4. /\ [q EXCEPT !.pc = p] \in Requests /\ Relies([q EXCEPT !.pc = p], r, o)
      /\ \A a \in Answers : /\ [q EXCEPT !.pc = p, !.answer = a] \in Requests
                            /\ Relies([q EXCEPT !.pc = p, !.answer = a], r, o)
      /\ \A b \in BOOLEAN : /\ [q EXCEPT !.pc = p, !.again = b] \in Requests
                            /\ Relies([q EXCEPT !.pc = p, !.again = b], r, o)
  BY <1>1, <1>2, <1>3, TurnedIsRequest
<1> QED BY <1>4 DEF Move, q

LEMMA ReturnTurns ==
  ASSUME NEW c \in Callers, Return(c), NEW r, NEW o
  PROVE  \E q \in Requests : Becomes(c, q) /\ Relies(q, r, o)
<1>1. Idle \in Requests /\ Relies(Idle, r, o)
  BY DEF Idle, Requests, Relies, Absent, Answer, Answers
<1> QED BY <1>1 DEF Return

\* Moving on with an archive, which the row has unless it is still to be written.
LEMMA CarryTurns ==
  ASSUME IInv, NEW c \in Callers, caller[c].pc # "idle", NEW a \in Archives, NEW r, NEW o,
         NEW p \in {"toFinalizing", "publish"}, p = "publish" => r[Of(c)].archive = a,
         Becomes(c, [caller[c] EXCEPT !.pc = p, !.archive = a])
  PROVE  \E q \in Requests : Becomes(c, q) /\ Relies(q, r, o)
<1> DEFINE q == caller[c]
           s == [q EXCEPT !.pc = p, !.archive = a]
<1>1. q \in Requests /\ q.i = Of(c) /\ Of(c) \in Imports
  BY AtWork
<1>2. s \in Requests /\ s.pc = p /\ s.i = Of(c) /\ s.archive = a
  <2> HIDE DEF q
  <2>1. s \in Requests
    BY <1>1, TurnedIsRequest DEF Places
  <2> QED BY <1>1, <2>1 DEF Requests
<1>3. Relies(s, r, o)
  <2> HIDE DEF s
  <2> QED BY <1>1, <1>2 DEF Relies
<1> QED BY <1>2, <1>3

LEMMA ActOnTurns ==
  ASSUME IInv, NEW c \in Callers, caller[c].pc # "idle", NEW answer \in Answers,
         ActOn(c, answer), NEW r, NEW o
  PROVE  \E q \in Requests : Becomes(c, q) /\ Relies(q, r, o)
<1>1. CASE Return(c)
  BY <1>1, ReturnTurns
<1>2. CASE Move(c, "fail")
  BY <1>2, MoveTurns DEF Places
<1>3. CASE answer.status = "staged" /\ Becomes(c, [caller[c] EXCEPT !.pc = "toFinalizing", !.archive = answer.archive])
  <2>1. answer.archive \in Archives
    BY <1>3 DEF Answers, Absent, Answer
  <2> QED BY <1>3, <2>1, CarryTurns
<1> QED BY <1>1, <1>2, <1>3 DEF ActOn

\* Going on from row s of import i, as read.
LEMMA FollowTurns ==
  ASSUME NEW c \in Callers, NEW i \in Imports, NEW post \in BOOLEAN, NEW s \in Rows,
         Whole(s), Follow(c, i, post, s), NEW r, r[i] = s, NEW o
  PROVE  \E q \in Requests : Becomes(c, q) /\ Relies(q, r, o)
<1> DEFINE begin == [Idle EXCEPT !.i = i, !.post = post]
<1>1. Idle \in Requests /\ Relies(Idle, r, o)
  BY DEF Idle, Requests, Relies, Absent, Answer, Answers
<1>2. begin \in Requests /\ begin.i = i
  <2> HIDE DEF Idle
  <2>1. \A q \in Requests : /\ [q EXCEPT !.i = i] \in Requests
                            /\ [q EXCEPT !.i = i].i = i
                            /\ [q EXCEPT !.post = post] \in Requests
                            /\ [q EXCEPT !.post = post].i = q.i
    BY DEF Requests
  <2> QED BY <1>1, <2>1
<1> HIDE DEF begin
<1>3. \A q \in Requests : /\ q.i = i /\ q.pc \in {"clean", "ask"} => Relies(q, r, o)
                          /\ q.i = i /\ q.pc = "publish" /\ q.archive = s.archive
                             /\ s.archive \in Archives => Relies(q, r, o)
  BY DEF Relies
<1>4. CASE s.status \in Terminal
  <2>1. [begin EXCEPT !.pc = "clean"] \in Requests /\ Relies([begin EXCEPT !.pc = "clean"], r, o)
    <3>1. [begin EXCEPT !.pc = "clean"] \in Requests
      BY <1>2, TurnedIsRequest DEF Places
    <3>2. [begin EXCEPT !.pc = "clean"].pc = "clean" /\ [begin EXCEPT !.pc = "clean"].i = i
      BY <1>2 DEF Requests
    <3> QED BY <1>3, <3>1, <3>2
  <2> QED BY <1>1, <1>4, <2>1 DEF Follow, begin
<1>5. CASE s.status = "finalizing"
  <2>1. s.archive \in Archives
    BY <1>5 DEF Whole
  <2> DEFINE q == [begin EXCEPT !.pc = "publish", !.archive = s.archive]
  <2>2. q \in Requests
    BY <1>2, <2>1, TurnedIsRequest DEF Places
  <2>3. q.pc = "publish" /\ q.i = i /\ q.archive = s.archive
    BY <1>2 DEF Requests
  <2>4. Relies(q, r, o)
    BY <1>3, <2>1, <2>2, <2>3
  <2> QED BY <1>5, <2>2, <2>4 DEF Follow, begin, Terminal
<1>6. CASE s.status \notin Terminal /\ s.status # "finalizing"
  <2>1. s.status \in {"none", "requested", "staging"}
    BY <1>6 DEF Rows, Unfinished
  <2> DEFINE q == [begin EXCEPT !.pc = "ask", !.seen = s.status]
  <2>2. q \in Requests
    BY <1>2, <2>1, TurnedIsRequest DEF Places
  <2>3. q.pc = "ask" /\ q.i = i
    BY <1>2 DEF Requests
  <2>4. Relies(q, r, o)
    BY <1>3, <2>1, <2>2, <2>3
  <2> QED BY <1>6, <2>2, <2>4 DEF Follow, begin
<1> QED BY <1>4, <1>5, <1>6
------------------------------------------------------------------------------
(* Requests that only ask, start or go on.                                     *)

LEMMA GetKeeps == ASSUME IInv, NEW c \in Callers, NEW i \in Imports, Get(c, i) PROVE Kept
<1>1. Others'
  BY DEF Get, Importer, IInv, ImportTypeOK, Others
<1>2. row[i] \in Rows /\ Whole(row[i]) /\ Follow(c, i, FALSE, row[i])
  BY DEF Get, IInv, ImportTypeOK
<1>3. \E q \in Requests : Becomes(c, q) /\ Relies(q, row, objects)
  BY <1>2, FollowTurns
<1> QED BY <1>1, <1>3, QuietTurn DEF Get

LEMMA QuestionKeeps ==
  ASSUME IInv, NEW c \in Callers, Ask(c) \/ AskDisk(c) \/ Interrupt(c) \/ Remember(c)
  PROVE  Kept
<1>1. caller[c].pc # "idle" /\ UNCHANGED <<Catalog, objects>>
  BY DEF Ask, AskDisk, Interrupt, Remember, At
<1>2. Answer("failed", None) \in Answers /\ caller[c].answer \in Answers
  BY <1>1, AtWork DEF Answers, Requests
<1>3. CASE Ask(c)
  <2>1. Others'
    BY <1>3 DEF Ask, Importer, IInv, ImportTypeOK, Others
  <2>2. \E q \in Requests : Becomes(c, q) /\ Relies(q, row, objects)
    BY <1>1, <1>3, AtWork, MoveTurns DEF Ask, Places
  <2> QED BY <1>1, <2>1, <2>2, QuietTurn
<1>4. CASE AskDisk(c)
  <2>1. Others'
    BY <1>4 DEF AskDisk, Importer, IInv, ImportTypeOK, Others
  <2> DEFINE d == disk[Of(c)]
             p == IF d = Absent THEN "told"
                  ELSE IF d.status = "staging" THEN "interrupt" ELSE "remember"
             a == IF d.status = "staging" THEN Answer("failed", None) ELSE d
  <2>2. p \in Places /\ p \notin {"toFinalizing", "publish", "put", "register"} /\ a \in Answers
    BY <1>1, <1>2, AtWork DEF Places
  <2>3. Becomes(c, [caller[c] EXCEPT !.pc = p, !.answer = a])
    BY <1>4 DEF AskDisk
  <2> HIDE DEF p, a
  <2>4. \E q \in Requests : Becomes(c, q) /\ Relies(q, row, objects)
    BY <1>1, <2>2, <2>3, MoveTurns
  <2> QED BY <1>1, <2>1, <2>4, QuietTurn
<1>5. CASE Interrupt(c)
  <2>1. Others'
    BY <1>1, <1>2, <1>5, AtWork DEF Interrupt, IInv, ImportTypeOK, Others
  <2>2. \E q \in Requests : Becomes(c, q) /\ Relies(q, row, objects)
    BY <1>1, <1>5, MoveTurns DEF Interrupt, Places
  <2> QED BY <1>1, <2>1, <2>2, QuietTurn
<1>6. CASE Remember(c)
  <2>1. Others'
    BY <1>1, <1>2, <1>6, AtWork DEF Remember, IInv, ImportTypeOK, Others
  <2>2. \E q \in Requests : Becomes(c, q) /\ Relies(q, row, objects)
    BY <1>1, <1>6, MoveTurns DEF Remember, Places
  <2> QED BY <1>1, <2>1, <2>2, QuietTurn
<1> QED BY <1>3, <1>4, <1>5, <1>6

\* One fault more is still within the bound.
LEMMA FaultIsBounded == ASSUME IInv, Fault \/ NoFault PROVE faults' \in 0 .. MaxFaults
BY ImportAssumption DEF IInv, ImportTypeOK, Fault, NoFault

LEMMA AskLostKeeps == ASSUME IInv, NEW c \in Callers, AskLost(c) \/ CallerDies(c) PROVE Kept
<1>1. caller[c].pc # "idle" /\ UNCHANGED <<Catalog, objects>>
  BY DEF AskLost, CallerDies, At
<1>2. Others'
  BY FaultIsBounded DEF AskLost, CallerDies, Importer, IInv, ImportTypeOK, Others
<1>3. \E q \in Requests : Becomes(c, q) /\ Relies(q, row, objects)
  BY <1>1, MoveTurns, ReturnTurns DEF AskLost, CallerDies, Places
<1> QED BY <1>1, <1>2, <1>3, QuietTurn

LEMMA ToldKeeps == ASSUME IInv, NEW c \in Callers, Told(c) PROVE Kept
<1>1. caller[c].pc # "idle" /\ UNCHANGED <<Catalog, objects>>
  BY DEF Told, At
<1>2. Others'
  BY DEF Told, Importer, IInv, ImportTypeOK, Others
<1>3. caller[c].answer \in Answers
  BY <1>1, AtWork DEF Requests
<1>4. CASE ActOn(c, caller[c].answer)
  <2>1. \E q \in Requests : Becomes(c, q) /\ Relies(q, row, objects)
    BY <1>1, <1>3, <1>4, ActOnTurns
  <2> QED BY <1>1, <1>2, <2>1, QuietTurn
<1>5. CASE Move(c, "toStaging") \/ Move(c, "undo") \/ Move(c, "target") \/ Return(c)
  <2>1. \E q \in Requests : Becomes(c, q) /\ Relies(q, row, objects)
    BY <1>1, <1>5, MoveTurns, ReturnTurns DEF Places
  <2> QED BY <1>1, <1>2, <2>1, QuietTurn
<1> QED BY <1>4, <1>5 DEF Told

LEMMA StartKeeps == ASSUME IInv, NEW c \in Callers, Target(c) \/ Start(c) PROVE Kept
<1>1. caller[c].pc # "idle" /\ UNCHANGED <<Catalog, objects>>
  BY DEF Target, Start, At
<1>2. CASE Target(c)
  <2>1. Others'
    BY <1>2 DEF Target, Importer, IInv, ImportTypeOK, Others
  <2>2. \E q \in Requests : Becomes(c, q) /\ Relies(q, row, objects)
    BY <1>1, <1>2, MoveTurns, ReturnTurns DEF Target, Places
  <2> QED BY <1>1, <2>1, <2>2, QuietTurn
<1>3. CASE Start(c)
  <2> DEFINE i == Of(c)
  <2>1. i \in Imports /\ Started(i) \in Answers
    BY <1>1, AtWork DEF Started, Answers
  <2>2. RunStart(i) \/ UNCHANGED Importer
    BY <1>3 DEF Start
  <2>3. /\ mem' \in [Imports -> Answers] /\ disk' \in [Imports -> Answers]
        /\ thread' \in [Imports -> Threads]
    <3> HIDE DEF i
    <3>1. CASE UNCHANGED Importer
      BY <3>1 DEF Importer, IInv, ImportTypeOK
    <3>2. CASE RunStart(i)
      <4> DEFINE a == Started(i)
      <4>1. mem' = [mem EXCEPT ![i] = a] /\ disk' \in {[disk EXCEPT ![i] = a], disk}
        BY <3>2 DEF RunStart
      <4>2. thread' \in {[thread EXCEPT ![i].pc = "building"], thread}
        BY <3>2 DEF RunStart
      <4> HIDE DEF a
      <4>3. mem' \in [Imports -> Answers] /\ disk' \in [Imports -> Answers]
        BY <2>1, <4>1 DEF IInv, ImportTypeOK, a
      <4>4. thread' \in [Imports -> Threads]
        BY <2>1, <4>2 DEF IInv, ImportTypeOK, Threads
      <4> QED BY <4>3, <4>4
    <3> QED BY <2>2, <3>1, <3>2
  <2>4. Others'
    BY <1>3, <2>3, FaultIsBounded DEF Start, IInv, ImportTypeOK, Others
  <2>5. \E q \in Requests : Becomes(c, q) /\ Relies(q, row, objects)
    BY <1>1, <1>3, <2>1, MoveTurns DEF Start, Places
  <2> QED BY <1>1, <2>4, <2>5, QuietTurn
<1> QED BY <1>2, <1>3

LEMMA StagingKeeps ==
  ASSUME IInv, NEW c \in Callers, Undo(c) \/ Clean(c) \/ Reread(c) \/ Publish(c)
  PROVE  Kept
<1>1. caller[c].pc # "idle" /\ UNCHANGED <<Catalog, objects>>
  BY DEF Undo, Clean, Reread, Publish, At
<1>2. Others'
  BY <1>1, AtWork, FaultIsBounded
     DEF Undo, Clean, Reread, Publish, Importer, IInv, ImportTypeOK, Others, Fault, NoFault
<1>3. CASE Move(c, "mark") \/ Move(c, "clean") \/ Move(c, "reread") \/ Return(c)
  <2>1. \E q \in Requests : Becomes(c, q) /\ Relies(q, row, objects)
    BY <1>1, <1>3, MoveTurns, ReturnTurns DEF Places
  <2> QED BY <1>1, <1>2, <2>1, QuietTurn
<1>4. CASE Publish(c) /\ Move(c, "put")
  <2> DEFINE q == caller[c]
             s == [q EXCEPT !.pc = "put"]
  <2>1. q \in Requests /\ Relies(q, row, objects) /\ q.pc = "publish"
    BY <1>1, <1>4, AtWork DEF Publish, At
  <2> HIDE DEF q
  <2>2. s \in Requests
    BY <2>1, TurnedIsRequest DEF Places
  <2>3. s.pc = "put" /\ s.i = q.i /\ s.archive = q.archive
    BY <2>1 DEF Requests
  <2>4. Relies(s, row, objects)
    BY <2>1, <2>3 DEF Relies
  <2>5. Becomes(c, s)
    BY <1>4 DEF Move, q
  <2>6. \E t \in Requests : Becomes(c, t) /\ Relies(t, row, objects)
    BY <2>2, <2>4, <2>5
  <2> QED BY <1>1, <1>2, <2>6, QuietTurn
<1> QED BY <1>3, <1>4 DEF Undo, Clean, Reread, Publish
------------------------------------------------------------------------------
(* The steps that write a row or an object.                                    *)

LEMMA PostKeeps == ASSUME IInv, NEW c \in Callers, NEW i \in Imports, Post(c, i) PROVE Kept
<1> DEFINE s == IF row[i].status = "none" THEN [row[i] EXCEPT !.status = "requested"] ELSE row[i]
<1>1. row[i] \in Rows /\ Whole(row[i]) /\ Backed(row[i], artifact[i], objects)
  BY DEF IInv, ImportTypeOK
<1>2. s \in Rows /\ Forward(row[i], s) /\ Whole(s) /\ Backed(s, artifact[i], objects)
  BY <1>1 DEF Rows, Forward, Whole, Backed, Unfinished, Terminal
<1>3. row' = [row EXCEPT ![i] = s] /\ Follow(c, i, TRUE, s) /\ UNCHANGED objects
  BY DEF Post
<1> HIDE DEF s
<1>4. row'[i] = s
  BY <1>3 DEF IInv, ImportTypeOK
<1>5. \E q \in Requests : Becomes(c, q) /\ Relies(q, row', objects)
  BY <1>2, <1>3, <1>4, FollowTurns
<1>6. artifact' = [artifact EXCEPT ![i] = artifact[i]] /\ artifact[i] \in Archives \cup {None}
  BY DEF Post, IInv, ImportTypeOK
<1>7. Others'
  BY DEF Post, Importer, IInv, ImportTypeOK, Others
<1> QED BY <1>2, <1>3, <1>5, <1>6, <1>7, RowTurn

\* A step that leaves artifacts and objects alone and writes row s of Of(c).
LEMMA StatusTurn ==
  ASSUME IInv, NEW c \in Callers, caller[c].pc # "idle", NEW s \in Rows,
         row' = [row EXCEPT ![Of(c)] = s], UNCHANGED <<artifact, objects, staging, Importer>>,
         Fault \/ NoFault, Forward(row[Of(c)], s), Whole(s),
         (s.status = "completed") = (row[Of(c)].status = "completed"),
         row[Of(c)].status = "completed" => s.archive = row[Of(c)].archive,
         \E q \in Requests : Becomes(c, q) /\ Relies(q, row', objects)
  PROVE  Kept
<1>1. Of(c) \in Imports /\ Backed(row[Of(c)], artifact[Of(c)], objects)
  BY AtWork
<1>2. Backed(s, artifact[Of(c)], objects)
  BY <1>1 DEF Backed
<1>3. /\ artifact' = [artifact EXCEPT ![Of(c)] = artifact[Of(c)]]
      /\ artifact[Of(c)] \in Archives \cup {None}
  BY <1>1 DEF IInv, ImportTypeOK
<1>4. Others'
  BY FaultIsBounded DEF Importer, IInv, ImportTypeOK, Others
<1> QED BY <1>1, <1>2, <1>3, <1>4, RowTurn

LEMMA ToStagingKeeps == ASSUME IInv, NEW c \in Callers, ToStaging(c) PROVE Kept
<1> DEFINE i == Of(c)
<1>1. /\ caller[c].pc # "idle" /\ UNCHANGED <<artifact, objects, staging, Importer>>
      /\ NoFault
  BY DEF ToStaging, At
<1>2. i \in Imports /\ row[i] \in Rows /\ Whole(row[i]) /\ caller[c].answer \in Answers
  BY <1>1, AtWork DEF Requests
<1>3. CASE /\ row[i].status \in {"requested", "staging"}
           /\ row' = [row EXCEPT ![i].status = "staging"]
           /\ ActOn(c, caller[c].answer)
  <2> DEFINE s == [row[i] EXCEPT !.status = "staging"]
  <2>1. row' = [row EXCEPT ![i] = s]
    BY <1>3
  <2>2. s \in Rows /\ Forward(row[i], s) /\ Whole(s) /\ s.status = "staging"
    BY <1>2, <1>3 DEF Rows, Forward, Whole, Terminal, Unfinished
  <2>3. \E q \in Requests : Becomes(c, q) /\ Relies(q, row', objects)
    BY <1>1, <1>2, <1>3, ActOnTurns
  <2> HIDE DEF s
  <2> QED BY <1>1, <1>3, <2>1, <2>2, <2>3, StatusTurn
<1>4. CASE /\ UNCHANGED row /\ row[i].status = "finalizing"
           /\ Becomes(c, [caller[c] EXCEPT !.pc = "publish", !.archive = row[i].archive])
  <2>1. row[i].archive \in Archives
    BY <1>2, <1>4 DEF Whole
  <2>2. \E q \in Requests : Becomes(c, q) /\ Relies(q, row, objects)
    BY <1>1, <1>4, <2>1, CarryTurns
  <2>3. Others' /\ UNCHANGED Catalog
    BY <1>1, <1>4, FaultIsBounded DEF Importer, Catalog, IInv, ImportTypeOK, Others
  <2> QED BY <1>1, <2>2, <2>3, QuietTurn
<1>5. CASE UNCHANGED row /\ Return(c)
  <2>1. Others' /\ UNCHANGED Catalog
    BY <1>1, <1>5, FaultIsBounded DEF Importer, Catalog, IInv, ImportTypeOK, Others
  <2> QED BY <1>1, <1>5, <2>1, ReturnTurns, QuietTurn
<1> QED BY <1>3, <1>4, <1>5 DEF ToStaging

\* The request goes on to publish the archive it carries, which is in the row.
LEMMA PublishTurns ==
  ASSUME NEW c \in Callers, NEW q \in Requests, q = caller[c], q.i \in Imports,
         q.archive \in Archives, Move(c, "publish"), NEW r, r[q.i].archive = q.archive, NEW o
  PROVE  \E t \in Requests : Becomes(c, t) /\ Relies(t, r, o)
<1> DEFINE s == [q EXCEPT !.pc = "publish"]
<1>1. s \in Requests
  BY TurnedIsRequest DEF Places
<1>2. s.pc = "publish" /\ s.i = q.i /\ s.archive = q.archive
  BY DEF Requests
<1>3. Relies(s, r, o)
  BY <1>2 DEF Relies
<1> QED BY <1>1, <1>3 DEF Move

LEMMA ToFinalizingKeeps == ASSUME IInv, NEW c \in Callers, ToFinalizing(c) PROVE Kept
<1> DEFINE i == Of(c)
           a == caller[c].archive
<1>1. /\ caller[c].pc # "idle" /\ UNCHANGED <<artifact, objects, staging, Importer>>
      /\ NoFault
  BY DEF ToFinalizing, At
<1>2. i \in Imports /\ row[i] \in Rows /\ Whole(row[i])
  BY <1>1, AtWork
<1>3. a \in Archives /\ caller[c] \in Requests /\ caller[c].i = i
  BY <1>1, AtWork DEF Relies, ToFinalizing, At
<1>4. CASE /\ row[i].status = "staging"
           /\ row' = [row EXCEPT ![i].status = "finalizing", ![i].archive = a]
           /\ Move(c, "publish")
  <2> DEFINE s == [row[i] EXCEPT !.status = "finalizing", !.archive = a]
  <2>1. row' = [row EXCEPT ![i] = s]
    BY <1>2, <1>4
  <2>2. s \in Rows /\ s.status = "finalizing" /\ s.archive = a
    BY <1>2, <1>3 DEF Rows, Unfinished
  <2> HIDE DEF s
  <2>3. Forward(row[i], s) /\ Whole(s)
    BY <1>2, <1>3, <1>4, <2>2 DEF Forward, Whole, Terminal
  <2>4. row'[i] = s
    BY <1>2, <2>1 DEF IInv, ImportTypeOK
  <2>5. \E q \in Requests : Becomes(c, q) /\ Relies(q, row', objects)
    BY <1>2, <1>3, <1>4, <2>2, <2>4, PublishTurns
  <2> QED BY <1>1, <1>4, <2>1, <2>2, <2>3, <2>5, StatusTurn
<1>5. CASE /\ UNCHANGED row
           /\ (row[i].archive = a /\ Move(c, "publish")) \/ Return(c)
  <2>1. \E q \in Requests : Becomes(c, q) /\ Relies(q, row, objects)
    BY <1>2, <1>3, <1>5, PublishTurns, ReturnTurns
  <2>2. Others' /\ UNCHANGED Catalog
    BY <1>1, <1>5, FaultIsBounded DEF Importer, Catalog, IInv, ImportTypeOK, Others
  <2> QED BY <1>1, <2>1, <2>2, QuietTurn
<1> QED BY <1>4, <1>5 DEF ToFinalizing

LEMMA FailKeeps == ASSUME IInv, NEW c \in Callers, Fail(c) PROVE Kept
<1> DEFINE i == Of(c)
           s == IF row[i].status \in Unfinished
                THEN [row[i] EXCEPT !.status = "failed"] ELSE row[i]
<1>1. /\ caller[c].pc # "idle" /\ UNCHANGED <<artifact, objects, staging, Importer>>
      /\ Fault \/ NoFault
  BY DEF Fail, At
<1>2. i \in Imports /\ row[i] \in Rows /\ Whole(row[i])
  BY <1>1, AtWork
<1>3. row' = [row EXCEPT ![i] = s]
  BY <1>2 DEF Fail, IInv, ImportTypeOK
<1>4. /\ s \in Rows /\ Forward(row[i], s) /\ Whole(s) /\ s.archive = row[i].archive
      /\ (s.status = "completed") = (row[i].status = "completed")
  BY <1>2 DEF Rows, Forward, Whole, Terminal, Unfinished
<1>5. \E q \in Requests : Becomes(c, q) /\ Relies(q, row', objects)
  BY <1>1, MoveTurns DEF Fail, Places
<1> HIDE DEF s
<1> QED BY <1>1, <1>3, <1>4, <1>5, StatusTurn

LEMMA MarkKeeps == ASSUME IInv, NEW c \in Callers, Mark(c) PROVE Kept
<1> DEFINE i == Of(c)
           s == IF row[i].status \in Terminal
                THEN [row[i] EXCEPT !.cleaned = TRUE] ELSE row[i]
<1>1. /\ caller[c].pc # "idle" /\ UNCHANGED <<artifact, objects, staging, Importer>>
      /\ NoFault
  BY DEF Mark, At, NoFault
<1>2. i \in Imports /\ row[i] \in Rows /\ Whole(row[i])
  BY <1>1, AtWork
<1>3. row' = [row EXCEPT ![i] = s]
  BY <1>2 DEF Mark, IInv, ImportTypeOK
<1>4. s \in Rows /\ s.archive = row[i].archive /\ s.status = row[i].status
  BY <1>2 DEF Rows
<1> HIDE DEF s
<1>5. Forward(row[i], s) /\ Whole(s)
  BY <1>2, <1>4 DEF Forward, Whole
<1>6. \E q \in Requests : Becomes(c, q) /\ Relies(q, row', objects)
  BY ReturnTurns DEF Mark
<1> QED BY <1>1, <1>3, <1>4, <1>5, <1>6, StatusTurn

LEMMA PutKeeps == ASSUME IInv, NEW c \in Callers, Put(c) PROVE Kept
<1> DEFINE q == caller[c]
           a == q.archive
<1>1. q.pc = "put" /\ UNCHANGED Catalog
  BY DEF Put, At
<1>2. q \in Requests /\ q.i \in Imports /\ a \in Archives /\ row[q.i].archive = a
  BY <1>1, AtWork DEF Relies, Of
<1>3. objects' \subseteq Archives /\ objects \subseteq objects'
  BY <1>2 DEF Put, IInv, ImportTypeOK
<1>4. Others'
  BY FaultIsBounded DEF Put, Importer, IInv, ImportTypeOK, Others
<1>5. row' = row /\ artifact' = artifact
  BY <1>1 DEF Catalog
<1>6. \E s \in Requests : Becomes(c, s) /\ Relies(s, row', objects')
  <2>1. CASE Move(c, "reread")
    BY <1>1, <2>1, MoveTurns DEF Places
  <2>2. CASE Move(c, "register") /\ objects' = objects \cup {a}
    <3> DEFINE s == [q EXCEPT !.pc = "register"]
    <3>1. Becomes(c, s)
      BY <2>2 DEF Move
    <3> HIDE DEF q
    <3>2. s \in Requests
      BY <1>2, TurnedIsRequest DEF Places
    <3>3. s.pc = "register" /\ s.i = q.i /\ s.archive = a
      BY <1>2 DEF Requests
    <3>4. Relies(s, row', objects')
      <4> HIDE DEF s
      <4> QED BY <1>2, <1>5, <2>2, <3>3 DEF Relies
    <3> QED BY <3>1, <3>2, <3>4
  <2> QED BY <2>1, <2>2 DEF Put
<1>7. caller' \in [Callers -> Requests] /\ \A d \in Callers : Relies(caller'[d], row', objects')
  BY <1>3, <1>5, <1>6, OneTurns
<1>8. \A i \in Imports : /\ Whole(row'[i]) /\ Backed(row'[i], artifact'[i], objects')
                         /\ Forward(row[i], row'[i])
  BY <1>3, <1>5 DEF IInv, Backed, Forward
<1> QED BY <1>3, <1>4, <1>5, <1>7, <1>8 DEF IInv, ImportTypeOK, Others, Kept

LEMMA RegisterKeeps == ASSUME IInv, NEW c \in Callers, Register(c) PROVE Kept
<1> DEFINE i == Of(c)
           a == row[i].archive
           s == [row[i] EXCEPT !.status = "completed"]
<1>1. /\ caller[c].pc = "register" /\ UNCHANGED <<objects, staging, Importer>>
      /\ Fault \/ NoFault
  BY DEF Register, At
<1>2. /\ i \in Imports /\ row[i] \in Rows /\ Whole(row[i])
      /\ Backed(row[i], artifact[i], objects) /\ Relies(caller[c], row, objects)
      /\ caller[c].i = i
  BY <1>1, AtWork
<1>3. Others'
  BY <1>1, FaultIsBounded DEF Importer, IInv, ImportTypeOK, Others
<1>4. \A r : \E q \in Requests : Becomes(c, q) /\ Relies(q, r, objects)
  BY <1>1, MoveTurns, ReturnTurns DEF Register, Places
<1>5. CASE row[i].status = "finalizing"
  <2>1. a \in Archives /\ a \in objects
    BY <1>1, <1>2 DEF Relies
  <2>2. s \in Rows /\ s.status = "completed" /\ s.archive = a
    BY <1>2 DEF Rows, Terminal
  <2>3. row' = [row EXCEPT ![i] = s] /\ artifact' = [artifact EXCEPT ![i] = a]
    BY <1>5 DEF Register
  <2> HIDE DEF s
  <2>4. Forward(row[i], s) /\ Whole(s) /\ Backed(s, a, objects)
    BY <1>5, <2>1, <2>2, ImportAssumption DEF Forward, Whole, Backed, Terminal
  <2> QED BY <1>1, <1>2, <1>3, <1>4, <2>1, <2>2, <2>3, <2>4, RowTurn
<1>6. CASE row[i].status # "finalizing"
  BY <1>1, <1>3, <1>4, <1>6, QuietTurn DEF Register
<1> QED BY <1>5, <1>6

------------------------------------------------------------------------------
(* The importer.                                                               *)

LEMMA RunKeeps == ASSUME IInv, NEW i \in Imports, Run(i) PROVE Kept
<1>1. row' = row /\ artifact' = artifact /\ objects' = objects /\ caller' = caller
  BY DEF Run, Build, Upload, WriteTerminal, End, Catalog
<1>2. Answer("failed", None) \in Answers /\ \A a \in Archives : Answer("staged", a) \in Answers
  BY DEF Answers
<1>3. thread[i].result \in Answers /\ thread[i].result.archive \in Archives \cup {None}
  BY DEF IInv, ImportTypeOK, Threads, Answers, Absent, Answer
<1>4. NoThread \in Threads
  BY DEF NoThread, Threads, Answers
<1>5. Others'
  <2>1. ASSUME NEW a \in Archives, Build(i, a)
        PROVE  Others'
    <3>1. PICK w \in Threads :
            thread' = [thread EXCEPT ![i] = w]
      BY <1>2, <2>1 DEF Build, Threads
    <3>2. UNCHANGED <<staging, mem, disk, faults>>
      BY <2>1 DEF Build
    <3> QED BY <3>1, <3>2 DEF IInv, ImportTypeOK, Others
  <2>2. CASE Upload(i)
    <3>1. staging' \in [Imports -> Archives \cup {None}]
      BY <1>3, <2>2 DEF Upload, IInv, ImportTypeOK
    <3>2. thread' \in [Imports -> Threads]
      BY <1>2, <2>2 DEF Upload, IInv, ImportTypeOK, Threads
    <3>3. UNCHANGED <<mem, disk>> /\ faults' \in 0 .. MaxFaults
      BY <2>2, FaultIsBounded DEF Upload
    <3> QED BY <3>1, <3>2, <3>3 DEF IInv, ImportTypeOK, Others
  <2>3. CASE End(i)
    BY <1>3, <1>4, <2>3 DEF End, IInv, ImportTypeOK, Others
  <2>4. CASE WriteTerminal(i)
    <3>1. thread' \in [Imports -> Threads]
      BY <2>4 DEF WriteTerminal, IInv, ImportTypeOK, Threads
    <3>2. disk' \in [Imports -> Answers] /\ faults' \in 0 .. MaxFaults
      BY <1>3, <2>4, FaultIsBounded DEF WriteTerminal, IInv, ImportTypeOK
    <3>3. UNCHANGED <<staging, mem>>
      BY <2>4 DEF WriteTerminal
    <3> QED BY <3>1, <3>2, <3>3 DEF IInv, ImportTypeOK, Others
  <2> QED BY <2>1, <2>2, <2>3, <2>4 DEF Run
<1>6. \A k \in Imports : Forward(row[k], row'[k])
  BY <1>1 DEF Forward
<1> QED BY <1>1, <1>5, <1>6 DEF IInv, ImportTypeOK, Others, Kept

LEMMA RestartKeeps == ASSUME IInv, Restart PROVE Kept
<1>1. row' = row /\ artifact' = artifact /\ objects' = objects
  BY DEF Restart, Catalog
<1>2. NoThread \in Threads
      /\ Absent \in Answers
  BY DEF NoThread, Threads, Answers
<1>3. Others'
  BY <1>2, FaultIsBounded DEF Restart, IInv, ImportTypeOK, Others
<1>4. ASSUME NEW c \in Callers
      PROVE  caller'[c] \in Requests /\ Relies(caller'[c], row, objects)
  <2>1. caller[c] \in Requests /\ Relies(caller[c], row, objects)
    BY DEF IInv, ImportTypeOK
  <2>2. Idle \in Requests /\ Relies(Idle, row, objects)
    BY DEF Idle, Requests, Relies, Absent, Answer, Answers
  <2>3. CASE caller[c].pc \in {"askDisk", "interrupt", "remember"} /\ caller[c].again
    <3> DEFINE q == caller[c]
               s == [q EXCEPT !.pc = "undo"]
    <3>1. caller'[c] = s
      BY <2>3 DEF Restart
    <3>2. q.i \in Imports
      BY <2>1, <2>3 DEF Relies
    <3> HIDE DEF q
    <3>3. s \in Requests
      BY <2>1, TurnedIsRequest DEF Places, q
    <3>4. s.pc = "undo" /\ s.i = q.i
      BY <2>1 DEF Requests, q
    <3>5. Relies(s, row, objects)
      <4> HIDE DEF s
      <4> QED BY <3>2, <3>4 DEF Relies
    <3> QED BY <3>1, <3>3, <3>5
  <2>4. CASE caller'[c] \in {caller[c], Idle}
    BY <2>1, <2>2, <2>4
  <2> QED BY <2>3, <2>4 DEF Restart
<1>5. caller' \in [Callers -> Requests]
  BY <1>4 DEF Restart
<1>6. \A k \in Imports : Forward(row[k], row'[k])
  BY <1>1 DEF Forward
<1> QED BY <1>1, <1>3, <1>4, <1>5, <1>6 DEF IInv, ImportTypeOK, Others, Kept

------------------------------------------------------------------------------
(* The theorems.                                                               *)

LEMMA InitHolds == Init => IInv
<1> SUFFICES ASSUME Init PROVE IInv
  OBVIOUS
<1>1. /\ Idle \in Requests /\ \A r, o : Relies(Idle, r, o)
      /\ Absent \in Answers /\ Absent.status = "absent"
      /\ NoThread \in Threads
  BY DEF Idle, Requests, Relies, Absent, Answer, Answers, NoThread, Threads
<1>2. ImportTypeOK
  BY <1>1, ImportAssumption DEF Init, ImportTypeOK, Rows
<1>3. \A i \in Imports : Whole(row[i]) /\ Backed(row[i], artifact[i], objects)
  BY DEF Init, Whole, Backed
<1>4. \A c \in Callers : Relies(caller[c], row, objects)
  BY <1>1 DEF Init
<1> QED BY <1>2, <1>3, <1>4 DEF IInv

LEMMA NextKeeps == IInv /\ [Next]_vars => Kept
<1> SUFFICES ASSUME IInv, [Next]_vars PROVE Kept
  OBVIOUS
<1>1. ASSUME NEW c \in Callers, NEW i \in Imports, Post(c, i) \/ Get(c, i) PROVE Kept
  BY <1>1, PostKeeps, GetKeeps
<1>2. ASSUME NEW c \in Callers, Advance(c) PROVE Kept
  BY <1>2, QuestionKeeps, ToldKeeps, StartKeeps, StagingKeeps, ToStagingKeeps,
     ToFinalizingKeeps, FailKeeps, PutKeeps, RegisterKeeps, MarkKeeps DEF Advance
<1>3. ASSUME NEW c \in Callers, AskLost(c) \/ CallerDies(c) PROVE Kept
  BY <1>3, AskLostKeeps
<1>4. CASE UNCHANGED vars
  <2>1. \A i \in Imports : Forward(row[i], row'[i])
    BY <1>4 DEF vars, Forward
  <2> QED BY <1>4, <2>1 DEF vars, IInv, ImportTypeOK, Kept
<1> QED BY <1>1, <1>2, <1>3, <1>4, RunKeeps, RestartKeeps DEF Next

\* IInv is inductive: an archive that is in its row stays there, so that what a
\* request verified and published is what the row registers.
THEOREM Inductive == Spec => []IInv
<1>1. IInv /\ [Next]_vars => IInv'
  BY NextKeeps DEF Kept
<1> QED BY InitHolds, <1>1, PTL DEF Spec

\* finalizeModelArtifactImport never registers an artifact whose immutable object
\* is missing, or another archive than the one of the import's row, whichever
\* requests, restarts and lost answers come in between.
THEOREM AlwaysReadable == Spec => []ArtifactIsReadable
<1>1. IInv => ArtifactIsReadable
  BY DEF IInv, ArtifactIsReadable, Backed
<1> QED BY Inductive, <1>1, PTL

\* transitionModelArtifactImport and its callers never move an import back, end
\* it twice or replace its archive.
THEOREM Final == Spec => ImportIsFinal
<1>1. IInv /\ [Next]_vars =>
        [\A i \in Imports :
           /\ row[i].status \in Terminal => row'[i].status = row[i].status
           /\ row[i].archive # None => row'[i].archive = row[i].archive
           /\ row[i].status \in {"staging", "finalizing"} =>
                row'[i].status \notin {"none", "requested"}
           /\ row[i].status = "finalizing" => row'[i].status # "staging"]_vars
  BY NextKeeps DEF Kept, Forward
<1> QED BY Inductive, <1>1, PTL DEF Spec, ImportIsFinal
===========================================================================
