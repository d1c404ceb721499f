------------------------- MODULE StudioSession_proofs ------------------------
(* For any number of requests, digests, exports and faults: a row that says    *)
(* ready, closing or closed names a whole session directory, one request acts  *)
(* for a preparation, and no live session is left to a row that gave it up.    *)
EXTENDS StudioSession, TLAPS

Places == {"idle", "admit", "look", "claim", "current", "renew", "call",
           "recheck", "mismatch", "fail", "abandon", "ready", "toClosing",
           "close", "reopen", "converge"}
Work == {"renew", "call", "recheck", "current", "mismatch", "fail", "abandon", "ready"}
Statuses == {"none", "failed", "closed"} \cup Active

\* Row r is backed by the session directory x.
Whole(r, x) ==
  /\ r.status \in {"ready", "closing", "closed"} =>
       x.manifest \in {"ready", "closed"} /\ x.export = r.export
  /\ r.status = "closed" => x.manifest = "closed"

\* How far the create request k of d has come, and the directory x.
Served(k, x, d, l, u) ==
  /\ k.state = "serving" => x.manifest = "partial"
  /\ k.state \in {"renamed", "ok"} => x.manifest \in {"ready", "closed"}
  /\ k.state \in {"serving", "renamed"} => l = d /\ u

\* What the request q of caller c relies on.
Relies(q, c, dirs) ==
  /\ q.pc \notin {"idle", "admit"} => q.r \in Digests
  /\ q.pc \in {"admit", "look"} \/ q.then = "admit" => q.d \in Digests
  /\ q.pc \in Work => q.token = c
  /\ q.pc = "ready" => /\ dirs[q.r].manifest \in {"ready", "closed"}
                       /\ dirs[q.r].export = q.export
  /\ q.pc = "converge" => dirs[q.r].manifest = "closed"

IInv ==
  /\ SessionTypeOK
  /\ \A d \in Digests : /\ Whole(row[d], dir[d])
                        /\ Served(creation[d], dir[d], d, lock, up)
  /\ \A c \in Callers : Relies(caller[c], c, dir)

\* A whole directory stays whole, and a closed one closed.
Grows(dirs, later) ==
  \A d \in Digests :
    /\ dirs[d].manifest \in {"ready", "closed"} =>
         later[d].manifest \in {"ready", "closed"} /\ later[d].export = dirs[d].export
    /\ dirs[d].manifest = "closed" => later[d].manifest = "closed"

------------------------------------------------------------------------------
(* Requests as records.                                                        *)

LEMMA UpdatedIsRequest ==
  ASSUME NEW q \in Requests
  PROVE  /\ \A p \in Places : [q EXCEPT !.pc = p] \in Requests
         /\ \A t \in {"answer", "admit"} : [q EXCEPT !.then = t] \in Requests
         /\ \A d \in Digests \cup {None} : [q EXCEPT !.d = d] \in Requests
         /\ \A d \in Digests \cup {None} : [q EXCEPT !.r = d] \in Requests
         /\ \A c \in Callers \cup {None} : [q EXCEPT !.token = c] \in Requests
         /\ \A e \in Exports \cup {None} : [q EXCEPT !.export = e] \in Requests
         /\ \A n \in 0 .. 4 : [q EXCEPT !.tries = n] \in Requests
         /\ \A s \in Statuses : [q EXCEPT !.seen = s] \in Requests
<1>1. \A p \in Places : [q EXCEPT !.pc = p] \in Requests
  BY DEF Requests, Places
<1>2. /\ \A t \in {"answer", "admit"} : [q EXCEPT !.then = t] \in Requests
      /\ \A d \in Digests \cup {None} : [q EXCEPT !.d = d] \in Requests
      /\ \A d \in Digests \cup {None} : [q EXCEPT !.r = d] \in Requests
      /\ \A c \in Callers \cup {None} : [q EXCEPT !.token = c] \in Requests
  BY DEF Requests
<1>3. /\ \A e \in Exports \cup {None} : [q EXCEPT !.export = e] \in Requests
      /\ \A n \in 0 .. 4 : [q EXCEPT !.tries = n] \in Requests
  BY DEF Requests
<1>4. \A s \in Statuses : [q EXCEPT !.seen = s] \in Requests
  BY DEF Requests, Statuses
<1> QED BY <1>1, <1>2, <1>3, <1>4

LEMMA IdleIsRequest == Idle \in Requests
BY DEF Idle, Requests

------------------------------------------------------------------------------
(* One request goes on.                                                        *)

LEMMA OneTurns ==
  ASSUME IInv, NEW c \in Callers, NEW q \in Requests, Becomes(c, q),
         Relies(q, c, dir'), Grows(dir, dir')
  PROVE  /\ caller' \in [Callers -> Requests]
         /\ \A b \in Callers : Relies(caller'[b], b, dir')
<1>1. caller' \in [Callers -> Requests]
  BY DEF Becomes, IInv, SessionTypeOK
<1>2. ASSUME NEW b \in Callers, b # c
      PROVE  Relies(caller'[b], b, dir')
  <2>1. caller'[b] = caller[b] /\ Relies(caller[b], b, dir)
    BY <1>2 DEF Becomes, IInv, SessionTypeOK
  <2> QED BY <2>1 DEF Relies, Grows
<1>3. caller'[c] = q
  BY DEF Becomes, IInv, SessionTypeOK
<1> QED BY <1>1, <1>2, <1>3

\* What a step may do to the provider without touching a directory.
Bystanders ==
  /\ current \in {None} \cup [d : Digests, partial : BOOLEAN]
  /\ late \subseteq Digests
  /\ faults \in 0 .. MaxFaults

LEMMA QuietTurn ==
  ASSUME IInv, UNCHANGED <<row, creation, dir, lock, up>>, Bystanders', NEW c \in Callers,
         \E q \in Requests : Becomes(c, q) /\ Relies(q, c, dir)
  PROVE  IInv'
<1>1. Grows(dir, dir')
  BY DEF Grows
<1>2. caller' \in [Callers -> Requests] /\ \A b \in Callers : Relies(caller'[b], b, dir')
  BY <1>1, OneTurns
<1> QED BY <1>2 DEF IInv, SessionTypeOK, Bystanders

LEMMA RowTurn ==
  ASSUME IInv, NEW d \in Digests, NEW s \in Rows, row' = [row EXCEPT ![d] = s],
         Whole(s, dir[d]), UNCHANGED <<creation, dir, lock, up>>, Bystanders',
         NEW c \in Callers, \E q \in Requests : Becomes(c, q) /\ Relies(q, c, dir)
  PROVE  IInv'
<1>1. Grows(dir, dir')
  BY DEF Grows
<1>2. caller' \in [Callers -> Requests] /\ \A b \in Callers : Relies(caller'[b], b, dir')
  BY <1>1, OneTurns
<1>3. row' \in [Digests -> Rows] /\ \A x \in Digests : Whole(row'[x], dir'[x])
  BY DEF IInv, SessionTypeOK
<1> QED BY <1>2, <1>3 DEF IInv, SessionTypeOK, Bystanders

LEMMA FaultIsBounded == ASSUME IInv, Fault \/ NoFault PROVE faults' \in 0 .. MaxFaults
BY SessionAssumption DEF IInv, SessionTypeOK, Fault, NoFault

LEMMA AtWork ==
  ASSUME IInv, NEW c \in Callers
  PROVE  /\ caller[c] \in Requests /\ Relies(caller[c], c, dir)
         /\ caller[c].pc \notin {"idle", "admit"} =>
              /\ caller[c].r \in Digests /\ row[caller[c].r] \in Rows
              /\ Whole(row[caller[c].r], dir[caller[c].r])
BY DEF IInv, SessionTypeOK, Relies

\* Places that rely on no directory.
LEMMA MoveTurns ==
  ASSUME IInv, NEW c \in Callers, caller[c].pc \notin {"idle", "admit"},
         NEW p \in Places \ {"idle", "admit", "ready", "converge"},
         p \in Work => caller[c].token = c, p = "look" => caller[c].d \in Digests,
         Move(c, p)
  PROVE  \E q \in Requests : Becomes(c, q) /\ Relies(q, c, dir)
<1> DEFINE q == caller[c]
           s == [q EXCEPT !.pc = p]
<1>1. q \in Requests /\ Relies(q, c, dir) /\ q.r \in Digests
  BY AtWork
<1>2. Becomes(c, s)
  BY DEF Move
<1> HIDE DEF q
<1>3. s \in Requests
  BY <1>1, UpdatedIsRequest
<1>4. s.pc = p /\ s.r = q.r /\ s.d = q.d /\ s.then = q.then /\ s.token = q.token
  BY <1>1 DEF Requests
<1> HIDE DEF s
<1>5. Relies(s, c, dir)
  BY <1>1, <1>4 DEF Relies, q
<1> QED BY <1>2, <1>3, <1>5

LEMMA ReturnTurns ==
  ASSUME NEW c \in Callers, Return(c), NEW x
  PROVE  \E q \in Requests : Becomes(c, q) /\ Relies(q, c, x)
BY IdleIsRequest DEF Return, Relies, Idle, Work

LEMMA ReconciledTurns ==
  ASSUME IInv, NEW c \in Callers, caller[c].pc \notin {"idle", "admit"}, NEW rows,
         Reconciled(c, rows)
  PROVE  \E q \in Requests : Becomes(c, q) /\ Relies(q, c, dir)
<1>1. CASE Return(c)
  BY <1>1, ReturnTurns
<1>2. CASE /\ caller[c].then = "admit"
           /\ Becomes(c, [caller[c] EXCEPT !.pc = "admit", !.then = "answer",
                                           !.r = None, !.token = None])
  <2> DEFINE q == caller[c]
             s == [q EXCEPT !.pc = "admit", !.then = "answer", !.r = None, !.token = None]
  <2>1. q \in Requests /\ q.d \in Digests
    BY <1>2, AtWork DEF Relies
  <2> HIDE DEF q
  <2>2. s \in Requests
    BY <2>1, UpdatedIsRequest DEF Places
  <2>3. s.pc = "admit" /\ s.d = q.d
    BY <2>1 DEF Requests
  <2>4. Becomes(c, s)
    BY <1>2 DEF q
  <2> HIDE DEF s
  <2>5. Relies(s, c, dir)
    BY <2>1, <2>3 DEF Relies, Work
  <2> QED BY <2>2, <2>4, <2>5
<1> QED BY <1>1, <1>2 DEF Reconciled

\* Requests that begin or go on with other fields than their place.
LEMMA BeginTurns ==
  ASSUME IInv, NEW c \in Callers, NEW d \in Digests
  PROVE  /\ Becomes(c, [Idle EXCEPT !.pc = "admit", !.d = d])
              => \E q \in Requests : Becomes(c, q) /\ Relies(q, c, dir)
         /\ \A t \in Callers \cup {None} :
              Becomes(c, [Idle EXCEPT !.pc = "claim", !.r = d, !.token = t])
                => \E q \in Requests : Becomes(c, q) /\ Relies(q, c, dir)
         /\ \A p \in {"toClosing", "close"} :
              Becomes(c, [Idle EXCEPT !.r = d, !.pc = p])
                => \E q \in Requests : Becomes(c, q) /\ Relies(q, c, dir)
<1>1. Idle \in Requests /\ Idle.then = "answer"
  BY IdleIsRequest DEF Idle
<1>2. \A q \in Requests : q.then = "answer" /\ q.pc = "admit" /\ q.d = d => Relies(q, c, dir)
  BY DEF Relies, Work
<1>3. \A q \in Requests : /\ q.then = "answer" /\ q.pc \in {"claim", "toClosing", "close"} /\ q.r = d
                          => Relies(q, c, dir)
  BY DEF Relies, Work
<1> HIDE DEF Idle
<1>4. [Idle EXCEPT !.pc = "admit", !.d = d] \in Requests
  BY <1>1, UpdatedIsRequest DEF Places
<1>5. /\ [Idle EXCEPT !.pc = "admit", !.d = d].then = "answer"
      /\ [Idle EXCEPT !.pc = "admit", !.d = d].pc = "admit"
      /\ [Idle EXCEPT !.pc = "admit", !.d = d].d = d
  BY <1>1 DEF Requests
<1>6. ASSUME NEW t \in Callers \cup {None}
      PROVE  /\ [Idle EXCEPT !.pc = "claim", !.r = d, !.token = t] \in Requests
             /\ Relies([Idle EXCEPT !.pc = "claim", !.r = d, !.token = t], c, dir)
  <2> DEFINE s == [Idle EXCEPT !.pc = "claim", !.r = d, !.token = t]
  <2>1. s \in Requests
    BY <1>1, UpdatedIsRequest DEF Places
  <2>2. s.then = "answer" /\ s.pc = "claim" /\ s.r = d
    BY <1>1 DEF Requests
  <2> QED BY <1>3, <2>1, <2>2
<1>7. ASSUME NEW p \in {"toClosing", "close"}
      PROVE  /\ [Idle EXCEPT !.r = d, !.pc = p] \in Requests
             /\ Relies([Idle EXCEPT !.r = d, !.pc = p], c, dir)
  <2> DEFINE s == [Idle EXCEPT !.r = d, !.pc = p]
  <2>1. s \in Requests
    BY <1>1, UpdatedIsRequest DEF Places
  <2>2. s.then = "answer" /\ s.pc = p /\ s.r = d
    BY <1>1 DEF Requests
  <2> QED BY <1>3, <2>1, <2>2
<1> QED BY <1>2, <1>4, <1>5, <1>6, <1>7

LEMMA BeginKeeps ==
  ASSUME IInv, NEW c \in Callers, NEW d \in Digests,
         BeginCreate(c, d) \/ BeginGet(c, d) \/ BeginClose(c, d)
  PROVE  IInv'
<1>1. UNCHANGED <<row, creation, dir, lock, up>> /\ Bystanders'
  BY DEF BeginCreate, BeginGet, BeginClose, Provider, IInv, SessionTypeOK, Bystanders
<1>2. row[d].token \in Callers \cup {None}
  BY DEF IInv, SessionTypeOK, Rows
<1>3. \E q \in Requests : Becomes(c, q) /\ Relies(q, c, dir)
  BY <1>2, BeginTurns DEF BeginCreate, BeginGet, BeginClose
<1> QED BY <1>1, <1>3, QuietTurn

LEMMA DirectedIsRequest ==
  ASSUME NEW q \in Requests, NEW p \in Places, NEW x \in Digests, NEW n \in 0 .. 4
  PROVE  /\ [q EXCEPT !.pc = p, !.r = x, !.tries = n] \in Requests
         /\ \A t \in Callers \cup {None} :
              [q EXCEPT !.pc = p, !.r = x, !.token = t, !.tries = n] \in Requests
<1>1. [q EXCEPT !.pc = p] \in Requests
  BY UpdatedIsRequest
<1>2. [q EXCEPT !.pc = p, !.r = x] \in Requests
  BY <1>1, UpdatedIsRequest
<1>3. [q EXCEPT !.pc = p, !.r = x, !.tries = n] \in Requests
  BY <1>2, UpdatedIsRequest
<1>4. ASSUME NEW t \in Callers \cup {None}
      PROVE  [q EXCEPT !.pc = p, !.r = x, !.token = t, !.tries = n] \in Requests
  <2>1. [q EXCEPT !.pc = p, !.r = x, !.token = t] \in Requests
    BY <1>2, UpdatedIsRequest
  <2> QED BY <2>1, UpdatedIsRequest
<1> QED BY <1>3, <1>4

LEMMA AdmitKeeps == ASSUME IInv, NEW c \in Callers, Admit(c) PROVE IInv'
<1> DEFINE q == caller[c]
           d == q.d
           r == [NoRow EXCEPT !.status = "preparing", !.token = c]
           s1 == [q EXCEPT !.pc = "renew", !.r = d, !.token = c, !.tries = 0]
           s2 == [q EXCEPT !.pc = "claim", !.r = d, !.token = row[d].token, !.tries = 0]
           s3(x, n) == [q EXCEPT !.pc = "look", !.r = x, !.tries = n]
<1>1. /\ q \in Requests /\ d \in Digests /\ q.pc = "admit"
      /\ UNCHANGED <<creation, dir, lock, up>> /\ Bystanders'
  BY AtWork DEF Admit, At, Relies, Provider, NoFault, IInv, SessionTypeOK, Bystanders
<1>2. row[d].token \in Callers \cup {None}
  BY <1>1 DEF IInv, SessionTypeOK, Rows
<1>3. \/ row' = [row EXCEPT ![d] = r] /\ Becomes(c, s1)
      \/ UNCHANGED row /\ Becomes(c, s2)
      \/ UNCHANGED row /\ Return(c)
      \/ UNCHANGED row /\ \E x \in Digests : Becomes(c, s3(x, 1))
  <2>1. \A n : q.tries + 1 = 1 => [q EXCEPT !.pc = "look", !.r = n, !.tries = q.tries + 1] = s3(n, 1)
    OBVIOUS
  <2> HIDE DEF s3
  <2> QED BY <2>1 DEF Admit
<1> HIDE DEF q
<1>4. /\ s1 \in Requests /\ s2 \in Requests
      /\ \A x \in Digests : s3(x, 1) \in Requests
  <2>1. {"renew", "claim", "look"} \subseteq Places /\ 0 \in 0 .. 4 /\ 1 \in 0 .. 4
    BY DEF Places
  <2> QED BY <1>1, <1>2, <2>1, DirectedIsRequest
<1>5. /\ s1.pc = "renew" /\ s1.r = d /\ s1.token = c /\ s1.d = d
      /\ s2.pc = "claim" /\ s2.r = d /\ s2.d = d
      /\ \A x \in Digests : s3(x, 1).pc = "look" /\ s3(x, 1).r = x /\ s3(x, 1).d = d
  BY <1>1 DEF Requests
<1> HIDE DEF s1, s2, s3
<1>6. /\ Relies(s1, c, dir) /\ Relies(s2, c, dir)
      /\ \A x \in Digests : Relies(s3(x, 1), c, dir)
  BY <1>1, <1>5 DEF Relies, Work
<1>7. r \in Rows /\ Whole(r, dir[d])
  BY DEF NoRow, Rows, Whole, Active
<1> HIDE DEF r
<1>8. CASE row' = [row EXCEPT ![d] = r] /\ Becomes(c, s1)
  BY <1>1, <1>4, <1>6, <1>7, <1>8, RowTurn
<1>9. CASE UNCHANGED row /\ Becomes(c, s2)
  BY <1>1, <1>4, <1>6, <1>9, QuietTurn
<1>10. CASE UNCHANGED row /\ Return(c)
  <2>1. \E t \in Requests : Becomes(c, t) /\ Relies(t, c, dir)
    BY <1>10, ReturnTurns
  <2> QED BY <1>1, <1>10, <2>1, QuietTurn
<1>11. CASE UNCHANGED row /\ \E x \in Digests : Becomes(c, s3(x, 1))
  BY <1>1, <1>4, <1>6, <1>11, QuietTurn
<1> QED BY <1>3, <1>8, <1>9, <1>10, <1>11

LEMMA LookKeeps == ASSUME IInv, NEW c \in Callers, Look(c) PROVE IInv'
<1> DEFINE q == caller[c]
           t == row[q.r].token
           s == [q EXCEPT !.pc = "claim", !.then = "admit", !.token = t]
<1>1. q \in Requests /\ q.r \in Digests /\ q.d \in Digests /\ row[q.r] \in Rows
  BY AtWork DEF Look, At, Relies
<1>2. UNCHANGED <<row, creation, dir, lock, up>> /\ Bystanders' /\ Becomes(c, s)
  BY DEF Look, Provider, IInv, SessionTypeOK, Bystanders
<1>3. t \in Callers \cup {None}
  BY <1>1 DEF Rows
<1> HIDE DEF q, t
<1>4. s \in Requests
  BY <1>1, <1>3, UpdatedIsRequest DEF Places
<1>5. s.pc = "claim" /\ s.then = "admit" /\ s.r = q.r /\ s.d = q.d
  BY <1>1 DEF Requests
<1> HIDE DEF s
<1>6. Relies(s, c, dir)
  BY <1>1, <1>5 DEF Relies, Work
<1> QED BY <1>2, <1>4, <1>6, QuietTurn

LEMMA RenewKeeps == ASSUME IInv, NEW c \in Callers, NEW e \in Exports, Renew(c, e) PROVE IInv'
<1> DEFINE q == caller[c]
           d == q.r
           s == [q EXCEPT !.pc = "call", !.export = e]
<1>1. /\ q \in Requests /\ d \in Digests /\ row[d] \in Rows /\ Whole(row[d], dir[d])
      /\ Relies(q, c, dir) /\ q.pc = "renew"
  BY AtWork DEF Renew, At
<1>2. UNCHANGED <<dir, lock, up>> /\ Bystanders'
  BY DEF Renew, NoFault, IInv, SessionTypeOK, Bystanders
<1>3. CASE UNCHANGED <<row, creation>> /\ Return(c)
  <2>1. \E t \in Requests : Becomes(c, t) /\ Relies(t, c, dir)
    BY <1>3, ReturnTurns
  <2> QED BY <1>2, <1>3, <2>1, QuietTurn
<1>4. CASE /\ row' = [row EXCEPT ![d].abandoned = FALSE, ![d].due = FALSE]
           /\ creation' = [creation EXCEPT ![d] = [state |-> "sent", expected |-> e]]
           /\ Becomes(c, s)
  <2>1. s \in Requests /\ Relies(s, c, dir)
    <3> HIDE DEF q
    <3>1. s \in Requests
      BY <1>1, UpdatedIsRequest DEF Places
    <3>2. s.pc = "call" /\ s.r = q.r /\ s.d = q.d /\ s.then = q.then /\ s.token = q.token
      BY <1>1 DEF Requests
    <3> HIDE DEF s
    <3> QED BY <1>1, <3>1, <3>2 DEF Relies, Work
  <2> HIDE DEF s
  <2>2. caller' \in [Callers -> Requests] /\ \A b \in Callers : Relies(caller'[b], b, dir')
    BY <1>2, <1>4, <2>1, OneTurns DEF Grows
  <2>3. /\ row'[d].status = row[d].status /\ row'[d].export = row[d].export
        /\ row'[d] \in Rows
    <3>1. row'[d] = [row[d] EXCEPT !.abandoned = FALSE, !.due = FALSE]
      BY <1>1, <1>4 DEF IInv, SessionTypeOK
    <3> QED BY <1>1, <3>1 DEF Rows
  <2>4. \A x \in Digests : x # d => row'[x] = row[x]
    BY <1>4 DEF IInv, SessionTypeOK
  <2>5. row' \in [Digests -> Rows]
    BY <1>4, <2>3, <2>4 DEF IInv, SessionTypeOK
  <2>6. \A x \in Digests : Whole(row'[x], dir'[x])
    BY <1>2, <2>3, <2>4 DEF IInv, Whole
  <2>7. creation' \in [Digests -> Creations]
    BY <1>1, <1>4 DEF IInv, SessionTypeOK, Creations
  <2>8. \A x \in Digests : Served(creation'[x], dir'[x], x, lock', up')
    BY <1>1, <1>2, <1>4 DEF IInv, SessionTypeOK, Served
  <2> QED BY <1>2, <2>2, <2>5, <2>6, <2>7, <2>8 DEF IInv, SessionTypeOK, Bystanders
<1> QED BY <1>3, <1>4 DEF Renew
------------------------------------------------------------------------------
(* Preparation.                                                                *)

\* A request at p may go on to ready when the directory is whole.
LEMMA ReadyTurns ==
  ASSUME IInv, NEW c \in Callers, caller[c].pc \in Work, NEW e \in Exports \cup {None},
         NEW d, d = caller[c].r, dir[d].manifest \in {"ready", "closed"}, dir[d].export = e,
         Becomes(c, [caller[c] EXCEPT !.pc = "ready", !.export = e])
  PROVE  \E q \in Requests : Becomes(c, q) /\ Relies(q, c, dir)
<1> DEFINE q == caller[c]
           s == [q EXCEPT !.pc = "ready", !.export = e]
<1>1. q \in Requests /\ Relies(q, c, dir) /\ q.r \in Digests
  BY AtWork DEF Work
<1>2. Becomes(c, s) /\ d = q.r /\ q.pc \in Work
  OBVIOUS
<1> HIDE DEF q
<1>3. s \in Requests
  BY <1>1, UpdatedIsRequest DEF Places
<1>4. s.pc = "ready" /\ s.r = q.r /\ s.d = q.d /\ s.then = q.then /\ s.token = q.token /\ s.export = e
  BY <1>1 DEF Requests
<1> HIDE DEF s
<1>5. Relies(s, c, dir)
  BY <1>1, <1>2, <1>4 DEF Relies, Work
<1> QED BY <1>2, <1>3, <1>5

\* Of the places of work, those one goes to without looking at a directory.
LEMMA WorkTurns ==
  ASSUME IInv, NEW c \in Callers, caller[c].pc \in Work, NEW p \in Work \ {"ready"}, Move(c, p)
  PROVE  \E q \in Requests : Becomes(c, q) /\ Relies(q, c, dir)
<1>1. caller[c].token = c /\ caller[c].pc \notin {"idle", "admit"}
  BY AtWork DEF Work, Relies
<1>2. p \in Places \ {"idle", "admit", "ready", "converge"} /\ p # "look"
  BY DEF Places, Work
<1> QED BY <1>1, <1>2, MoveTurns

LEMMA CompareTurns ==
  ASSUME IInv, NEW c \in Callers, caller[c].pc \in Work, NEW d, d = caller[c].r,
         dir[d].manifest \in {"ready", "closed"}, Compare(c, d)
  PROVE  \E q \in Requests : Becomes(c, q) /\ Relies(q, c, dir)
<1>1. CASE dir[d].export = caller[c].export
  <2>1. caller[c] \in Requests
    BY AtWork
  <2>2. caller[c].export \in Exports \cup {None}
    BY <2>1 DEF Requests
  <2>3. [caller[c] EXCEPT !.pc = "ready"] = [caller[c] EXCEPT !.pc = "ready", !.export = caller[c].export]
    <3> DEFINE q == caller[c]
    <3>1. q \in Requests
      BY <2>1
    <3> HIDE DEF q
    <3>2. [q EXCEPT !.pc = "ready"] = [q EXCEPT !.pc = "ready", !.export = q.export]
      BY <3>1 DEF Requests
    <3> QED BY <3>2 DEF q
  <2>4. Becomes(c, [caller[c] EXCEPT !.pc = "ready", !.export = caller[c].export])
    BY <1>1, <2>3 DEF Compare, Move
  <2> QED BY <1>1, <2>2, <2>4, ReadyTurns
<1>2. CASE dir[d].export # caller[c].export
  <2>1. Move(c, "mismatch") /\ "mismatch" \in Work \ {"ready"}
    BY <1>2 DEF Compare, Work
  <2> QED BY <2>1, WorkTurns
<1> QED BY <1>1, <1>2

LEMMA CallEnds ==
  ASSUME IInv, NEW c \in Callers, AbortBeforeCall(c) \/ CallAnswered(c) \/ CallFailed(c)
  PROVE  IInv'
<1>1. UNCHANGED <<row, creation, dir, lock, up>> /\ Bystanders'
  BY FaultIsBounded
     DEF AbortBeforeCall, CallAnswered, CallFailed, Provider, IInv, SessionTypeOK, Bystanders
<1>2. caller[c].pc \in Work /\ "fail" \in Work \ {"ready"} /\ "recheck" \in Work \ {"ready"}
  BY DEF AbortBeforeCall, CallAnswered, CallFailed, At, Work
<1>3. CASE Move(c, "fail") \/ Move(c, "recheck")
  <2>1. \E q \in Requests : Becomes(c, q) /\ Relies(q, c, dir)
    BY <1>2, <1>3, WorkTurns
  <2> QED BY <1>1, <2>1, QuietTurn
<1>4. CASE CallAnswered(c)
  <2>1. caller[c].r \in Digests
    BY <1>2, AtWork DEF Work
  <2>2. dir[caller[c].r].manifest \in {"ready", "closed"}
    BY <1>4, <2>1 DEF CallAnswered, IInv, Served
  <2>3. \E q \in Requests : Becomes(c, q) /\ Relies(q, c, dir)
    BY <1>2, <1>4, <2>2, CompareTurns DEF CallAnswered
  <2> QED BY <1>1, <2>3, QuietTurn
<1> QED BY <1>3, <1>4 DEF AbortBeforeCall, CallFailed

LEMMA ClaimKeeps == ASSUME IInv, NEW c \in Callers, Claim(c) PROVE IInv'
<1> DEFINE q == caller[c]
           d == q.r
           r == [row[d] EXCEPT !.token = c, !.abandoned = FALSE, !.due = FALSE]
           s == [q EXCEPT !.pc = "current", !.token = c]
<1>1. /\ q \in Requests /\ d \in Digests /\ row[d] \in Rows /\ Whole(row[d], dir[d])
      /\ Relies(q, c, dir) /\ q.pc = "claim"
      /\ UNCHANGED <<creation, dir, lock, up>> /\ Bystanders'
  BY AtWork DEF Claim, At, Provider, NoFault, IInv, SessionTypeOK, Bystanders
<1>2. CASE UNCHANGED row /\ Reconciled(c, row)
  <2>1. \E t \in Requests : Becomes(c, t) /\ Relies(t, c, dir)
    BY <1>1, <1>2, ReconciledTurns
  <2> QED BY <1>1, <1>2, <2>1, QuietTurn
<1>3. CASE /\ row' = [row EXCEPT ![d].token = c, ![d].abandoned = FALSE, ![d].due = FALSE]
           /\ Becomes(c, s)
  <2>1. row' = [row EXCEPT ![d] = r]
    BY <1>1, <1>3 DEF IInv, SessionTypeOK
  <2>2. r \in Rows /\ Whole(r, dir[d])
    BY <1>1 DEF Rows, Whole
  <2> HIDE DEF q, r
  <2>3. s \in Requests
    BY <1>1, UpdatedIsRequest DEF Places
  <2>4. s.pc = "current" /\ s.r = q.r /\ s.d = q.d /\ s.then = q.then /\ s.token = c
    BY <1>1 DEF Requests
  <2> HIDE DEF s
  <2>5. Relies(s, c, dir)
    BY <1>1, <2>4 DEF Relies, Work
  <2> QED BY <1>1, <1>3, <2>1, <2>2, <2>3, <2>5, RowTurn
<1> QED BY <1>2, <1>3 DEF Claim

LEMMA ReadCurrentIsQuiet ==
  ASSUME IInv, ReadCurrent \/ UNCHANGED current, Fault \/ NoFault,
         UNCHANGED <<row, creation, dir, lock, up, late>>
  PROVE  UNCHANGED <<row, creation, dir, lock, up>> /\ Bystanders'
BY FaultIsBounded DEF ReadCurrent, IInv, SessionTypeOK, Bystanders

LEMMA LooksKeep ==
  ASSUME IInv, NEW c \in Callers, Current(c) \/ Recheck(c)
  PROVE  IInv'
<1> DEFINE d == caller[c].r
<1>1. /\ caller[c].pc \in Work
      /\ \A p \in {"fail", "abandon", "mismatch"} : p \in Work \ {"ready"}
  BY DEF Current, Recheck, At, Work
<1>2. UNCHANGED <<row, creation, dir, lock, up>> /\ Bystanders'
  BY ReadCurrentIsQuiet DEF Current, Recheck
<1>3. d \in Digests /\ (Live = d => dir[d].manifest = "ready")
  BY <1>1, AtWork, SessionAssumption DEF Work, Live
<1>4. ASSUME NEW p \in {"fail", "abandon", "mismatch"}, Move(c, p) PROVE IInv'
  <2>1. \E q \in Requests : Becomes(c, q) /\ Relies(q, c, dir)
    BY <1>1, <1>4, WorkTurns
  <2> QED BY <1>2, <2>1, QuietTurn
<1>5. CASE Live = d /\ Compare(c, d)
  <2>1. \E q \in Requests : Becomes(c, q) /\ Relies(q, c, dir)
    BY <1>1, <1>3, <1>5, CompareTurns
  <2> QED BY <1>2, <2>1, QuietTurn
<1>6. ASSUME NEW e \in Exports, Live = d, dir[d].export = e,
             Becomes(c, [caller[c] EXCEPT !.pc = "ready", !.export = e])
      PROVE  IInv'
  <2>1. \E q \in Requests : Becomes(c, q) /\ Relies(q, c, dir)
    BY <1>1, <1>3, <1>6, ReadyTurns
  <2> QED BY <1>2, <2>1, QuietTurn
<1> QED BY <1>4, <1>5, <1>6 DEF Current, Recheck

------------------------------------------------------------------------------
(* The end of a preparation.                                                   *)

LEMMA RowOrQuietTurn ==
  ASSUME IInv, NEW d \in Digests, NEW s \in Rows, Whole(s, dir[d]),
         row' = row \/ row' = [row EXCEPT ![d] = s],
         UNCHANGED <<creation, dir, lock, up>>, Bystanders', NEW c \in Callers,
         \E q \in Requests : Becomes(c, q) /\ Relies(q, c, dir)
  PROVE  IInv'
<1>1. CASE row' = row
  BY <1>1, QuietTurn
<1>2. CASE row' = [row EXCEPT ![d] = s]
  BY <1>2, RowTurn
<1> QED BY <1>1, <1>2

\* One more try.
LEMMA RetryTurns ==
  ASSUME IInv, NEW c \in Callers, caller[c].pc \in Work,
         Becomes(c, [caller[c] EXCEPT !.tries = 2])
  PROVE  \E q \in Requests : Becomes(c, q) /\ Relies(q, c, dir)
<1> DEFINE q == caller[c]
           s == [q EXCEPT !.tries = 2]
<1>1. q \in Requests /\ Relies(q, c, dir)
  BY AtWork
<1> HIDE DEF q
<1>2. s \in Requests
  <2>1. 2 \in 0 .. 4
    OBVIOUS
  <2> QED BY <1>1, <2>1, UpdatedIsRequest
<1>3. /\ s.pc = q.pc /\ s.r = q.r /\ s.d = q.d /\ s.then = q.then
      /\ s.token = q.token /\ s.export = q.export
  BY <1>1 DEF Requests
<1>4. Becomes(c, s)
  BY DEF q
<1> HIDE DEF s
<1>5. Relies(s, c, dir)
  BY <1>1, <1>3 DEF Relies
<1> QED BY <1>2, <1>4, <1>5

LEMMA SettleKeeps ==
  ASSUME IInv, NEW c \in Callers, MakeReady(c) \/ MakeFailed(c)
  PROVE  IInv'
<1> DEFINE q == caller[c]
           d == q.r
           r == [NoRow EXCEPT !.status = "ready", !.export = q.export]
           f == [NoRow EXCEPT !.status = "failed"]
<1>1. /\ q \in Requests /\ d \in Digests /\ Relies(q, c, dir)
      /\ q.pc \in Work /\ q.pc \notin {"idle", "admit"} /\ "abandon" \in Work \ {"ready"}
  BY AtWork DEF MakeReady, MakeFailed, At, Work
<1>2. UNCHANGED <<creation, dir, lock, up>> /\ Bystanders'
  BY FaultIsBounded DEF MakeReady, MakeFailed, Provider, IInv, SessionTypeOK, Bystanders
<1>3. \E t \in Requests : Becomes(c, t) /\ Relies(t, c, dir)
  <2>1. \/ \E rows : Reconciled(c, rows)
        \/ Becomes(c, [caller[c] EXCEPT !.tries = 2])
        \/ Move(c, "abandon")
    BY DEF MakeReady, MakeFailed
  <2>2. CASE \E rows : Reconciled(c, rows)
    BY <1>1, <2>2, ReconciledTurns
  <2>3. CASE Becomes(c, [caller[c] EXCEPT !.tries = 2])
    BY <1>1, <2>3, RetryTurns
  <2>4. CASE Move(c, "abandon")
    BY <1>1, <2>4, WorkTurns
  <2> QED BY <2>1, <2>2, <2>3, <2>4
<1>4. CASE MakeReady(c)
  <2>1. q.export \in Exports \cup {None}
    BY <1>1 DEF Requests
  <2>2. dir[d].manifest \in {"ready", "closed"} /\ dir[d].export = q.export
    BY <1>1, <1>4 DEF MakeReady, At, Relies
  <2>3. row' = row \/ row' = [row EXCEPT ![d] = r]
    BY <1>4 DEF MakeReady
  <2> HIDE DEF q
  <2>4. r \in Rows /\ r.status = "ready" /\ r.export = q.export
    BY <2>1 DEF NoRow, Rows, Active
  <2> HIDE DEF r
  <2>5. Whole(r, dir[d])
    BY <2>2, <2>4 DEF Whole
  <2> QED BY <1>1, <1>2, <1>3, <2>3, <2>4, <2>5, RowOrQuietTurn
<1>5. CASE MakeFailed(c)
  <2>1. row' = row \/ row' = [row EXCEPT ![d] = f]
    BY <1>5 DEF MakeFailed
  <2>2. f \in Rows /\ Whole(f, dir[d])
    BY DEF NoRow, Rows, Whole
  <2> HIDE DEF q, f
  <2> QED BY <1>1, <1>2, <1>3, <2>1, <2>2, RowOrQuietTurn
<1> QED BY <1>4, <1>5

LEMMA AbandonKeeps == ASSUME IInv, NEW c \in Callers, Abandon(c) PROVE IInv'
<1> DEFINE d == caller[c].r
           r == [row[d] EXCEPT !.abandoned = TRUE]
<1>1. d \in Digests /\ row[d] \in Rows /\ Whole(row[d], dir[d])
  BY AtWork DEF Abandon, At
<1>2. UNCHANGED <<creation, dir, lock, up>> /\ Bystanders'
  BY FaultIsBounded DEF Abandon, Provider, IInv, SessionTypeOK, Bystanders
<1>3. \E rows : Reconciled(c, rows)
  BY DEF Abandon
<1>4. \E t \in Requests : Becomes(c, t) /\ Relies(t, c, dir)
  BY <1>3, ReconciledTurns DEF Abandon, At
<1>5. row' = row \/ row' = [row EXCEPT ![d] = r]
  BY DEF Abandon
<1>6. r \in Rows /\ Whole(r, dir[d])
  BY <1>1 DEF Rows, Whole
<1> HIDE DEF d, r
<1> QED BY <1>1, <1>2, <1>4, <1>5, <1>6, RowOrQuietTurn

------------------------------------------------------------------------------
(* Closing.                                                                    *)

\* What the provider's close does to one directory, also when it dies of it.
LEMMA DirectoryCloses ==
  ASSUME IInv, NEW d \in Digests, Closable(d), UNCHANGED <<row, creation, lock>>,
         dir' = [dir EXCEPT ![d].manifest = "closed"], up' \in BOOLEAN
  PROVE  /\ Grows(dir, dir') /\ dir'[d].manifest = "closed"
         /\ dir' \in [Digests -> Directories]
         /\ \A x \in Digests : /\ Whole(row'[x], dir'[x])
                               /\ Served(creation'[x], dir'[x], x, lock', up')
<1>1. dir'[d] = [dir[d] EXCEPT !.manifest = "closed"]
  BY DEF IInv, SessionTypeOK
<1>2. dir[d] \in Directories
  BY DEF IInv, SessionTypeOK
<1>3. dir'[d] \in Directories /\ dir'[d].manifest = "closed" /\ dir'[d].export = dir[d].export
  BY <1>1, <1>2 DEF Directories
<1>4. \A x \in Digests : x # d => dir'[x] = dir[x]
  BY DEF IInv, SessionTypeOK
<1>5. Grows(dir, dir')
  BY <1>3, <1>4 DEF Grows
<1>6. dir' \in [Digests -> Directories]
  BY <1>3, <1>4 DEF IInv, SessionTypeOK
<1>7. \A x \in Digests : Whole(row'[x], dir'[x])
  BY <1>3, <1>4 DEF IInv, Whole
<1>8. \A x \in Digests : creation[x].state \notin {"serving", "renamed"}
  BY SessionAssumption DEF IInv, Served, Closable
<1>9. \A x \in Digests : Served(creation'[x], dir'[x], x, lock', up')
  BY <1>3, <1>4, <1>8 DEF IInv, Served
<1> QED BY <1>3, <1>5, <1>6, <1>7, <1>9

LEMMA CloseTurn ==
  ASSUME IInv, NEW d \in Digests, UNCHANGED <<row, creation, lock>>, Bystanders',
         \/ UNCHANGED <<dir, up>>
         \/ /\ Closable(d) /\ dir' = [dir EXCEPT ![d].manifest = "closed"]
            /\ up' \in BOOLEAN,
         NEW c \in Callers,
         \E q \in Requests : Becomes(c, q) /\ (Relies(q, c, dir) \/ Relies(q, c, dir'))
  PROVE  IInv'
<1>1. /\ Grows(dir, dir') /\ dir' \in [Digests -> Directories] /\ up' \in BOOLEAN
      /\ \A x \in Digests : /\ Whole(row'[x], dir'[x])
                            /\ Served(creation'[x], dir'[x], x, lock', up')
  <2>1. CASE UNCHANGED <<dir, up>>
    BY <2>1 DEF IInv, SessionTypeOK, Grows
  <2>2. CASE /\ Closable(d) /\ dir' = [dir EXCEPT ![d].manifest = "closed"]
             /\ up' \in BOOLEAN
    BY <2>2, DirectoryCloses
  <2> QED BY <2>1, <2>2
<1>2. PICK q \in Requests : Becomes(c, q) /\ (Relies(q, c, dir) \/ Relies(q, c, dir'))
  OBVIOUS
<1>3. Relies(q, c, dir')
  BY <1>1, <1>2 DEF Relies, Grows
<1>4. caller' \in [Callers -> Requests] /\ \A b \in Callers : Relies(caller'[b], b, dir')
  BY <1>1, <1>2, <1>3, OneTurns
<1> QED BY <1>1, <1>4 DEF IInv, SessionTypeOK, Bystanders

\* What a close request does besides the request that made it.
LEMMA CloseIsServed ==
  ASSUME IInv, NEW c \in Callers, NEW d \in Digests, NEW ok, NEW busy, NEW lost,
         RequestClose(c, d, ok, busy, lost)
  PROVE  /\ UNCHANGED <<creation, lock>> /\ Bystanders'
         /\ \/ UNCHANGED <<dir, up>>
            \/ /\ Closable(d) /\ dir' = [dir EXCEPT ![d].manifest = "closed"]
               /\ up' \in BOOLEAN
         /\ \/ ok /\ Closable(d) /\ dir' = [dir EXCEPT ![d].manifest = "closed"] /\ up' \in BOOLEAN
            \/ busy
            \/ lost
<1>1. faults' \in 0 .. MaxFaults
  BY FaultIsBounded DEF RequestClose
<1>2. late' \subseteq Digests
  BY DEF RequestClose, IInv, SessionTypeOK
<1>3. current' \in {None} \cup [d : Digests, partial : BOOLEAN]
  BY DEF RequestClose, CloseDirectory, CloseAndDie, IInv, SessionTypeOK
<1>4. up \in BOOLEAN
  BY DEF IInv, SessionTypeOK
<1> QED BY <1>1, <1>2, <1>3, <1>4 DEF RequestClose, CloseDirectory, CloseAndDie, Bystanders

LEMMA CloseMismatchKeeps == ASSUME IInv, NEW c \in Callers, CloseMismatch(c) PROVE IInv'
<1> DEFINE d == caller[c].r
<1>1. /\ d \in Digests /\ caller[c].pc \in Work
      /\ "fail" \in Work \ {"ready"} /\ "abandon" \in Work \ {"ready"}
  BY AtWork DEF CloseMismatch, At, Work
<1>2. RequestClose(c, d, Move(c, "fail"), Move(c, "abandon"), Move(c, "abandon"))
  BY DEF CloseMismatch
<1>3. Move(c, "fail") \/ Move(c, "abandon")
  BY <1>2 DEF RequestClose
<1>4. \E q \in Requests : Becomes(c, q) /\ Relies(q, c, dir)
  BY <1>1, <1>3, WorkTurns
<1>5. /\ UNCHANGED <<row, creation, lock>> /\ Bystanders'
      /\ \/ UNCHANGED <<dir, up>>
         \/ /\ Closable(d) /\ dir' = [dir EXCEPT ![d].manifest = "closed"]
            /\ up' \in BOOLEAN
  BY <1>1, <1>2, CloseIsServed DEF CloseMismatch
<1> HIDE DEF d
<1> QED BY <1>1, <1>4, <1>5, CloseTurn

LEMMA ToClosingKeeps == ASSUME IInv, NEW c \in Callers, ToClosing(c) PROVE IInv'
<1> DEFINE d == caller[c].r
           r == [row[d] EXCEPT !.status = "closing"]
<1>1. d \in Digests /\ row[d] \in Rows /\ Whole(row[d], dir[d])
  BY AtWork DEF ToClosing, At
<1>2. UNCHANGED <<creation, dir, lock, up>> /\ Bystanders'
  BY DEF ToClosing, Provider, NoFault, IInv, SessionTypeOK, Bystanders
<1>3. CASE UNCHANGED row /\ Return(c)
  <2>1. \E q \in Requests : Becomes(c, q) /\ Relies(q, c, dir)
    BY <1>3, ReturnTurns
  <2> QED BY <1>2, <1>3, <2>1, QuietTurn
<1>4. CASE /\ row[d].status \in {"ready", "closing"}
           /\ row' = [row EXCEPT ![d] = r] /\ Move(c, "close")
  <2>1. r \in Rows /\ Whole(r, dir[d])
    BY <1>1, <1>4 DEF Rows, Whole, Active
  <2>2. "close" \in Places \ {"idle", "admit", "ready", "converge"} /\ "close" \notin Work
    BY DEF Places, Work
  <2>3. \E q \in Requests : Becomes(c, q) /\ Relies(q, c, dir)
    BY <1>4, <2>2, MoveTurns DEF ToClosing, At
  <2> HIDE DEF d, r
  <2> QED BY <1>1, <1>2, <1>4, <2>1, <2>3, RowTurn
<1> QED BY <1>3, <1>4 DEF ToClosing

LEMMA CloseProviderKeeps == ASSUME IInv, NEW c \in Callers, CloseProvider(c) PROVE IInv'
<1> DEFINE q == caller[c]
           d == q.r
           s == [q EXCEPT !.pc = "converge", !.tries = 0, !.seen = row[d].status]
<1>1. /\ q \in Requests /\ d \in Digests /\ row[d] \in Rows
      /\ q.pc = "close" /\ Relies(q, c, dir)
  BY AtWork DEF CloseProvider, At
<1>2. RequestClose(c, d, Becomes(c, s), Move(c, "reopen"), Return(c))
  BY DEF CloseProvider
<1>3. /\ UNCHANGED <<row, creation, lock>> /\ Bystanders'
      /\ \/ UNCHANGED <<dir, up>>
         \/ /\ Closable(d) /\ dir' = [dir EXCEPT ![d].manifest = "closed"]
            /\ up' \in BOOLEAN
      /\ \/ /\ Becomes(c, s) /\ Closable(d) /\ dir' = [dir EXCEPT ![d].manifest = "closed"]
            /\ up' \in BOOLEAN
         \/ Move(c, "reopen")
         \/ Return(c)
  BY <1>1, <1>2, CloseIsServed DEF CloseProvider
<1>4. CASE Move(c, "reopen")
  <2>1. "reopen" \in Places \ {"idle", "admit", "ready", "converge"} /\ "reopen" \notin Work
    BY DEF Places, Work
  <2>2. \E t \in Requests : Becomes(c, t) /\ Relies(t, c, dir)
    BY <1>1, <1>4, <2>1, MoveTurns
  <2> HIDE DEF q
  <2> QED BY <1>1, <1>3, <2>2, CloseTurn
<1>5. CASE Return(c)
  <2>1. \E t \in Requests : Becomes(c, t) /\ Relies(t, c, dir)
    BY <1>5, ReturnTurns
  <2> HIDE DEF q
  <2> QED BY <1>1, <1>3, <2>1, CloseTurn
<1>6. CASE /\ Becomes(c, s) /\ Closable(d) /\ dir' = [dir EXCEPT ![d].manifest = "closed"]
           /\ up' \in BOOLEAN
  <2> HIDE DEF q
  <2>1. row[d].status \in Statuses /\ "converge" \in Places /\ 0 \in 0 .. 4
    BY <1>1 DEF Rows, Statuses, Places
  <2>2. s \in Requests
    <3>1. [q EXCEPT !.pc = "converge"] \in Requests
      BY <1>1, <2>1, UpdatedIsRequest
    <3>2. [q EXCEPT !.pc = "converge", !.tries = 0] \in Requests
      BY <3>1, <2>1, UpdatedIsRequest
    <3> QED BY <3>2, <2>1, UpdatedIsRequest
  <2>3. s.pc = "converge" /\ s.r = d /\ s.d = q.d /\ s.then = q.then
    BY <1>1 DEF Requests
  <2>4. dir'[d].manifest = "closed"
    BY <1>1, <1>3, <1>6, DirectoryCloses
  <2> HIDE DEF s
  <2>5. Relies(s, c, dir')
    BY <1>1, <2>3, <2>4 DEF Relies, Work
  <2> QED BY <1>1, <1>3, <1>6, <2>2, <2>5, CloseTurn
<1> QED BY <1>3, <1>4, <1>5, <1>6

LEMMA ReopenKeeps == ASSUME IInv, NEW c \in Callers, Reopen(c) PROVE IInv'
<1> DEFINE d == caller[c].r
           r == [row[d] EXCEPT !.status = "ready"]
<1>1. d \in Digests /\ row[d] \in Rows /\ Whole(row[d], dir[d])
  BY AtWork DEF Reopen, At
<1>2. UNCHANGED <<creation, dir, lock, up>> /\ Bystanders'
  BY DEF Reopen, Provider, NoFault, IInv, SessionTypeOK, Bystanders
<1>3. \E q \in Requests : Becomes(c, q) /\ Relies(q, c, dir)
  BY ReturnTurns DEF Reopen
<1>4. CASE row[d].status = "closing" /\ row' = [row EXCEPT ![d] = r]
  <2>1. r \in Rows /\ Whole(r, dir[d])
    BY <1>1, <1>4 DEF Rows, Whole, Active
  <2> HIDE DEF d, r
  <2> QED BY <1>1, <1>2, <1>3, <1>4, <2>1, RowTurn
<1>5. CASE UNCHANGED row
  BY <1>2, <1>3, <1>5, QuietTurn
<1> QED BY <1>4, <1>5 DEF Reopen

LEMMA ConvergeKeeps == ASSUME IInv, NEW c \in Callers, Converge(c) PROVE IInv'
<1> DEFINE q == caller[c]
           d == q.r
           to == IF q.seen = "ready" THEN "closing" ELSE "closed"
           r == [row[d] EXCEPT !.status = to]
           s == [q EXCEPT !.tries = @ + 1, !.seen = row'[d].status]
<1>1. /\ q \in Requests /\ d \in Digests /\ row[d] \in Rows /\ Whole(row[d], dir[d])
      /\ Relies(q, c, dir) /\ q.pc = "converge" /\ dir[d].manifest = "closed"
  BY AtWork DEF Converge, At, Relies
<1>2. UNCHANGED <<creation, dir, lock, up>> /\ Bystanders'
  BY DEF Converge, Provider, NoFault, IInv, SessionTypeOK, Bystanders
<1>3. CASE UNCHANGED row /\ Return(c)
  <2>1. \E t \in Requests : Becomes(c, t) /\ Relies(t, c, dir)
    BY <1>3, ReturnTurns
  <2> QED BY <1>2, <1>3, <2>1, QuietTurn
<1>4. CASE /\ q.seen \in {"ready", "closing"} /\ q.tries # 4 /\ Becomes(c, s)
           /\ \/ UNCHANGED row
              \/ row[d].status = q.seen /\ row' = [row EXCEPT ![d] = r]
  <2>1. r \in Rows /\ (row[d].status = q.seen => Whole(r, dir[d])) /\ r.status \in Statuses
    BY <1>1, <1>4 DEF Rows, Whole, Active, Statuses
  <2>2. row[d].status \in Statuses /\ q.tries \in 0 .. 4
    BY <1>1 DEF Rows, Requests, Statuses
  <2>3. row'[d].status \in Statuses
    BY <1>1, <1>4, <2>1, <2>2 DEF IInv, SessionTypeOK
  <2> HIDE DEF q, r
  <2>4. s \in Requests
    <3>1. q.tries + 1 \in 0 .. 4
      BY <1>4, <2>2
    <3>2. [q EXCEPT !.tries = q.tries + 1] \in Requests
      BY <1>1, <3>1, UpdatedIsRequest
    <3> QED BY <2>3, <3>2, UpdatedIsRequest
  <2>5. s.pc = "converge" /\ s.r = d /\ s.d = q.d /\ s.then = q.then
    BY <1>1 DEF Requests
  <2> HIDE DEF s
  <2>6. Relies(s, c, dir)
    BY <1>1, <2>5 DEF Relies, Work
  <2>7. CASE UNCHANGED row
    BY <1>2, <1>4, <2>4, <2>6, <2>7, QuietTurn
  <2>8. CASE row[d].status = q.seen /\ row' = [row EXCEPT ![d] = r]
    BY <1>1, <1>2, <1>4, <2>1, <2>4, <2>6, <2>8, RowTurn
  <2> QED BY <1>4, <2>7, <2>8
<1> QED BY <1>3, <1>4 DEF Converge

LEMMA CallerDiesKeeps == ASSUME IInv, NEW c \in Callers, CallerDies(c) PROVE IInv'
<1>1. UNCHANGED <<row, creation, dir, lock, up>> /\ Bystanders'
  BY FaultIsBounded DEF CallerDies, Provider, IInv, SessionTypeOK, Bystanders
<1>2. \E q \in Requests : Becomes(c, q) /\ Relies(q, c, dir)
  BY ReturnTurns DEF CallerDies
<1> QED BY <1>1, <1>2, QuietTurn

------------------------------------------------------------------------------
(* The provider.                                                               *)

LEMMA ProviderTurn ==
  ASSUME IInv, UNCHANGED <<row, caller>>, Bystanders', Grows(dir, dir'),
         dir' \in [Digests -> Directories], creation' \in [Digests -> Creations],
         lock' \in Digests \cup {None}, up' \in BOOLEAN,
         \A x \in Digests : Served(creation'[x], dir'[x], x, lock', up')
  PROVE  IInv'
<1>1. \A x \in Digests : Whole(row'[x], dir'[x])
  BY DEF IInv, Whole, Grows
<1>2. ASSUME NEW c \in Callers PROVE Relies(caller'[c], c, dir')
  <2>1. Relies(caller[c], c, dir)
    BY DEF IInv
  <2> QED BY <2>1 DEF Relies, Grows
<1> QED BY <1>1, <1>2 DEF IInv, SessionTypeOK, Bystanders

\* A step of one creation, which has the lock or leaves it alone.
LEMMA CreationTurn ==
  ASSUME IInv, UNCHANGED <<row, caller, up>>, Bystanders', NEW d \in Digests,
         NEW k \in Creations, creation' = [creation EXCEPT ![d] = k],
         NEW x \in Directories, dir' = [dir EXCEPT ![d] = x],
         lock' \in Digests \cup {None}, lock' = lock \/ lock \in {d, None},
         Served(k, x, d, lock', up),
         dir[d].manifest \in {"ready", "closed"} => x = dir[d]
  PROVE  IInv'
<1>1. dir'[d] = x /\ \A y \in Digests : y # d => dir'[y] = dir[y]
  BY DEF IInv, SessionTypeOK
<1>2. creation'[d] = k /\ \A y \in Digests : y # d => creation'[y] = creation[y]
  BY DEF IInv, SessionTypeOK
<1>3. Grows(dir, dir')
  BY <1>1 DEF Grows
<1>4. dir' \in [Digests -> Directories] /\ creation' \in [Digests -> Creations] /\ up' \in BOOLEAN
  BY DEF IInv, SessionTypeOK
<1>5. ASSUME NEW y \in Digests, y # d
      PROVE  Served(creation'[y], dir'[y], y, lock', up')
  <2>1. Served(creation[y], dir[y], y, lock, up) /\ creation'[y] = creation[y] /\ dir'[y] = dir[y]
    BY <1>1, <1>2, <1>5 DEF IInv
  <2> QED BY <1>5, <2>1, SessionAssumption DEF Served
<1>6. \A y \in Digests : Served(creation'[y], dir'[y], y, lock', up')
  BY <1>1, <1>2, <1>5
<1> QED BY <1>3, <1>4, <1>6, ProviderTurn

\* The parts of the state in which a creation happens.
LEMMA OneCreation ==
  ASSUME IInv, NEW d \in Digests
  PROVE  /\ creation[d] \in Creations /\ dir[d] \in Directories
         /\ Served(creation[d], dir[d], d, lock, up)
         /\ dir = [dir EXCEPT ![d] = dir[d]]
         /\ lock \in Digests \cup {None} /\ up \in BOOLEAN
BY DEF IInv, SessionTypeOK

LEMMA SentIsCreation ==
  /\ Sent("error") \in Creations /\ Sent("error").state = "error"
  /\ Sent("renamed") \in Creations /\ Sent("renamed").state = "renamed"
BY DEF Sent, Creations

LEMMA StartCreateKeeps == ASSUME IInv, NEW d \in Digests, StartCreate(d) PROVE IInv'
<1> DEFINE k == [creation[d] EXCEPT !.state = "serving"]
           x == [dir[d] EXCEPT !.manifest = "partial"]
<1>1. UNCHANGED <<row, caller, up>> /\ Bystanders'
  <2>1. current' \in {None, current, [d |-> d, partial |-> TRUE]}
    BY DEF StartCreate
  <2>2. [d |-> d, partial |-> TRUE] \in [d : Digests, partial : BOOLEAN]
    OBVIOUS
  <2>3. current' \in {None} \cup [d : Digests, partial : BOOLEAN]
    BY <2>1, <2>2 DEF IInv, SessionTypeOK
  <2> QED BY <2>3 DEF StartCreate, IInv, SessionTypeOK, Bystanders
<1>2. CASE creation' = [creation EXCEPT ![d] = Sent("error")] /\ UNCHANGED <<dir, lock>>
  <2>1. Served(Sent("error"), dir[d], d, lock', up)
    BY SentIsCreation DEF Served
  <2>2. dir' = [dir EXCEPT ![d] = dir[d]]
    BY <1>2, OneCreation
  <2> QED BY <1>1, <1>2, <2>1, <2>2, OneCreation, SentIsCreation, CreationTurn
<1>3. CASE /\ lock = None /\ up /\ dir[d].manifest \notin {"ready", "closed"}
           /\ creation' = [creation EXCEPT ![d] = k] /\ dir' = [dir EXCEPT ![d] = x]
           /\ lock' = d
  <2>1. k \in Creations /\ k.state = "serving"
    BY OneCreation DEF Creations
  <2>2. x \in Directories /\ x.manifest = "partial"
    BY OneCreation DEF Directories
  <2> HIDE DEF k, x
  <2>3. Served(k, x, d, lock', up)
    BY <1>3, <2>1, <2>2 DEF Served
  <2> QED BY <1>1, <1>3, <2>1, <2>2, <2>3, CreationTurn
<1> QED BY <1>2, <1>3 DEF StartCreate

LEMMA MaterializeKeeps ==
  ASSUME IInv, NEW d \in Digests, Materialize(d) \/ MaterializeFails(d)
  PROVE  IInv'
<1>1. UNCHANGED <<row, caller, up>> /\ Bystanders'
  BY FaultIsBounded DEF Materialize, MaterializeFails, IInv, SessionTypeOK, Bystanders
<1>2. lock = d /\ up /\ dir[d].manifest = "partial"
  BY OneCreation DEF Materialize, MaterializeFails, Served
<1>3. CASE Materialize(d)
  <2> DEFINE x == [manifest |-> "ready", export |-> creation[d].expected]
  <2>1. x \in Directories /\ x.manifest = "ready"
    BY OneCreation DEF Creations, Directories
  <2>2. creation' = [creation EXCEPT ![d] = Sent("renamed")] /\ dir' = [dir EXCEPT ![d] = x] /\ lock' = lock
    BY <1>3 DEF Materialize
  <2> HIDE DEF x
  <2>3. Served(Sent("renamed"), x, d, lock', up)
    BY <1>2, <2>1, <2>2, SentIsCreation DEF Served
  <2> QED BY <1>1, <1>2, <2>1, <2>2, <2>3, SentIsCreation, CreationTurn
<1>4. CASE MaterializeFails(d)
  <2> DEFINE x == [dir[d] EXCEPT !.manifest = "none"]
  <2>1. x \in Directories
    BY OneCreation DEF Directories
  <2>2. creation' = [creation EXCEPT ![d] = Sent("error")] /\ dir' = [dir EXCEPT ![d] = x] /\ lock' = None
    BY <1>4 DEF MaterializeFails
  <2> HIDE DEF x
  <2>3. Served(Sent("error"), x, d, lock', up)
    BY SentIsCreation DEF Served
  <2> QED BY <1>1, <1>2, <2>1, <2>2, <2>3, SentIsCreation, CreationTurn
<1> QED BY <1>3, <1>4

LEMMA FinishCreateKeeps == ASSUME IInv, NEW d \in Digests, FinishCreate(d) PROVE IInv'
<1> DEFINE k == [creation[d] EXCEPT !.state = "ok"]
<1>1. UNCHANGED <<row, caller, up>> /\ Bystanders'
  BY FaultIsBounded DEF FinishCreate, IInv, SessionTypeOK, Bystanders
<1>2. lock = d /\ dir[d].manifest \in {"ready", "closed"}
  BY OneCreation DEF FinishCreate, Served
<1>3. lock' = None /\ dir' = [dir EXCEPT ![d] = dir[d]]
  BY OneCreation DEF FinishCreate
<1>4. CASE creation' = [creation EXCEPT ![d] = k]
  <2>1. k \in Creations /\ k.state = "ok"
    BY OneCreation DEF Creations
  <2> HIDE DEF k
  <2>2. Served(k, dir[d], d, lock', up)
    BY <1>2, <2>1 DEF Served
  <2> QED BY <1>1, <1>2, <1>3, <1>4, <2>1, <2>2, OneCreation, CreationTurn
<1>5. CASE creation' = [creation EXCEPT ![d] = Sent("error")]
  <2>1. Served(Sent("error"), dir[d], d, lock', up)
    BY SentIsCreation DEF Served
  <2> QED BY <1>1, <1>2, <1>3, <1>5, <2>1, OneCreation, SentIsCreation, CreationTurn
<1> QED BY <1>4, <1>5 DEF FinishCreate

LEMMA LoseCreateKeeps == ASSUME IInv, NEW d \in Digests, LoseCreate(d) PROVE IInv'
<1>1. UNCHANGED <<row, caller, up>> /\ Bystanders'
  BY FaultIsBounded DEF LoseCreate, IInv, SessionTypeOK, Bystanders
<1>2. /\ creation' = [creation EXCEPT ![d] = Sent("error")] /\ lock' = lock
      /\ dir' = [dir EXCEPT ![d] = dir[d]]
  BY OneCreation DEF LoseCreate
<1>3. Served(Sent("error"), dir[d], d, lock', up)
  BY SentIsCreation DEF Served
<1> QED BY <1>1, <1>2, <1>3, OneCreation, SentIsCreation, CreationTurn

LEMMA LateCloseKeeps == ASSUME IInv, NEW d \in Digests, LateClose(d) PROVE IInv'
<1>1. /\ UNCHANGED <<row, caller, creation, lock, up>> /\ Bystanders'
      /\ creation \in [Digests -> Creations] /\ lock \in Digests \cup {None} /\ up \in BOOLEAN
      /\ dir \in [Digests -> Directories]
  BY DEF LateClose, CloseDirectory, IInv, SessionTypeOK, Bystanders
<1>2. CASE Closable(d) /\ dir' = [dir EXCEPT ![d].manifest = "closed"]
  BY <1>1, <1>2, DirectoryCloses, ProviderTurn
<1>3. CASE UNCHANGED dir
  <2>1. Grows(dir, dir')
    BY <1>3 DEF Grows
  <2>2. \A x \in Digests : Served(creation'[x], dir'[x], x, lock', up')
    BY <1>1, <1>3 DEF IInv
  <2> QED BY <1>1, <1>3, <2>1, <2>2, ProviderTurn
<1> QED BY <1>2, <1>3 DEF LateClose, CloseDirectory

LEMMA CrashKeeps == ASSUME IInv, Crash PROVE IInv'
<1>1. /\ UNCHANGED <<row, caller, dir>> /\ Bystanders' /\ lock' = None /\ up' = FALSE
      /\ dir' \in [Digests -> Directories]
  BY FaultIsBounded DEF Crash, IInv, SessionTypeOK, Bystanders
<1>2. ASSUME NEW x \in Digests
      PROVE  creation'[x] \in Creations /\ Served(creation'[x], dir'[x], x, lock', up')
  <2>1. creation'[x] = IF creation[x].state \in {"sent", "serving", "renamed"}
                       THEN Sent("error") ELSE creation[x]
    BY DEF Crash
  <2>2. CASE creation[x].state \in {"sent", "serving", "renamed"}
    BY <2>1, <2>2, SentIsCreation DEF Served
  <2>3. CASE creation[x].state \notin {"sent", "serving", "renamed"}
    BY <1>1, <2>1, <2>3, OneCreation DEF Served
  <2> QED BY <2>2, <2>3
<1>3. creation' \in [Digests -> Creations]
  <2>1. \E f : creation' = [x \in Digests |-> f[x]]
    BY DEF Crash
  <2> QED BY <1>2 DEF Crash
<1>4. Grows(dir, dir')
  BY <1>1 DEF Grows
<1> QED BY <1>1, <1>2, <1>3, <1>4, ProviderTurn

LEMMA RestartKeeps == ASSUME IInv, Restart PROVE IInv'
<1>1. UNCHANGED <<row, caller, creation, lock>> /\ up' = TRUE /\ ~up
  BY DEF Restart
<1>2. Bystanders'
  <2>1. current' \in {None} \cup [d : Digests, partial : BOOLEAN]
    <3>1. \A d \in Digests : [d |-> d, partial |-> FALSE] \in [d : Digests, partial : BOOLEAN]
      OBVIOUS
    <3>2. current # None => current.d \in Digests
      BY DEF IInv, SessionTypeOK
    <3>3. \/ current' = current
          \/ current' = None
          \/ current # None /\ current' = [d |-> current.d, partial |-> FALSE]
      BY DEF Restart
    <3> QED BY <3>1, <3>2, <3>3 DEF IInv, SessionTypeOK
  <2> QED BY <2>1 DEF Restart, IInv, SessionTypeOK, Bystanders
<1>3. ASSUME NEW x \in Digests
      PROVE  /\ dir'[x] \in Directories
             /\ dir[x].manifest # "partial" => dir'[x] = dir[x]
  <2>1. CASE dir' = dir
    BY <2>1 DEF IInv, SessionTypeOK
  <2>2. ASSUME NEW d \in Digests, dir[d].manifest = "partial",
               dir' = [dir EXCEPT ![d].manifest = "none"]
        PROVE  /\ dir'[x] \in Directories
               /\ dir[x].manifest # "partial" => dir'[x] = dir[x]
    <3>1. dir'[d] = [dir[d] EXCEPT !.manifest = "none"] /\ dir[d] \in Directories
      BY <2>2 DEF IInv, SessionTypeOK
    <3>2. dir'[d] \in Directories
      BY <3>1 DEF Directories
    <3> QED BY <2>2, <3>2 DEF IInv, SessionTypeOK
  <2>3. current # None => current.d \in Digests
    BY DEF IInv, SessionTypeOK
  <2> QED BY <2>1, <2>2, <2>3 DEF Restart
<1>4. dir' \in [Digests -> Directories]
  <2>1. dir' = dir \/ \E d : dir' = [dir EXCEPT ![d].manifest = "none"]
    BY DEF Restart
  <2> QED BY <1>3, <2>1 DEF IInv, SessionTypeOK
<1>5. Grows(dir, dir')
  BY <1>3 DEF Grows
<1>6. ASSUME NEW x \in Digests PROVE Served(creation'[x], dir'[x], x, lock', up')
  BY <1>1, <1>3, OneCreation DEF Served
<1> QED BY <1>1, <1>2, <1>4, <1>5, <1>6, OneCreation, ProviderTurn DEF IInv, SessionTypeOK

LEMMA BecomeDueKeeps == ASSUME IInv, NEW d \in Digests, BecomeDue(d) PROVE IInv'
<1>1. UNCHANGED <<caller, creation, dir, current, lock, up, late>> /\ faults' \in 0 .. MaxFaults
  BY FaultIsBounded DEF BecomeDue, Provider
<1>2. row[d] \in Rows /\ row' = [row EXCEPT ![d].due = TRUE]
  BY DEF BecomeDue, IInv, SessionTypeOK
<1>3. row'[d] = [row[d] EXCEPT !.due = TRUE]
  BY <1>2 DEF IInv, SessionTypeOK
<1>4. row'[d] \in Rows /\ row'[d].status = row[d].status /\ row'[d].export = row[d].export
  <2>1. \A r \in Rows : [r EXCEPT !.due = TRUE] \in Rows
    BY DEF Rows
  <2>2. \A r \in Rows : [r EXCEPT !.due = TRUE].status = r.status
    BY DEF Rows
  <2>3. \A r \in Rows : [r EXCEPT !.due = TRUE].export = r.export
    BY DEF Rows
  <2> QED BY <1>2, <1>3, <2>1, <2>2, <2>3
<1>5. \A x \in Digests : x # d => row'[x] = row[x]
  BY <1>2 DEF IInv, SessionTypeOK
<1>6. row' \in [Digests -> Rows]
  BY <1>2, <1>4, <1>5 DEF IInv, SessionTypeOK
<1>7. \A x \in Digests : Whole(row'[x], dir'[x])
  BY <1>1, <1>4, <1>5 DEF IInv, Whole
<1> QED BY <1>1, <1>6, <1>7 DEF IInv, SessionTypeOK

------------------------------------------------------------------------------
(* All steps.                                                                  *)

LEMMA InitHolds == ASSUME Init PROVE IInv
<1>1. NoRow \in Rows /\ \A x : Whole(NoRow, x)
  BY DEF NoRow, Rows, Whole
<1>2. Sent("unsent") \in Creations /\ Sent("unsent").state = "unsent"
  BY DEF Sent, Creations
<1>3. [manifest |-> "none", export |-> None] \in Directories
  BY DEF Directories
<1>4. Idle \in Requests /\ \A c, x : Relies(Idle, c, x)
  BY IdleIsRequest DEF Idle, Relies, Work
<1>5. \A x, d, l, u : Served(Sent("unsent"), x, d, l, u)
  BY <1>2 DEF Served
<1>6. 0 \in 0 .. MaxFaults
  BY SessionAssumption
<1>7. SessionTypeOK
  BY <1>1, <1>2, <1>3, <1>4, <1>6 DEF Init, SessionTypeOK
<1> QED BY <1>1, <1>4, <1>5, <1>7 DEF Init, IInv

LEMMA NextKeeps == ASSUME IInv, [Next]_vars PROVE IInv'
<1>1. CASE UNCHANGED vars
  BY <1>1 DEF vars, IInv, SessionTypeOK
<1>2. ASSUME NEW c \in Callers, Advance(c) PROVE IInv'
  BY <1>2, AdmitKeeps, LookKeeps, RenewKeeps, CallEnds, ClaimKeeps, LooksKeep, SettleKeeps,
     AbandonKeeps, CloseMismatchKeeps, ToClosingKeeps, CloseProviderKeeps, ReopenKeeps,
     ConvergeKeeps
     DEF Advance
<1>3. ASSUME NEW c \in Callers, AbortBeforeCall(c) \/ CallerDies(c) PROVE IInv'
  BY <1>3, CallEnds, CallerDiesKeeps
<1>4. ASSUME NEW c \in Callers, NEW d \in Digests,
             BeginCreate(c, d) \/ BeginGet(c, d) \/ BeginClose(c, d)
      PROVE  IInv'
  BY <1>4, BeginKeeps
<1>5. ASSUME NEW d \in Digests, Serve(d) \/ MaterializeFails(d) PROVE IInv'
  BY <1>5, StartCreateKeeps, MaterializeKeeps, FinishCreateKeeps DEF Serve
<1>6. ASSUME NEW d \in Digests, LoseCreate(d) \/ LateClose(d) \/ BecomeDue(d) PROVE IInv'
  BY <1>6, LoseCreateKeeps, LateCloseKeeps, BecomeDueKeeps
<1>7. CASE Crash \/ Restart
  BY <1>7, CrashKeeps, RestartKeeps
<1> QED BY <1>1, <1>2, <1>3, <1>4, <1>5, <1>6, <1>7 DEF Next

\* The invariant holds for any number of requests, digests and faults.
THEOREM Inductive == Spec => []IInv
BY InitHolds, NextKeeps, PTL DEF Spec

\* A row that says ready, closing or closed names a whole directory with the
\* export it records, whoever crashed, was late or took over.
THEOREM RowsAreWhole == Spec => []ReadyIsWhole
<1>1. IInv => ReadyIsWhole
  BY DEF IInv, Whole, ReadyIsWhole
<1> QED BY <1>1, Inductive, PTL

\* At most one request acts for a preparation.
THEOREM OneOwner == Spec => []OwnerIsAlone
<1>1. ASSUME IInv PROVE OwnerIsAlone
  <2>1. \A c \in Callers : Acting(c) => row[caller[c].r].token = c
    BY <1>1 DEF Acting, Holds, IInv, Relies, Work
  <2> QED BY <2>1 DEF OwnerIsAlone
<1> QED BY <1>1, Inductive, PTL
------------------------------------------------------------------------------
(* No orphan.                                                                  *)

\* The session of k and x is not live and never will be, unless it is sent again.
Gone(k, x) == x.manifest # "ready" /\ k.state \notin {"sent", "serving"}

\* A whole directory comes from a create request that did its work, and the
\* pointer p names the live session and the one under way: there is no other.
Traced(k, x, d, p) ==
  /\ x.manifest \in {"ready", "closed"} => k.state \in {"renamed", "ok", "error"}
  /\ x.manifest = "ready" \/ k.state \in {"serving", "renamed"} => p # None /\ p.d = d

\* A row that is not active has no session to come, and one whose preparation
\* may be claimed has no create request on its way.
Covered(w, k, x) ==
  /\ w.status = "none" => k.state = "unsent"
  /\ w.status \notin Active => Gone(k, x)
  /\ w.status = "preparing" /\ w.due => k.state # "sent"

\* What the request q knows of the preparation it holds: whoever sends has not
\* sent yet, whoever asks the provider after a claim waits for nothing that could
\* still arrive, and whoever gives up gives up nothing that lives.
Pending == {"renew", "current", "fail"}

Firm(q, rows, ks, xs) ==
  q.pc \in Pending /\ rows[q.r].status = "preparing" /\ rows[q.r].token = q.token =>
    /\ q.pc = "renew" => ks[q.r].state = "unsent"
    /\ q.pc = "current" => ks[q.r].state # "sent"
    /\ q.pc = "fail" => Gone(ks[q.r], xs[q.r])

Safe ==
  /\ \A d \in Digests : /\ Traced(creation[d], dir[d], d, current)
                        /\ Covered(row[d], creation[d], dir[d])
  /\ \A c \in Callers : Firm(caller[c], row, creation, dir)

\* What is known of a creation stays known.
Settles(k, x, later, laterDir) ==
  /\ k.state = "unsent" => later.state = "unsent"
  /\ k.state # "sent" => later.state # "sent"
  /\ Gone(k, x) => Gone(later, laterDir)

LEMMA CoveredStays ==
  ASSUME NEW w, NEW k, NEW x, NEW later, NEW laterDir,
         Covered(w, k, x), Settles(k, x, later, laterDir)
  PROVE  Covered(w, later, laterDir)
BY DEF Covered, Settles

\* A request that does not move keeps what it knows, as long as nobody hands it a
\* preparation and nobody sends the one it holds.
LEMMA FirmStays ==
  ASSUME IInv, Safe, NEW b \in Callers, caller'[b] = caller[b],
         \A x \in Digests : row'[x].status = "preparing" /\ row'[x].token = b =>
           /\ row[x].status = "preparing" /\ row[x].token = b
           /\ Settles(creation[x], dir[x], creation'[x], dir'[x])
  PROVE  Firm(caller'[b], row', creation', dir')
<1> DEFINE q == caller[b]
<1>1. q.pc \in Pending => q.r \in Digests /\ q.token = b
  BY AtWork DEF Relies, Work, Pending
<1>2. Firm(q, row, creation, dir)
  BY DEF Safe
<1>3. caller'[b] = q
  OBVIOUS
<1> HIDE DEF q
<1> QED BY <1>1, <1>2, <1>3 DEF Firm, Settles

\* The request c goes on as q; row and provider are as they were.
LEMMA RequestMoves ==
  ASSUME IInv, Safe, NEW c \in Callers, NEW q, Becomes(c, q), UNCHANGED row,
         \A x \in Digests : /\ Settles(creation[x], dir[x], creation'[x], dir'[x])
                            /\ Traced(creation'[x], dir'[x], x, current'),
         Firm(q, row, creation', dir')
  PROVE  Safe'
<1>1. caller'[c] = q /\ \A b \in Callers : b # c => caller'[b] = caller[b]
  BY DEF Becomes, IInv, SessionTypeOK
<1>2. ASSUME NEW b \in Callers PROVE Firm(caller'[b], row', creation', dir')
  <2>1. CASE b = c
    BY <1>1, <2>1
  <2>2. CASE b # c
    BY <1>1, <2>2, FirmStays
  <2> QED BY <2>1, <2>2
<1>3. ASSUME NEW x \in Digests PROVE Covered(row'[x], creation'[x], dir'[x])
  BY CoveredStays DEF Safe
<1> QED BY <1>2, <1>3 DEF Safe

LEMMA StillSettles ==
  ASSUME Safe, UNCHANGED <<creation, dir, current>>
  PROVE  \A x \in Digests : /\ Settles(creation[x], dir[x], creation'[x], dir'[x])
                            /\ Traced(creation'[x], dir'[x], x, current')
BY DEF Safe, Settles

\* The request c goes on as q and writes the row of d.
LEMMA RowMoves ==
  ASSUME IInv, Safe, NEW c \in Callers, NEW q, Becomes(c, q), UNCHANGED <<creation, dir, current>>,
         NEW d \in Digests, \A x \in Digests : x # d => row'[x] = row[x],
         Covered(row'[d], creation[d], dir[d]),
         row'[d].status = "preparing" /\ row'[d].token # c =>
           row[d].status = "preparing" /\ row[d].token = row'[d].token,
         Firm(q, row', creation, dir)
  PROVE  Safe'
<1>1. caller'[c] = q /\ \A b \in Callers : b # c => caller'[b] = caller[b]
  BY DEF Becomes, IInv, SessionTypeOK
<1>2. \A x \in Digests : /\ Settles(creation[x], dir[x], creation'[x], dir'[x])
                         /\ Traced(creation'[x], dir'[x], x, current')
  BY StillSettles
<1>3. ASSUME NEW b \in Callers PROVE Firm(caller'[b], row', creation', dir')
  <2>1. CASE b = c
    BY <1>1, <2>1
  <2>2. CASE b # c
    <3>1. \A x \in Digests : row'[x].status = "preparing" /\ row'[x].token = b =>
            row[x].status = "preparing" /\ row[x].token = b
      BY <2>2
    <3> QED BY <1>1, <1>2, <2>2, <3>1, FirmStays
  <2> QED BY <2>1, <2>2
<1>4. ASSUME NEW x \in Digests PROVE Covered(row'[x], creation'[x], dir'[x])
  <2>1. CASE x = d
    BY <2>1
  <2>2. CASE x # d
    BY <2>2 DEF Safe
  <2> QED BY <2>1, <2>2
<1> QED BY <1>2, <1>3, <1>4 DEF Safe

\* The provider moves.
LEMMA ProviderMoves ==
  ASSUME IInv, Safe, UNCHANGED <<row, caller>>,
         \A x \in Digests : /\ Settles(creation[x], dir[x], creation'[x], dir'[x])
                            /\ Traced(creation'[x], dir'[x], x, current')
  PROVE  Safe'
<1>1. ASSUME NEW b \in Callers PROVE Firm(caller'[b], row', creation', dir')
  BY FirmStays
<1>2. ASSUME NEW x \in Digests PROVE Covered(row'[x], creation'[x], dir'[x])
  BY CoveredStays DEF Safe
<1> QED BY <1>1, <1>2 DEF Safe

\* What the request c is and knows.
LEMMA OneRequest ==
  ASSUME IInv, Safe, NEW c \in Callers
  PROVE  /\ caller[c] \in Requests /\ Relies(caller[c], c, dir)
         /\ Firm(caller[c], row, creation, dir)
         /\ caller[c].pc \notin {"idle", "admit"} =>
              /\ caller[c].r \in Digests /\ row[caller[c].r] \in Rows
              /\ Covered(row[caller[c].r], creation[caller[c].r], dir[caller[c].r])
              /\ Traced(creation[caller[c].r], dir[caller[c].r], caller[c].r, current)
<1>1. caller[c].pc \notin {"idle", "admit"} => caller[c].r \in Digests
  BY AtWork
<1> QED BY <1>1, AtWork DEF Safe

\* At other places nothing is known, so nothing is to be shown.
LEMMA ElsewhereIsFirm ==
  ASSUME NEW q, NEW rows, NEW ks, NEW xs, q.pc \notin Pending
  PROVE  Firm(q, rows, ks, xs)
BY DEF Firm

LEMMA LeavesPending ==
  ASSUME IInv, NEW c \in Callers, NEW rows,
         Return(c) \/ Reconciled(c, rows) \/ (\E p \in Places \ Pending : Move(c, p))
  PROVE  \E q : Becomes(c, q) /\ q.pc \notin Pending
<1>1. CASE Return(c)
  <2>1. Idle.pc \notin Pending
    BY DEF Idle, Pending
  <2> QED BY <1>1, <2>1 DEF Return
<1>2. CASE \E p \in Places \ Pending : Move(c, p)
  <2>1. PICK p \in Places \ Pending : Move(c, p)
    BY <1>2
  <2>2. caller[c] \in Requests
    BY AtWork
  <2>3. [caller[c] EXCEPT !.pc = p].pc = p
    BY <2>2 DEF Requests
  <2> QED BY <2>1, <2>3 DEF Move
<1>3. CASE Reconciled(c, rows) /\ ~Return(c)
  <2> DEFINE q == caller[c]
             s == [q EXCEPT !.pc = "admit", !.then = "answer", !.r = None, !.token = None]
  <2>1. Becomes(c, s)
    BY <1>3 DEF Reconciled
  <2>2. q \in Requests
    BY AtWork
  <2> HIDE DEF q
  <2>3. s.pc = "admit"
    BY <2>2 DEF Requests
  <2> QED BY <2>1, <2>3 DEF Pending
<1> QED BY <1>1, <1>2, <1>3

\* A request that leaves these places without touching row or provider.
LEMMA QuietMove ==
  ASSUME IInv, Safe, NEW c \in Callers, UNCHANGED <<row, creation, dir, current>>,
         \E q : Becomes(c, q) /\ q.pc \notin Pending
  PROVE  Safe'
<1>1. PICK q : Becomes(c, q) /\ q.pc \notin Pending
  OBVIOUS
<1>2. \A x \in Digests : /\ Settles(creation[x], dir[x], creation'[x], dir'[x])
                         /\ Traced(creation'[x], dir'[x], x, current')
  BY StillSettles
<1>3. Firm(q, row, creation', dir')
  BY <1>1, ElsewhereIsFirm
<1> QED BY <1>1, <1>2, <1>3, RequestMoves

------------------------------------------------------------------------------
(* Steps of requests.                                                          *)

LEMMA BeginSafe ==
  ASSUME IInv, Safe, NEW c \in Callers, NEW d \in Digests,
         BeginCreate(c, d) \/ BeginGet(c, d) \/ BeginClose(c, d)
  PROVE  Safe'
<1>1. UNCHANGED <<row, creation, dir, current>>
  BY DEF BeginCreate, BeginGet, BeginClose, Provider
<1>2. /\ [Idle EXCEPT !.pc = "admit", !.d = d].pc = "admit"
      /\ \A t : [Idle EXCEPT !.pc = "claim", !.r = d, !.token = t].pc = "claim"
      /\ \A p : [Idle EXCEPT !.r = d, !.pc = p].pc = p
  <2>1. \A q \in Requests : /\ [q EXCEPT !.pc = "admit", !.d = d].pc = "admit"
                            /\ \A t : [q EXCEPT !.pc = "claim", !.r = d, !.token = t].pc = "claim"
                            /\ \A p : [q EXCEPT !.r = d, !.pc = p].pc = p
    BY DEF Requests
  <2> QED BY <2>1, IdleIsRequest
<1>3. \/ Becomes(c, [Idle EXCEPT !.pc = "admit", !.d = d])
      \/ \E t : Becomes(c, [Idle EXCEPT !.pc = "claim", !.r = d, !.token = t])
      \/ \E p \in {"toClosing", "close"} : Becomes(c, [Idle EXCEPT !.r = d, !.pc = p])
  BY DEF BeginCreate, BeginGet, BeginClose
<1>4. \E q : Becomes(c, q) /\ q.pc \notin Pending
  BY <1>2, <1>3 DEF Pending
<1> QED BY <1>1, <1>4, QuietMove

LEMMA OtherwiseQuiet ==
  ASSUME IInv, Safe, NEW c \in Callers,
         Look(c) \/ CallAnswered(c) \/ CallFailed(c) \/ CallerDies(c)
  PROVE  Safe'
<1>1. UNCHANGED <<row, creation, dir, current>>
  BY DEF Look, CallAnswered, CallFailed, CallerDies, Provider
<1>2. CASE Look(c)
  <2> DEFINE q == caller[c]
             s(t) == [q EXCEPT !.pc = "claim", !.then = "admit", !.token = t]
  <2>1. Becomes(c, s(row[q.r].token))
    BY <1>2 DEF Look
  <2>2. q \in Requests
    BY AtWork
  <2> HIDE DEF q
  <2>3. \A t : s(t).pc = "claim"
    BY <2>2 DEF Requests
  <2> QED BY <1>1, <2>1, <2>3, QuietMove DEF Pending
<1>3. CASE CallAnswered(c) \/ CallFailed(c)
  <2>1. Move(c, "ready") \/ Move(c, "mismatch") \/ Move(c, "recheck")
    BY <1>3 DEF CallAnswered, CallFailed, Compare
  <2>2. {"ready", "mismatch", "recheck"} \subseteq Places \ Pending
    BY DEF Places, Pending
  <2> QED BY <1>1, <2>1, <2>2, LeavesPending, QuietMove
<1>4. CASE CallerDies(c)
  <2>1. Return(c)
    BY <1>4 DEF CallerDies
  <2> QED BY <1>1, <2>1, LeavesPending, QuietMove
<1> QED BY <1>2, <1>3, <1>4

\* A row is only created where nothing was sent.
LEMMA AdmitSafe == ASSUME IInv, Safe, NEW c \in Callers, Admit(c) PROVE Safe'
<1> DEFINE q == caller[c]
           d == q.d
           r == [NoRow EXCEPT !.status = "preparing", !.token = c]
           s1 == [q EXCEPT !.pc = "renew", !.r = d, !.token = c, !.tries = 0]
           s2(t) == [q EXCEPT !.pc = "claim", !.r = d, !.token = t, !.tries = 0]
           s3(x, n) == [q EXCEPT !.pc = "look", !.r = x, !.tries = n]
<1>1. /\ q \in Requests /\ d \in Digests
      /\ UNCHANGED <<creation, dir, current>>
  BY AtWork DEF Admit, At, Relies, Provider
<1>2. \/ row[d].status = "none" /\ row' = [row EXCEPT ![d] = r] /\ Becomes(c, s1)
      \/ UNCHANGED row /\ Becomes(c, s2(row[d].token))
      \/ UNCHANGED row /\ Return(c)
      \/ UNCHANGED row /\ \E x, n : Becomes(c, s3(x, n))
  BY DEF Admit
<1> HIDE DEF q
<1>3. /\ s1.pc = "renew" /\ s1.r = d /\ s1.token = c
      /\ \A t : s2(t).pc = "claim"
      /\ \A x, n : s3(x, n).pc = "look"
  BY <1>1 DEF Requests
<1> HIDE DEF s1, s2, s3
<1>4. CASE row[d].status = "none" /\ row' = [row EXCEPT ![d] = r] /\ Becomes(c, s1)
  <2>1. r.status = "preparing" /\ r.token = c /\ ~r.due
    BY DEF NoRow
  <2> HIDE DEF r
  <2>2. row'[d] = r /\ \A x \in Digests : x # d => row'[x] = row[x]
    BY <1>1, <1>4 DEF IInv, SessionTypeOK
  <2>3. creation[d].state = "unsent"
    BY <1>1, <1>4 DEF Safe, Covered
  <2>4. Covered(row'[d], creation[d], dir[d])
    BY <2>1, <2>2, <2>3 DEF Covered, Active
  <2>5. Firm(s1, row', creation, dir)
    BY <1>3, <2>3 DEF Firm
  <2>6. row'[d].token = c
    BY <2>1, <2>2
  <2>7. Becomes(c, s1) /\ UNCHANGED <<creation, dir, current>>
    BY <1>1, <1>4
  <2> HIDE DEF d
  <2> QED BY <1>1, <2>2, <2>4, <2>5, <2>6, <2>7, RowMoves
<1>5. CASE UNCHANGED row /\ Becomes(c, s2(row[d].token))
  BY <1>1, <1>3, <1>5, QuietMove DEF Pending
<1>6. CASE UNCHANGED row /\ Return(c)
  BY <1>1, <1>6, LeavesPending, QuietMove
<1>7. CASE UNCHANGED row /\ \E x, n : Becomes(c, s3(x, n))
  BY <1>1, <1>3, <1>7, QuietMove DEF Pending
<1> QED BY <1>2, <1>4, <1>5, <1>6, <1>7

\* The one create request for d is sent by the holder of its preparation.
LEMMA RenewSafe == ASSUME IInv, Safe, NEW c \in Callers, NEW e \in Exports, Renew(c, e) PROVE Safe'
<1> DEFINE q == caller[c]
           d == q.r
           k == [state |-> "sent", expected |-> e]
           s == [q EXCEPT !.pc = "call", !.export = e]
<1>1. /\ q \in Requests /\ d \in Digests /\ row[d] \in Rows /\ q.pc = "renew" /\ q.token = c
      /\ Firm(q, row, creation, dir) /\ Traced(creation[d], dir[d], d, current)
  BY OneRequest DEF Renew, At, Relies, Work
<1>2. UNCHANGED <<dir, current>>
  BY DEF Renew
<1>3. CASE ~Holds(c)
  <2>1. Return(c) /\ UNCHANGED <<row, creation>>
    BY <1>3 DEF Renew
  <2> QED BY <1>2, <2>1, LeavesPending, QuietMove
<1>4. CASE Holds(c)
  <2>1. /\ row' = [row EXCEPT ![d].abandoned = FALSE, ![d].due = FALSE]
        /\ creation' = [creation EXCEPT ![d] = k]
        /\ Becomes(c, s)
    BY <1>4 DEF Renew
  <2>2. row[d].status = "preparing" /\ row[d].token = c /\ creation[d].state = "unsent"
    BY <1>1, <1>4 DEF Holds, Firm, Pending
  <2> HIDE DEF q
  <2>3. s.pc = "call"
    BY <1>1 DEF Requests
  <2> HIDE DEF s
  <2>4. row'[d].status = "preparing" /\ row'[d].token = c /\ ~row'[d].due
    <3>1. row'[d] = [row[d] EXCEPT !.abandoned = FALSE, !.due = FALSE]
      BY <1>1, <2>1 DEF IInv, SessionTypeOK
    <3> QED BY <1>1, <2>2, <3>1 DEF Rows
  <2>5. creation'[d] = k /\ k.state = "sent"
    BY <1>1, <2>1 DEF IInv, SessionTypeOK
  <2>6. \A x \in Digests : x # d => row'[x] = row[x] /\ creation'[x] = creation[x]
    BY <2>1 DEF IInv, SessionTypeOK
  <2> HIDE DEF k
  <2>7. ASSUME NEW x \in Digests
        PROVE  Traced(creation'[x], dir'[x], x, current') /\ Covered(row'[x], creation'[x], dir'[x])
    <3>1. CASE x = d
      BY <1>1, <1>2, <2>2, <2>4, <2>5, <3>1 DEF Traced, Covered, Active
    <3>2. CASE x # d
      BY <1>2, <2>6, <3>2 DEF Safe
    <3> QED BY <3>1, <3>2
  <2>8. caller'[c] = s /\ \A b \in Callers : b # c => caller'[b] = caller[b]
    BY <2>1 DEF Becomes, IInv, SessionTypeOK
  <2>9. ASSUME NEW b \in Callers PROVE Firm(caller'[b], row', creation', dir')
    <3>1. CASE b = c
      BY <2>3, <2>8, <3>1, ElsewhereIsFirm DEF Pending
    <3>2. CASE b # c
      <4>1. ASSUME NEW x \in Digests, row'[x].status = "preparing", row'[x].token = b
            PROVE  /\ row[x].status = "preparing" /\ row[x].token = b
                   /\ Settles(creation[x], dir[x], creation'[x], dir'[x])
        <5>1. x # d
          BY <2>4, <3>2, <4>1
        <5>2. row'[x] = row[x] /\ creation'[x] = creation[x] /\ dir'[x] = dir[x]
          BY <1>2, <2>6, <5>1
        <5> QED BY <4>1, <5>2 DEF Settles
      <4> QED BY <2>8, <3>2, <4>1, FirmStays
    <3> QED BY <3>1, <3>2
  <2> QED BY <2>7, <2>9 DEF Safe
<1> QED BY <1>3, <1>4

\* What was not sent cannot live.
LEMMA AbortBeforeCallSafe == ASSUME IInv, Safe, NEW c \in Callers, AbortBeforeCall(c) PROVE Safe'
<1> DEFINE q == caller[c]
           s == [q EXCEPT !.pc = "fail"]
<1>1. /\ q \in Requests /\ q.r \in Digests /\ q.pc = "renew"
      /\ Firm(q, row, creation, dir) /\ Traced(creation[q.r], dir[q.r], q.r, current)
  BY OneRequest DEF AbortBeforeCall, At
<1>2. UNCHANGED <<row, creation, dir, current>> /\ Becomes(c, s)
  BY DEF AbortBeforeCall, Move, Provider
<1> HIDE DEF q
<1>3. s.pc = "fail" /\ s.r = q.r /\ s.token = q.token
  BY <1>1 DEF Requests
<1> HIDE DEF s
<1>4. Firm(s, row, creation, dir)
  BY <1>1, <1>3 DEF Firm, Pending, Traced, Gone
<1>5. \A x \in Digests : /\ Settles(creation[x], dir[x], creation'[x], dir'[x])
                         /\ Traced(creation'[x], dir'[x], x, current')
  BY <1>2, StillSettles
<1>6. Firm(s, row, creation', dir')
  BY <1>2, <1>4
<1> QED BY <1>2, <1>5, <1>6, RequestMoves

\* Only what is due is claimed, and what is due is not on its way.
LEMMA ClaimSafe == ASSUME IInv, Safe, NEW c \in Callers, Claim(c) PROVE Safe'
<1> DEFINE q == caller[c]
           d == q.r
           s == [q EXCEPT !.pc = "current", !.token = c]
<1>1. /\ q \in Requests /\ d \in Digests /\ row[d] \in Rows
      /\ Covered(row[d], creation[d], dir[d])
      /\ UNCHANGED <<creation, dir, current>>
  BY OneRequest DEF Claim, At, Provider
<1>2. CASE ~(Holds(c) /\ row[d].due)
  <2>1. Reconciled(c, row) /\ UNCHANGED row
    BY <1>2 DEF Claim
  <2> QED BY <1>1, <2>1, LeavesPending, QuietMove
<1>3. CASE Holds(c) /\ row[d].due
  <2>1. /\ row' = [row EXCEPT ![d].token = c, ![d].abandoned = FALSE, ![d].due = FALSE]
        /\ Becomes(c, s)
    BY <1>3 DEF Claim
  <2>2. row[d].status = "preparing" /\ row[d].due
    BY <1>3 DEF Holds
  <2>3. creation[d].state # "sent"
    BY <1>1, <2>2 DEF Covered
  <2> HIDE DEF q
  <2>4. s.pc = "current" /\ s.r = d /\ s.token = c
    BY <1>1 DEF Requests
  <2> HIDE DEF s
  <2>5. row'[d].status = "preparing" /\ row'[d].token = c /\ ~row'[d].due
    <3>1. row'[d] = [row[d] EXCEPT !.token = c, !.abandoned = FALSE, !.due = FALSE]
      BY <1>1, <2>1 DEF IInv, SessionTypeOK
    <3> QED BY <1>1, <2>2, <3>1 DEF Rows
  <2>6. \A x \in Digests : x # d => row'[x] = row[x]
    BY <2>1 DEF IInv, SessionTypeOK
  <2>7. Covered(row'[d], creation[d], dir[d])
    BY <2>5 DEF Covered, Active
  <2>8. Firm(s, row', creation, dir)
    BY <2>3, <2>4 DEF Firm
  <2>9. Becomes(c, s) /\ UNCHANGED <<creation, dir, current>> /\ d \in Digests
    BY <1>1, <2>1
  <2> HIDE DEF d
  <2> QED BY <2>5, <2>6, <2>7, <2>8, <2>9, RowMoves
<1> QED BY <1>2, <1>3

\* The request c goes on elsewhere and writes s to the row of d.
LEMMA RowLeaves ==
  ASSUME IInv, Safe, NEW c \in Callers, NEW d \in Digests, NEW s, row' = [row EXCEPT ![d] = s],
         UNCHANGED <<creation, dir, current>>, Covered(s, creation[d], dir[d]),
         s.status = "preparing" => row[d].status = "preparing" /\ row[d].token = s.token,
         \E q : Becomes(c, q) /\ q.pc \notin Pending
  PROVE  Safe'
<1>1. row'[d] = s /\ \A x \in Digests : x # d => row'[x] = row[x]
  BY DEF IInv, SessionTypeOK
<1>2. PICK q : Becomes(c, q) /\ q.pc \notin Pending
  OBVIOUS
<1>3. Firm(q, row', creation, dir)
  BY <1>2, ElsewhereIsFirm
<1>4. Covered(row'[d], creation[d], dir[d])
  BY <1>1
<1>5. row'[d].status = "preparing" /\ row'[d].token # c =>
        row[d].status = "preparing" /\ row[d].token = row'[d].token
  BY <1>1
<1> QED BY <1>1, <1>2, <1>3, <1>4, <1>5, RowMoves

\* A preparation is made ready, or given up by whoever knows that it is gone.
LEMMA SettleSafe ==
  ASSUME IInv, Safe, NEW c \in Callers, MakeReady(c) \/ MakeFailed(c)
  PROVE  Safe'
<1> DEFINE q == caller[c]
           d == q.r
           r == [NoRow EXCEPT !.status = "ready", !.export = q.export]
           f == [NoRow EXCEPT !.status = "failed"]
           s == [q EXCEPT !.tries = 2]
<1>1. /\ q \in Requests /\ d \in Digests /\ q.pc \in {"ready", "fail"}
      /\ Firm(q, row, creation, dir) /\ Covered(row[d], creation[d], dir[d])
      /\ UNCHANGED <<creation, dir, current>>
  BY OneRequest DEF MakeReady, MakeFailed, At, Provider
<1>2. r.status = "ready" /\ f.status = "failed"
  BY DEF NoRow
<1>3. \/ UNCHANGED row /\ \E rows : Reconciled(c, rows)
      \/ UNCHANGED row /\ Move(c, "abandon")
      \/ UNCHANGED row /\ Becomes(c, s)
      \/ row' = [row EXCEPT ![d] = r] /\ \E rows : Reconciled(c, rows)
      \/ /\ q.pc = "fail" /\ Holds(c)
         /\ row' = [row EXCEPT ![d] = f] /\ \E rows : Reconciled(c, rows)
  BY DEF MakeReady, MakeFailed, At
<1>4. Holds(c) => row[d].status = "preparing" /\ row[d].token = q.token
  BY DEF Holds
<1> HIDE DEF q, r, f
<1>5. CASE UNCHANGED row /\ \E rows : Reconciled(c, rows)
  BY <1>1, <1>5, LeavesPending, QuietMove
<1>6. CASE UNCHANGED row /\ Move(c, "abandon")
  <2>1. "abandon" \in Places \ Pending
    BY DEF Places, Pending
  <2> QED BY <1>1, <1>6, <2>1, LeavesPending, QuietMove
<1>7. CASE UNCHANGED row /\ Becomes(c, s)
  <2>1. s.pc = q.pc /\ s.r = q.r /\ s.token = q.token
    BY <1>1 DEF Requests
  <2> HIDE DEF s
  <2>2. Firm(s, row, creation', dir')
    BY <1>1, <2>1 DEF Firm
  <2>3. \A x \in Digests : /\ Settles(creation[x], dir[x], creation'[x], dir'[x])
                           /\ Traced(creation'[x], dir'[x], x, current')
    BY <1>1, StillSettles
  <2> QED BY <1>7, <2>2, <2>3, RequestMoves
<1>8. CASE row' = [row EXCEPT ![d] = r] /\ \E rows : Reconciled(c, rows)
  <2>1. Covered(r, creation[d], dir[d])
    BY <1>2 DEF Covered, Active
  <2>2. \E t : Becomes(c, t) /\ t.pc \notin Pending
    BY <1>8, LeavesPending
  <2> HIDE DEF d
  <2> QED BY <1>1, <1>2, <1>8, <2>1, <2>2, RowLeaves
<1>9. CASE /\ q.pc = "fail" /\ Holds(c)
           /\ row' = [row EXCEPT ![d] = f] /\ \E rows : Reconciled(c, rows)
  <2>1. Gone(creation[d], dir[d])
    BY <1>1, <1>4, <1>9 DEF Firm, Pending
  <2>2. Covered(f, creation[d], dir[d])
    BY <1>2, <2>1 DEF Covered
  <2>3. \E t : Becomes(c, t) /\ t.pc \notin Pending
    BY <1>9, LeavesPending
  <2> HIDE DEF d
  <2> QED BY <1>1, <1>2, <1>9, <2>2, <2>3, RowLeaves
<1> QED BY <1>3, <1>5, <1>6, <1>7, <1>8, <1>9

LEMMA AbandonSafe == ASSUME IInv, Safe, NEW c \in Callers, Abandon(c) PROVE Safe'
<1> DEFINE d == caller[c].r
           r == [row[d] EXCEPT !.abandoned = TRUE]
<1>1. /\ d \in Digests /\ row[d] \in Rows /\ Covered(row[d], creation[d], dir[d])
      /\ UNCHANGED <<creation, dir, current>>
  BY OneRequest DEF Abandon, At, Provider
<1>2. row' = row \/ row' = [row EXCEPT ![d] = r]
  BY DEF Abandon
<1>3. \E t : Becomes(c, t) /\ t.pc \notin Pending
  BY LeavesPending DEF Abandon
<1>4. r.status = row[d].status /\ r.token = row[d].token /\ r.due = row[d].due
  BY <1>1 DEF Rows
<1> HIDE DEF d, r
<1>5. Covered(r, creation[d], dir[d])
  BY <1>1, <1>4 DEF Covered
<1>6. CASE row' = row
  BY <1>1, <1>3, <1>6, QuietMove
<1>7. CASE row' = [row EXCEPT ![d] = r]
  BY <1>1, <1>3, <1>4, <1>5, <1>7, RowLeaves
<1> QED BY <1>2, <1>6, <1>7

\* A session turns closing, and back when it is busy.
LEMMA ToClosingSafe ==
  ASSUME IInv, Safe, NEW c \in Callers, ToClosing(c) \/ Reopen(c)
  PROVE  Safe'
<1> DEFINE d == caller[c].r
           r(s) == [row[d] EXCEPT !.status = s]
<1>1. /\ d \in Digests /\ row[d] \in Rows /\ UNCHANGED <<creation, dir, current>>
  BY OneRequest DEF ToClosing, Reopen, At, Provider
<1>2. \E t : Becomes(c, t) /\ t.pc \notin Pending
  <2>1. "close" \in Places \ Pending
    BY DEF Places, Pending
  <2>2. Move(c, "close") \/ Return(c)
    BY DEF ToClosing, Reopen
  <2> QED BY <2>1, <2>2, LeavesPending
<1>3. row' = row \/ \E s \in {"ready", "closing"} : row' = [row EXCEPT ![d] = r(s)]
  BY DEF ToClosing, Reopen
<1>4. \A s : r(s).status = s
  BY <1>1 DEF Rows
<1> HIDE DEF d, r
<1>5. CASE row' = row
  BY <1>1, <1>2, <1>5, QuietMove
<1>6. ASSUME NEW s \in {"ready", "closing"}, row' = [row EXCEPT ![d] = r(s)]
      PROVE  Safe'
  <2>1. Covered(r(s), creation[d], dir[d]) /\ r(s).status # "preparing"
    BY <1>4 DEF Covered, Active
  <2> QED BY <1>1, <1>2, <1>6, <2>1, RowLeaves
<1> QED BY <1>3, <1>5, <1>6

\* A row turns closed only once its directory is.
LEMMA ConvergeSafe == ASSUME IInv, Safe, NEW c \in Callers, Converge(c) PROVE Safe'
<1> DEFINE q == caller[c]
           d == q.r
           r(s) == [row[d] EXCEPT !.status = s]
           t(n, s) == [q EXCEPT !.tries = n, !.seen = s]
<1>1. /\ q \in Requests /\ d \in Digests /\ row[d] \in Rows /\ q.pc = "converge"
      /\ dir[d].manifest = "closed" /\ Traced(creation[d], dir[d], d, current)
      /\ UNCHANGED <<creation, dir, current>>
  BY OneRequest DEF Converge, At, Provider, Relies
<1>2. \/ Return(c) /\ UNCHANGED row
      \/ /\ row' = row \/ \E s \in {"closing", "closed"} : row' = [row EXCEPT ![d] = r(s)]
         /\ \E n, s : Becomes(c, t(n, s))
  BY DEF Converge
<1> HIDE DEF q
<1>3. \A n, s : t(n, s).pc = "converge"
  BY <1>1 DEF Requests
<1>4. \A s : r(s).status = s
  BY <1>1 DEF Rows
<1> HIDE DEF r, t
<1>5. \E u : Becomes(c, u) /\ u.pc \notin Pending
  <2>1. CASE Return(c)
    BY <2>1, LeavesPending
  <2>2. CASE \E n, s : Becomes(c, t(n, s))
    BY <1>3, <2>2 DEF Pending
  <2> QED BY <1>2, <2>1, <2>2
<1>6. CASE row' = row
  BY <1>1, <1>5, <1>6, QuietMove
<1>7. ASSUME NEW s \in {"closing", "closed"}, row' = [row EXCEPT ![d] = r(s)]
      PROVE  Safe'
  <2>1. Gone(creation[d], dir[d])
    BY <1>1 DEF Traced, Gone
  <2>2. Covered(r(s), creation[d], dir[d]) /\ r(s).status # "preparing"
    BY <1>4, <2>1 DEF Covered
  <2> HIDE DEF d
  <2> QED BY <1>1, <1>5, <1>7, <2>2, RowLeaves
<1> QED BY <1>2, <1>6, <1>7

\* The request c goes on elsewhere while the provider moves.
LEMMA PassesOn ==
  ASSUME IInv, Safe, NEW c \in Callers, UNCHANGED row,
         \E q : Becomes(c, q) /\ q.pc \notin Pending,
         \A x \in Digests : /\ Settles(creation[x], dir[x], creation'[x], dir'[x])
                            /\ Traced(creation'[x], dir'[x], x, current')
  PROVE  Safe'
<1>1. PICK q : Becomes(c, q) /\ q.pc \notin Pending
  OBVIOUS
<1>2. Firm(q, row, creation', dir')
  BY <1>1, ElsewhereIsFirm
<1> QED BY <1>1, <1>2, RequestMoves

\* While nobody has the lock, what is whole is what the pointer shows.
LEMMA NothingElseLives ==
  ASSUME IInv, Safe, lock = None, NEW x \in Digests
  PROVE  /\ creation[x].state \notin {"serving", "renamed"}
         /\ dir[x].manifest = "ready" => current # None /\ current.d = x /\ Live = x
<1>1. creation[x].state \notin {"serving", "renamed"}
  BY SessionAssumption DEF IInv, Served
<1>2. dir[x].manifest = "ready" => current # None /\ current.d = x
  BY DEF Safe, Traced
<1> QED BY <1>1, <1>2 DEF Live

LEMMA Reading ==
  ASSUME IInv, Safe, ReadCurrent, UNCHANGED <<creation, dir>>
  PROVE  \A x \in Digests : /\ Settles(creation[x], dir[x], creation'[x], dir'[x])
                            /\ Traced(creation'[x], dir'[x], x, current')
<1> SUFFICES ASSUME NEW x \in Digests
             PROVE  /\ Settles(creation[x], dir[x], creation'[x], dir'[x])
                    /\ Traced(creation'[x], dir'[x], x, current')
  OBVIOUS
<1>1. lock = None /\ (Live # None => current' = current)
  BY DEF ReadCurrent
<1>2. /\ Traced(creation[x], dir[x], x, current)
      /\ creation[x].state \notin {"serving", "renamed"}
      /\ dir[x].manifest = "ready" => current' = current
  BY <1>1, NothingElseLives, SessionAssumption DEF Safe
<1> QED BY <1>2 DEF Settles, Traced

\* Who asks the provider and hears of no session knows that its own is gone.
LEMMA CurrentSafe == ASSUME IInv, Safe, NEW c \in Callers, Current(c) PROVE Safe'
<1> DEFINE q == caller[c]
           d == q.r
           f == [q EXCEPT !.pc = "fail"]
           s(e) == [q EXCEPT !.pc = "ready", !.export = e]
<1>1. /\ q \in Requests /\ d \in Digests /\ q.pc = "current" /\ Firm(q, row, creation, dir)
      /\ UNCHANGED <<row, creation, dir>>
  BY OneRequest DEF Current, At
<1>2. \A p \in {"abandon", "mismatch"} : p \in Places \ Pending
  BY DEF Places, Pending
<1>3. \/ ReadCurrent /\ Live = None /\ Becomes(c, f)
      \/ ReadCurrent /\ \E e : Becomes(c, s(e))
      \/ ReadCurrent /\ \E p \in {"abandon", "mismatch"} : Move(c, p)
      \/ UNCHANGED current /\ Move(c, "abandon")
  BY DEF Current, Move
<1> HIDE DEF q
<1>4. CASE ReadCurrent /\ Live = None /\ Becomes(c, f)
  <2>1. f.pc = "fail" /\ f.r = d /\ f.token = q.token
    BY <1>1 DEF Requests
  <2>2. creation[d].state # "serving" /\ dir[d].manifest # "ready"
    BY <1>1, <1>4, NothingElseLives, SessionAssumption DEF ReadCurrent
  <2>3. row[d].status = "preparing" /\ row[d].token = q.token => creation[d].state # "sent"
    BY <1>1 DEF Firm, Pending
  <2> HIDE DEF f
  <2>4. Firm(f, row, creation', dir')
    BY <1>1, <2>1, <2>2, <2>3 DEF Firm, Gone
  <2> QED BY <1>1, <1>4, <2>4, Reading, RequestMoves
<1>5. CASE ReadCurrent /\ \E e : Becomes(c, s(e))
  <2>1. \A e : s(e).pc = "ready"
    BY <1>1 DEF Requests
  <2>2. \E t : Becomes(c, t) /\ t.pc \notin Pending
    BY <1>5, <2>1 DEF Pending
  <2> QED BY <1>1, <1>5, <2>2, Reading, PassesOn
<1>6. CASE ReadCurrent /\ \E p \in {"abandon", "mismatch"} : Move(c, p)
  <2>1. \E t : Becomes(c, t) /\ t.pc \notin Pending
    BY <1>2, <1>6, LeavesPending
  <2> QED BY <1>1, <1>6, <2>1, Reading, PassesOn
<1>7. CASE UNCHANGED current /\ Move(c, "abandon")
  BY <1>1, <1>2, <1>7, LeavesPending, QuietMove
<1> QED BY <1>3, <1>4, <1>5, <1>6, <1>7

LEMMA RecheckSafe == ASSUME IInv, Safe, NEW c \in Callers, Recheck(c) PROVE Safe'
<1>1. \E q : Becomes(c, q) /\ q.pc \notin Pending
  <2>1. {"ready", "mismatch", "abandon"} \subseteq Places \ Pending
    BY DEF Places, Pending
  <2>2. \E p \in {"ready", "mismatch", "abandon"} : Move(c, p)
    BY DEF Recheck, Compare
  <2> QED BY <2>1, <2>2, LeavesPending
<1>2. UNCHANGED <<row, creation, dir>> /\ (ReadCurrent \/ UNCHANGED current)
  BY DEF Recheck
<1>3. CASE ReadCurrent
  BY <1>1, <1>2, <1>3, Reading, PassesOn
<1>4. CASE UNCHANGED current
  BY <1>1, <1>2, <1>4, QuietMove
<1> QED BY <1>2, <1>3, <1>4

------------------------------------------------------------------------------
(* The provider's close.                                                       *)

LEMMA DirectoryManifest ==
  ASSUME IInv, NEW d \in Digests, NEW m, dir' = [dir EXCEPT ![d].manifest = m]
  PROVE  dir'[d].manifest = m /\ \A x \in Digests : x # d => dir'[x] = dir[x]
<1>1. dir'[d] = [dir[d] EXCEPT !.manifest = m] /\ dir[d] \in Directories
  BY DEF IInv, SessionTypeOK
<1>2. dir'[d].manifest = m
  BY <1>1 DEF Directories
<1> QED BY <1>2 DEF IInv, SessionTypeOK

LEMMA Closing ==
  ASSUME IInv, Safe, NEW d \in Digests, Closable(d), UNCHANGED creation,
         dir' = [dir EXCEPT ![d].manifest = "closed"],
         current' = current \/ (current # None /\ current.d = d)
  PROVE  /\ \A x \in Digests : /\ Settles(creation[x], dir[x], creation'[x], dir'[x])
                               /\ Traced(creation'[x], dir'[x], x, current')
         /\ Gone(creation'[d], dir'[d])
<1>1. /\ lock = None /\ dir[d].manifest \in {"ready", "closed"}
      /\ dir'[d].manifest = "closed" /\ \A x \in Digests : x # d => dir'[x] = dir[x]
  BY DirectoryManifest DEF Closable
<1>2. creation[d].state \in {"ok", "error"}
  BY <1>1, NothingElseLives DEF Safe, Traced
<1>3. Gone(creation'[d], dir'[d])
  BY <1>1, <1>2 DEF Gone
<1>4. ASSUME NEW x \in Digests
      PROVE  /\ Settles(creation[x], dir[x], creation'[x], dir'[x])
             /\ Traced(creation'[x], dir'[x], x, current')
  <2>1. CASE x = d
    BY <1>1, <1>2, <1>3, <2>1 DEF Settles, Traced
  <2>2. CASE x # d
    <3>1. Traced(creation[x], dir[x], x, current) /\ creation[x].state \notin {"serving", "renamed"}
      BY <1>1, NothingElseLives DEF Safe
    <3>2. dir[x].manifest = "ready" => current' = current
      BY <2>2, <3>1 DEF Traced
    <3> QED BY <1>1, <2>2, <3>1, <3>2 DEF Settles, Traced
  <2> QED BY <2>1, <2>2
<1> QED BY <1>3, <1>4

LEMMA CloseRequestSettles ==
  ASSUME IInv, Safe, NEW c \in Callers, NEW d \in Digests, NEW ok, NEW busy, NEW lost,
         RequestClose(c, d, ok, busy, lost)
  PROVE  /\ \A x \in Digests : /\ Settles(creation[x], dir[x], creation'[x], dir'[x])
                               /\ Traced(creation'[x], dir'[x], x, current')
         /\ (ok /\ Gone(creation'[d], dir'[d])) \/ busy \/ lost
<1>1. \/ UNCHANGED <<creation, dir, current>> /\ (busy \/ lost)
      \/ /\ Closable(d) /\ UNCHANGED creation /\ dir' = [dir EXCEPT ![d].manifest = "closed"]
         /\ current' = current \/ (current # None /\ current.d = d)
         /\ ok \/ busy \/ lost
  BY DEF RequestClose, CloseDirectory, CloseAndDie
<1>2. CASE UNCHANGED <<creation, dir, current>> /\ (busy \/ lost)
  BY <1>2, StillSettles
<1>3. CASE /\ Closable(d) /\ UNCHANGED creation /\ dir' = [dir EXCEPT ![d].manifest = "closed"]
           /\ current' = current \/ (current # None /\ current.d = d)
           /\ ok \/ busy \/ lost
  BY <1>3, Closing
<1> QED BY <1>1, <1>2, <1>3

\* A mismatched session is given up once it is closed.
LEMMA CloseMismatchSafe == ASSUME IInv, Safe, NEW c \in Callers, CloseMismatch(c) PROVE Safe'
<1> DEFINE q == caller[c]
           d == q.r
           f == [q EXCEPT !.pc = "fail"]
<1>1. q \in Requests /\ d \in Digests /\ UNCHANGED row
  BY OneRequest DEF CloseMismatch, At
<1>2. RequestClose(c, d, Becomes(c, f), Move(c, "abandon"), Move(c, "abandon"))
  BY DEF CloseMismatch, Move
<1> HIDE DEF q
<1>3. f.pc = "fail" /\ f.r = d
  BY <1>1 DEF Requests
<1> HIDE DEF d, f
<1>4. /\ \A x \in Digests : /\ Settles(creation[x], dir[x], creation'[x], dir'[x])
                            /\ Traced(creation'[x], dir'[x], x, current')
      /\ (Becomes(c, f) /\ Gone(creation'[d], dir'[d])) \/ Move(c, "abandon")
  BY <1>1, <1>2, CloseRequestSettles
<1>5. CASE Becomes(c, f) /\ Gone(creation'[d], dir'[d])
  <2>1. Firm(f, row, creation', dir')
    BY <1>3, <1>5 DEF Firm
  <2> QED BY <1>1, <1>4, <1>5, <2>1, RequestMoves
<1>6. CASE Move(c, "abandon")
  <2>1. "abandon" \in Places \ Pending
    BY DEF Places, Pending
  <2> QED BY <1>1, <1>4, <1>6, <2>1, LeavesPending, PassesOn
<1> QED BY <1>4, <1>5, <1>6

LEMMA CloseProviderSafe == ASSUME IInv, Safe, NEW c \in Callers, CloseProvider(c) PROVE Safe'
<1> DEFINE q == caller[c]
           d == q.r
           t == [q EXCEPT !.pc = "converge", !.tries = 0, !.seen = row[d].status]
<1>1. q \in Requests /\ d \in Digests /\ UNCHANGED row
  BY OneRequest DEF CloseProvider, At
<1>2. RequestClose(c, d, Becomes(c, t), Move(c, "reopen"), Return(c))
  BY DEF CloseProvider
<1> HIDE DEF q
<1>3. t.pc = "converge"
  BY <1>1 DEF Requests
<1> HIDE DEF d, t
<1>4. /\ \A x \in Digests : /\ Settles(creation[x], dir[x], creation'[x], dir'[x])
                            /\ Traced(creation'[x], dir'[x], x, current')
      /\ Becomes(c, t) \/ Move(c, "reopen") \/ Return(c)
  BY <1>1, <1>2, CloseRequestSettles
<1>5. "reopen" \in Places \ Pending
  BY DEF Places, Pending
<1>6. \E u : Becomes(c, u) /\ u.pc \notin Pending
  <2>1. CASE Becomes(c, t)
    BY <1>3, <2>1 DEF Pending
  <2>2. CASE Move(c, "reopen") \/ Return(c)
    BY <1>5, <2>2, LeavesPending
  <2> QED BY <1>4, <2>1, <2>2
<1> QED BY <1>1, <1>4, <1>6, PassesOn

------------------------------------------------------------------------------
(* Steps of the provider.                                                      *)

LEMMA CreationState ==
  ASSUME IInv, NEW d \in Digests, NEW s,
         \/ creation' = [creation EXCEPT ![d] = Sent(s)]
         \/ creation' = [creation EXCEPT ![d].state = s]
  PROVE  creation'[d].state = s /\ \A x \in Digests : x # d => creation'[x] = creation[x]
<1>1. creation'[d] = Sent(s) \/ creation'[d] = [creation[d] EXCEPT !.state = s]
  BY DEF IInv, SessionTypeOK
<1>2. creation[d] \in Creations
  BY DEF IInv, SessionTypeOK
<1>3. Sent(s).state = s /\ [creation[d] EXCEPT !.state = s].state = s
  BY <1>2 DEF Sent, Creations
<1> QED BY <1>1, <1>3 DEF IInv, SessionTypeOK

\* A step of one creation: what it must show of the others.
LEMMA OneCreates ==
  ASSUME IInv, Safe, NEW d \in Digests, UNCHANGED <<row, caller>>,
         \A x \in Digests : x # d => creation'[x] = creation[x] /\ dir'[x] = dir[x],
         Settles(creation[d], dir[d], creation'[d], dir'[d]),
         Traced(creation'[d], dir'[d], d, current'),
         \/ current' = current
         \/ \A x \in Digests : x # d => /\ creation[x].state \notin {"serving", "renamed"}
                                        /\ dir[x].manifest # "ready"
  PROVE  Safe'
<1>1. ASSUME NEW x \in Digests
      PROVE  /\ Settles(creation[x], dir[x], creation'[x], dir'[x])
             /\ Traced(creation'[x], dir'[x], x, current')
  <2>1. CASE x = d
    BY <2>1
  <2>2. CASE x # d
    BY <2>2 DEF Safe, Traced, Settles
  <2> QED BY <2>1, <2>2
<1> QED BY <1>1, ProviderMoves

\* The pointer shows the creation under way: there is no other session.
LEMMA OneUnderWay ==
  ASSUME IInv, Safe, NEW d \in Digests, creation[d].state \in {"serving", "renamed"}
  PROVE  /\ current # None /\ current.d = d
         /\ \A x \in Digests : x # d => /\ creation[x].state \notin {"serving", "renamed"}
                                        /\ dir[x].manifest # "ready"
BY DEF Safe, Traced

\* A pointer names its session; None is no pointer.
LEMMA PointerNames ==
  ASSUME NEW d \in Digests, NEW b \in BOOLEAN, current' = [d |-> d, partial |-> b]
  PROVE  current' # None /\ current'.d = d
BY SessionAssumption

LEMMA StartCreateSafe == ASSUME IInv, Safe, NEW d \in Digests, StartCreate(d) PROVE Safe'
<1>1. /\ creation[d].state = "sent" /\ UNCHANGED <<row, caller>> /\ Traced(creation[d], dir[d], d, current)
      /\ \A x \in Digests : /\ creation[x].state \notin {"serving", "renamed"}
                            /\ dir[x].manifest = "ready" => Live # None
  BY NothingElseLives, SessionAssumption DEF StartCreate, Safe
<1>2. dir[d].manifest \notin {"ready", "closed"}
  BY <1>1 DEF Traced
<1>3. CASE /\ creation' = [creation EXCEPT ![d] = Sent("error")]
           /\ current' = (IF Live = None THEN None ELSE current) /\ UNCHANGED dir
  <2>1. creation'[d].state = "error" /\ \A x \in Digests : x # d => creation'[x] = creation[x]
    BY <1>3, CreationState
  <2>2. /\ Settles(creation[d], dir[d], creation'[d], dir'[d])
        /\ Traced(creation'[d], dir'[d], d, current')
    BY <1>1, <1>2, <1>3, <2>1 DEF Settles, Traced, Gone
  <2> QED BY <1>1, <1>3, <2>1, <2>2, OneCreates
<1>4. CASE /\ Live = None
           /\ creation' = [creation EXCEPT ![d].state = "serving"]
           /\ dir' = [dir EXCEPT ![d].manifest = "partial"]
           /\ current' = [d |-> d, partial |-> TRUE]
  <2>1. /\ creation'[d].state = "serving" /\ dir'[d].manifest = "partial"
        /\ \A x \in Digests : x # d => creation'[x] = creation[x] /\ dir'[x] = dir[x]
    BY <1>4, CreationState, DirectoryManifest
  <2>2. current' # None /\ current'.d = d
    BY <1>4, PointerNames
  <2>3. /\ Settles(creation[d], dir[d], creation'[d], dir'[d])
        /\ Traced(creation'[d], dir'[d], d, current')
    BY <1>1, <2>1, <2>2 DEF Settles, Traced, Gone
  <2> QED BY <1>1, <1>4, <2>1, <2>3, OneCreates
<1> QED BY <1>2, <1>3, <1>4 DEF StartCreate

LEMMA MaterializeSafe ==
  ASSUME IInv, Safe, NEW d \in Digests, Materialize(d) \/ MaterializeFails(d)
  PROVE  Safe'
<1>1. /\ creation[d].state = "serving" /\ UNCHANGED <<row, caller>>
      /\ current # None /\ current.d = d
      /\ \A x \in Digests : x # d => /\ creation[x].state \notin {"serving", "renamed"}
                                     /\ dir[x].manifest # "ready"
  BY OneUnderWay DEF Materialize, MaterializeFails
<1>2. CASE Materialize(d)
  <2>1. creation'[d].state = "renamed" /\ \A x \in Digests : x # d => creation'[x] = creation[x]
    BY <1>2, CreationState DEF Materialize
  <2>2. \A x \in Digests : x # d => dir'[x] = dir[x]
    BY <1>2 DEF Materialize, IInv, SessionTypeOK
  <2>3. current' = current
    BY <1>2 DEF Materialize
  <2>4. /\ Settles(creation[d], dir[d], creation'[d], dir'[d])
        /\ Traced(creation'[d], dir'[d], d, current')
    BY <1>1, <2>1, <2>3 DEF Settles, Traced, Gone
  <2> QED BY <1>1, <2>1, <2>2, <2>4, OneCreates
<1>3. CASE MaterializeFails(d)
  <2>1. creation'[d].state = "error" /\ \A x \in Digests : x # d => creation'[x] = creation[x]
    BY <1>3, CreationState DEF MaterializeFails
  <2>2. dir'[d].manifest = "none" /\ \A x \in Digests : x # d => dir'[x] = dir[x]
    BY <1>3, DirectoryManifest DEF MaterializeFails
  <2>3. /\ Settles(creation[d], dir[d], creation'[d], dir'[d])
        /\ Traced(creation'[d], dir'[d], d, current')
    BY <1>1, <2>1, <2>2 DEF Settles, Traced, Gone
  <2> QED BY <1>1, <2>1, <2>2, <2>3, OneCreates
<1> QED BY <1>2, <1>3

LEMMA FinishCreateSafe == ASSUME IInv, Safe, NEW d \in Digests, FinishCreate(d) PROVE Safe'
<1>1. /\ creation[d].state = "renamed" /\ UNCHANGED <<row, caller, dir>>
      /\ \A x \in Digests : x # d => /\ creation[x].state \notin {"serving", "renamed"}
                                     /\ dir[x].manifest # "ready"
  BY OneUnderWay DEF FinishCreate
<1>2. /\ creation'[d].state \in {"ok", "error"}
      /\ \A x \in Digests : x # d => creation'[x] = creation[x]
  <2>1. \E s \in {"ok", "error"} : \/ creation' = [creation EXCEPT ![d] = Sent(s)]
                                   \/ creation' = [creation EXCEPT ![d].state = s]
    BY DEF FinishCreate
  <2> QED BY <2>1, CreationState
<1>3. current' # None /\ current'.d = d
  BY PointerNames DEF FinishCreate
<1>4. /\ Settles(creation[d], dir[d], creation'[d], dir'[d])
      /\ Traced(creation'[d], dir'[d], d, current')
  BY <1>1, <1>2, <1>3 DEF Settles, Traced, Gone
<1> QED BY <1>1, <1>2, <1>4, OneCreates

LEMMA LoseCreateSafe == ASSUME IInv, Safe, NEW d \in Digests, LoseCreate(d) PROVE Safe'
<1>1. creation[d].state = "sent" /\ UNCHANGED <<row, caller, dir, current>>
  BY DEF LoseCreate
<1>2. creation'[d].state = "error" /\ \A x \in Digests : x # d => creation'[x] = creation[x]
  BY CreationState DEF LoseCreate
<1>3. /\ Settles(creation[d], dir[d], creation'[d], dir'[d])
      /\ Traced(creation'[d], dir'[d], d, current')
  BY <1>1, <1>2 DEF Settles, Traced, Gone, Safe
<1> QED BY <1>1, <1>2, <1>3, OneCreates

LEMMA LateCloseSafe == ASSUME IInv, Safe, NEW d \in Digests, LateClose(d) PROVE Safe'
<1>1. UNCHANGED <<row, caller, creation>>
  BY DEF LateClose
<1>2. \/ UNCHANGED <<dir, current>>
      \/ /\ Closable(d) /\ dir' = [dir EXCEPT ![d].manifest = "closed"]
         /\ current' = current \/ (current # None /\ current.d = d)
  BY DEF LateClose, CloseDirectory
<1>3. CASE UNCHANGED <<dir, current>>
  BY <1>1, <1>3, StillSettles, ProviderMoves
<1>4. CASE /\ Closable(d) /\ dir' = [dir EXCEPT ![d].manifest = "closed"]
           /\ current' = current \/ (current # None /\ current.d = d)
  BY <1>1, <1>4, Closing, ProviderMoves
<1> QED BY <1>2, <1>3, <1>4

LEMMA CrashSafe == ASSUME IInv, Safe, Crash PROVE Safe'
<1>1. UNCHANGED <<row, caller, dir, current>>
  BY DEF Crash
<1>2. ASSUME NEW x \in Digests
      PROVE  /\ Settles(creation[x], dir[x], creation'[x], dir'[x])
             /\ Traced(creation'[x], dir'[x], x, current')
  <2>1. creation'[x] = IF creation[x].state \in {"sent", "serving", "renamed"}
                       THEN Sent("error") ELSE creation[x]
    BY DEF Crash
  <2>2. Traced(creation[x], dir[x], x, current)
    BY DEF Safe
  <2>3. CASE creation[x].state \in {"sent", "serving", "renamed"}
    <3>1. creation'[x].state = "error"
      BY <2>1, <2>3, SentIsCreation
    <3> QED BY <1>1, <2>2, <2>3, <3>1 DEF Settles, Traced, Gone
  <2>4. CASE creation[x].state \notin {"sent", "serving", "renamed"}
    <3>1. creation'[x] = creation[x]
      BY <2>1, <2>4
    <3> QED BY <1>1, <2>2, <3>1 DEF Settles
  <2> QED BY <2>3, <2>4
<1> QED BY <1>1, <1>2, ProviderMoves

\* A provider that comes back keeps the whole session its pointer shows.
LEMMA RestartSafe == ASSUME IInv, Safe, Restart PROVE Safe'
<1>1. UNCHANGED <<row, caller, creation>> /\ ~up
  BY DEF Restart
<1>2. CASE current = None
  <2>1. UNCHANGED <<dir, current>>
    BY <1>2 DEF Restart
  <2> QED BY <1>1, <2>1, StillSettles, ProviderMoves
<1>3. CASE current # None
  <2> DEFINE d == current.d
  <2>1. d \in Digests
    BY <1>3 DEF IInv, SessionTypeOK
  <2>2. /\ current' = (IF dir[d].manifest = "ready" THEN [d |-> d, partial |-> FALSE] ELSE None)
        /\ dir' = IF dir[d].manifest = "partial"
                  THEN [dir EXCEPT ![d].manifest = "none"] ELSE dir
    BY <1>3 DEF Restart
  <2> HIDE DEF d
  <2>3. /\ dir'[d].manifest # "ready" \/ dir'[d] = dir[d]
        /\ dir'[d].manifest \in {"ready", "closed"} => dir'[d] = dir[d]
        /\ \A x \in Digests : x # d => dir'[x] = dir[x]
    <3>1. CASE dir[d].manifest = "partial"
      <4>1. dir'[d].manifest = "none" /\ \A x \in Digests : x # d => dir'[x] = dir[x]
        BY <2>1, <2>2, <3>1, DirectoryManifest
      <4> QED BY <4>1
    <3>2. CASE dir[d].manifest # "partial"
      BY <2>2, <3>2
    <3> QED BY <3>1, <3>2
  <2>4. ASSUME NEW x \in Digests
        PROVE  /\ Settles(creation[x], dir[x], creation'[x], dir'[x])
               /\ Traced(creation'[x], dir'[x], x, current')
    <3>1. Traced(creation[x], dir[x], x, current) /\ creation[x].state \notin {"serving", "renamed"}
      BY <1>1 DEF Safe, IInv, Served
    <3>2. Settles(creation[x], dir[x], creation'[x], dir'[x])
      BY <1>1, <2>3 DEF Settles, Gone
    <3>3. dir'[x].manifest \in {"ready", "closed"} => dir'[x] = dir[x]
      BY <2>3
    <3>4. dir[x].manifest = "ready" => current' # None /\ current'.d = x
      <4>1. ASSUME dir[x].manifest = "ready" PROVE x = d /\ current' = [d |-> d, partial |-> FALSE]
        BY <2>2, <3>1, <4>1 DEF d, Traced
      <4> QED BY <4>1, PointerNames
    <3>5. Traced(creation'[x], dir'[x], x, current')
      BY <1>1, <3>1, <3>3, <3>4 DEF Traced
    <3> QED BY <3>2, <3>5
  <2> QED BY <1>1, <2>4, ProviderMoves
<1> QED BY <1>2, <1>3

\* A preparation is due only when its create request has arrived or is lost.
LEMMA BecomeDueSafe == ASSUME IInv, Safe, NEW d \in Digests, BecomeDue(d) PROVE Safe'
<1>1. /\ UNCHANGED <<caller, creation, dir, current>> /\ row[d].status = "preparing"
      /\ creation[d].state # "sent" /\ row' = [row EXCEPT ![d].due = TRUE]
  BY DEF BecomeDue, Provider
<1>2. row[d] \in Rows
  BY DEF IInv, SessionTypeOK
<1>3. row'[d].status = "preparing" /\ row'[d].token = row[d].token
  <2>1. row'[d] = [row[d] EXCEPT !.due = TRUE]
    BY <1>1 DEF IInv, SessionTypeOK
  <2> QED BY <1>1, <1>2, <2>1 DEF Rows
<1>4. \A x \in Digests : x # d => row'[x] = row[x]
  BY <1>1 DEF IInv, SessionTypeOK
<1>5. \A x \in Digests : /\ Settles(creation[x], dir[x], creation'[x], dir'[x])
                         /\ Traced(creation'[x], dir'[x], x, current')
  BY <1>1, StillSettles
<1>6. ASSUME NEW x \in Digests PROVE Covered(row'[x], creation'[x], dir'[x])
  <2>1. CASE x = d
    BY <1>1, <1>3, <2>1 DEF Covered, Active
  <2>2. CASE x # d
    BY <1>1, <1>4, <2>2 DEF Safe
  <2> QED BY <2>1, <2>2
<1>7. ASSUME NEW b \in Callers PROVE Firm(caller'[b], row', creation', dir')
  <2>1. \A x \in Digests : row'[x].status = row[x].status /\ row'[x].token = row[x].token
    BY <1>1, <1>3, <1>4
  <2> QED BY <1>1, <1>5, <2>1, FirmStays
<1> QED BY <1>5, <1>6, <1>7 DEF Safe

------------------------------------------------------------------------------
LEMMA SafeInit == ASSUME Init PROVE Safe
<1>1. /\ NoRow.status = "none" /\ Sent("unsent").state = "unsent" /\ Idle.pc = "idle"
      /\ [manifest |-> "none", export |-> None].manifest = "none"
  BY DEF NoRow, Sent, Idle
<1>2. \A x \in Digests : /\ row[x].status = "none" /\ creation[x].state = "unsent"
                         /\ dir[x].manifest = "none"
  BY <1>1 DEF Init
<1>3. \A c \in Callers : caller[c].pc \notin Pending
  BY <1>1 DEF Init, Pending
<1> QED BY <1>2, <1>3, ElsewhereIsFirm DEF Safe, Traced, Covered, Gone, Active

LEMMA SafeStep == ASSUME IInv, Safe, [Next]_vars PROVE Safe'
<1>1. CASE UNCHANGED vars
  BY <1>1 DEF vars, Safe
<1>2. ASSUME NEW c \in Callers, Advance(c) PROVE Safe'
  BY <1>2, AdmitSafe, OtherwiseQuiet, RenewSafe, ClaimSafe, CurrentSafe, RecheckSafe, SettleSafe,
     AbandonSafe, CloseMismatchSafe, ToClosingSafe, CloseProviderSafe, ConvergeSafe
     DEF Advance
<1>3. ASSUME NEW c \in Callers, AbortBeforeCall(c) \/ CallerDies(c) PROVE Safe'
  BY <1>3, AbortBeforeCallSafe, OtherwiseQuiet
<1>4. ASSUME NEW c \in Callers, NEW d \in Digests,
             BeginCreate(c, d) \/ BeginGet(c, d) \/ BeginClose(c, d)
      PROVE  Safe'
  BY <1>4, BeginSafe
<1>5. ASSUME NEW d \in Digests, Serve(d) \/ MaterializeFails(d) PROVE Safe'
  BY <1>5, StartCreateSafe, MaterializeSafe, FinishCreateSafe DEF Serve
<1>6. ASSUME NEW d \in Digests, LoseCreate(d) \/ LateClose(d) \/ BecomeDue(d) PROVE Safe'
  BY <1>6, LoseCreateSafe, LateCloseSafe, BecomeDueSafe
<1>7. CASE Crash \/ Restart
  BY <1>7, CrashSafe, RestartSafe
<1> QED BY <1>1, <1>2, <1>3, <1>4, <1>5, <1>6, <1>7 DEF Next

\* A live session, which keeps every other one out, always belongs to a row
\* through which it is made ready or closed: whatever was lost, late, aborted or
\* taken over, a preparation is given up only when its session is gone.
THEOREM NoneIsOrphaned == Spec => []NoOrphan
<1>1. ASSUME Safe PROVE NoOrphan
  BY <1>1 DEF Safe, Covered, Gone, NoOrphan
<1>2. Spec => []Safe
  <2>1. IInv /\ Safe /\ [Next]_vars => Safe'
    BY SafeStep
  <2> QED BY <2>1, SafeInit, Inductive, PTL DEF Spec
<1> QED BY <1>1, <1>2, PTL
===========================================================================
