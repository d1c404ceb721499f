------------------------- MODULE Publication_proofs -------------------------
(* Theorems about Publication, for every value of its constants.  The        *)
(* argument is the order of the steps: each one leaves something that is      *)
(* never taken back, and the next one relies on it.                           *)
EXTENDS Publication, TLAPS

------------------------------------------------------------------------------
(* The inductive invariant.  The predicates of a call take the world it is in *)
(* as parameters: artifacts a, manifests m, layouts l, runs u.                *)

\* A manifest, stored or under way, names bytes that are there.
ManifestsHaveBytes ==
  /\ \A v \in Versions: manifests[v] # None => <<v, manifests[v]>> \in artifacts
  /\ \A o \in inFlight: o.object = "manifest" => <<o.version, o.digest>> \in artifacts

\* A layout is the one of the manifest, and refs and runs name layouts.
RowsAreBacked ==
  /\ \A v \in Versions: layouts[v] # None => layouts[v] = manifests[v]
  /\ \A n \in Names: refs[n] # NoRef => refs[n].version \in Versions /\ layouts[refs[n].version] # None
  /\ \A k \in Keys: runs[k] # None => layouts[runs[k]] # None

World ==
  /\ artifacts \subseteq Versions \X Digests
  /\ manifests \in [Versions -> Digests \cup {None}]
  /\ inFlight \subseteq Objects
  /\ layouts \in [Versions -> Digests \cup {None}]
  /\ runs \in [Keys -> Versions \cup {None}]
  /\ refs \in [Names -> Rows]
  /\ ManifestsHaveBytes /\ RowsAreBacked

Stored(r, m) == r.version \in Versions /\ r.digest \in Digests /\ m[r.version] = r.digest
Registered(r, l) == r.version \in Versions /\ l[r.version] # None
Mine(r, l) == Registered(r, l) /\ l[r.version] = r.digest
HasRun(r, u) == r.kind = "transform" => r.key \in Keys /\ u[r.key] = r.version

\* What the request of a call was.
Asked(r) ==
  /\ r.answer # "none" => r.pc \in {"discard", "done"}
  /\ r.pc # "idle" /\ r.kind = "transform" => r.key \in Keys
  /\ r.kind = "publish" => r.version \in Versions
  /\ r.pc \in {"compareAndSet", "conflict", "replay", "getRef"} => r.name \in Names
  /\ r.pc \in {"findRun", "readBack"} => r.kind = "transform"
  /\ r.pc = "getRef" => r.kind = "read"
  /\ r.pc = "replay" => r.kind = "publish"

\* What it relies on while it writes to the object store ...
Creates(r, a, m) == r.pc \in {"create", "verify"} =>
  /\ r.version \in Versions /\ r.digest \in Digests
  /\ r.object = "manifest" => <<r.version, r.digest>> \in a
  /\ r.pc = "verify" /\ r.exists =>
       IF r.object = "artifact" THEN <<r.version, r.digest>> \in a ELSE m[r.version] # None

\* ... to the catalog ...
Registers(r, m, l, u) ==
  /\ r.pc \in {"register", "explain"} => Stored(r, m)
  /\ r.pc = "explain" => r.key \in Keys /\ u[r.key] \notin {None, r.version}
  /\ r.pc = "discard" /\ r.answer = "none" => Mine(r, l) /\ HasRun(r, u)

\* ... while it reads ...
Reads(r, l, u) ==
  /\ r.pc = "resolve" => Registered(r, l)
  /\ r.pc \in {"load", "fetch"} => Mine(r, l)
  /\ r.pc \in {"resolve", "load", "fetch", "compareAndSet", "conflict", "replay", "readBack"} =>
       HasRun(r, u)

\* ... and while it moves a ref.
Updates(r, l) ==
  /\ r.pc \in {"compareAndSet", "conflict", "replay"} => r.version \in Versions
  /\ r.pc \in {"compareAndSet", "conflict", "replay", "readBack"} /\ r.kind # "point" => Mine(r, l)

\* What an answer claims is so.
Claim(r, answer, a, m, l, u) ==
  /\ answer # "integrity"
  /\ answer \in {"published", "updated", "read"} =>
       /\ Registered(r, l)
       /\ r.kind # "point" => Mine(r, l)
       /\ HasRun(r, u)
  /\ answer = "refConflict" => Registered(r, l)
  /\ answer = "layoutConflict" => r.version \in Versions /\ m[r.version] \notin {None, r.digest}
  /\ answer = "determinism" =>
       /\ Stored(r, m) /\ <<r.version, r.digest>> \in a
       /\ r.key \in Keys /\ u[r.key] \notin {None, r.version}

Good(r, a, m, l, u) ==
  /\ Asked(r) /\ Creates(r, a, m) /\ Registers(r, m, l, u)
  /\ Reads(r, l, u) /\ Updates(r, l) /\ Claim(r, r.answer, a, m, l, u)

Calling ==
  /\ call \in [Calls -> Records]
  /\ \A c \in Calls: Good(call[c], artifacts, manifests, layouts, runs)

IInv == World /\ Calling

\* Nothing that was written is taken back.
Grows ==
  /\ artifacts \subseteq artifacts'
  /\ \A v \in Versions: manifests[v] # None => manifests'[v] = manifests[v]
  /\ \A v \in Versions: layouts[v] # None => layouts'[v] = layouts[v]
  /\ \A k \in Keys: runs[k] # None => runs'[k] = runs[k]

------------------------------------------------------------------------------
(* What a call relies on, it keeps.                                           *)

\* The world may grow under a call.
LEMMA GoodStays ==
  ASSUME NEW r \in Records, World, Grows, Good(r, artifacts, manifests, layouts, runs)
  PROVE  Good(r, artifacts', manifests', layouts', runs')
<1>1. None \notin Digests /\ None \notin Versions
  BY NoneIsNothing
<1>2. Stored(r, manifests) => Stored(r, manifests')
  BY <1>1 DEF Stored, Grows
<1>3. Registered(r, layouts) => Registered(r, layouts')
  BY DEF Registered, Grows
<1>4. Mine(r, layouts) => Mine(r, layouts')
  BY <1>3 DEF Mine, Registered, Grows
<1>5. ASSUME HasRun(r, runs), r.version \in Versions PROVE HasRun(r, runs')
  BY <1>1, <1>5 DEF HasRun, Grows
<1>6. Creates(r, artifacts', manifests')
  BY DEF Good, Creates, Grows
<1>7. Registers(r, manifests', layouts', runs')
  BY <1>1, <1>2, <1>4, <1>5 DEF Good, Registers, Mine, Registered, Grows
<1>8. Reads(r, layouts', runs')
  <2>1. r.pc = "resolve" => Registered(r, layouts')
    BY <1>3 DEF Good, Reads
  <2>2. r.pc \in {"load", "fetch"} => Mine(r, layouts')
    BY <1>4 DEF Good, Reads
  <2>3. r.pc \in {"resolve", "load", "fetch", "compareAndSet", "conflict", "replay", "readBack"}
          => (r.kind = "transform" => r.version \in Versions)
    BY DEF Good, Reads, Updates, Mine, Registered
  <2>4. ASSUME r.pc \in {"resolve", "load", "fetch", "compareAndSet", "conflict", "replay", "readBack"}
        PROVE  HasRun(r, runs')
    BY <1>1, <2>3, <2>4 DEF Good, Reads, HasRun, Grows
  <2> QED BY <2>1, <2>2, <2>4 DEF Reads
<1>9. Updates(r, layouts')
  BY <1>4 DEF Good, Updates
<1>10. Claim(r, r.answer, artifacts', manifests', layouts', runs')
  BY <1>1, <1>2, <1>3, <1>4, <1>5 DEF Good, Claim, Registered, Grows
<1> QED BY <1>6, <1>7, <1>8, <1>9, <1>10 DEF Good

\* One call moves, the world grows.
LEMMA CallMoves ==
  ASSUME IInv, NEW c \in Calls, NEW r \in Records, Becomes(c, r), Grows, World',
         Good(r, artifacts', manifests', layouts', runs')
  PROVE  IInv'
<1>1. call' \in [Calls -> Records] /\ call'[c] = r
  BY DEF IInv, Calling, Becomes
<1>2. ASSUME NEW d \in Calls PROVE Good(call'[d], artifacts', manifests', layouts', runs')
  <2>1. CASE d = c
    BY <2>1, <1>1
  <2>2. CASE d # c
    <3>1. call'[d] = call[d] /\ call[d] \in Records
      BY <2>2 DEF IInv, Calling, Becomes
    <3>2. Good(call[d], artifacts, manifests, layouts, runs) /\ World
      BY DEF IInv, Calling
    <3> QED BY <3>1, <3>2, GoodStays
  <2> QED BY <2>1, <2>2
<1> QED BY <1>1, <1>2 DEF IInv, Calling

\* One call moves and the world stands still.
LEMMA CallMovesAlone ==
  ASSUME IInv, NEW c \in Calls, NEW r \in Records, Becomes(c, r), UNCHANGED <<store, catalog>>,
         Good(r, artifacts, manifests, layouts, runs)
  PROVE  IInv'
<1>1. /\ artifacts' = artifacts /\ manifests' = manifests /\ inFlight' = inFlight
      /\ layouts' = layouts /\ runs' = runs /\ refs' = refs
  BY DEF store, catalog
<1>2. World'
  BY <1>1 DEF IInv, World, ManifestsHaveBytes, RowsAreBacked
<1>3. Grows
  BY <1>1 DEF Grows
<1>4. Good(r, artifacts', manifests', layouts', runs')
  BY <1>1
<1> QED BY <1>2, <1>3, <1>4, CallMoves

------------------------------------------------------------------------------
(* The records a step leaves.                                                 *)
Answers == {"published", "updated", "read", "notFound", "failed", "crashed",
            "layoutConflict", "refConflict", "determinism", "integrity"}

\* A record stays one, field by field.
LEMMA UpdatedIsRecord ==
  ASSUME NEW r \in Records
  PROVE  /\ \A pc \in {"resolve", "load", "fetch", "create", "verify", "register", "done"}: [r EXCEPT !.pc = pc] \in Records
         /\ \A v \in Versions: [r EXCEPT !.version = v] \in Records
         /\ \A d \in Digests: [r EXCEPT !.digest = d] \in Records
         /\ \A a \in {1, 2}: [r EXCEPT !.attempt = a] \in Records
         /\ \A o \in {"artifact", "manifest"}: [r EXCEPT !.object = o] \in Records
         /\ \A e \in BOOLEAN: [r EXCEPT !.exists = e] \in Records
         /\ \A t \in {"none", "committing", "committed", "discarded", "cleanup_failed", "reported", "stale"}:
              [r EXCEPT !.temp = t] \in Records
<1>1. \A pc \in {"resolve", "load", "fetch", "create", "verify", "register", "done"}: [r EXCEPT !.pc = pc] \in Records
  BY DEF Records
<1>2. \A v \in Versions: [r EXCEPT !.version = v] \in Records
  BY DEF Records
<1>3. \A d \in Digests: [r EXCEPT !.digest = d] \in Records
  BY DEF Records
<1>4. \A a \in {1, 2}: [r EXCEPT !.attempt = a] \in Records
  BY DEF Records
<1>5. \A o \in {"artifact", "manifest"}: [r EXCEPT !.object = o] \in Records
  BY DEF Records
<1>6. \A e \in BOOLEAN: [r EXCEPT !.exists = e] \in Records
  BY DEF Records
<1>7. \A t \in {"none", "committing", "committed", "discarded", "cleanup_failed", "reported", "stale"}:
       [r EXCEPT !.temp = t] \in Records
  BY DEF Records
<1> QED BY <1>1, <1>2, <1>3, <1>4, <1>5, <1>6, <1>7

\* An answer keeps what the call was about and forgets the rest.
LEMMA AnsweredShape ==
  ASSUME NEW r \in Records, NEW answer \in Answers,
         NEW s, s \in {Remains(r, answer), Answered(r, answer)}
  PROVE  /\ s \in Records
         /\ s.pc \in {"discard", "done"} /\ s.answer = answer
         /\ s.kind = r.kind /\ s.key = r.key /\ s.version = r.version /\ s.digest = r.digest
        /\ s.name = r.name /\ s.message = r.message
<1>1. LET q == Remains(r, answer) IN
      /\ q \in Records
      /\ q.pc \in {"discard", "done"} /\ q.answer = answer
      /\ q.kind = r.kind /\ q.key = r.key /\ q.version = r.version /\ q.digest = r.digest
      /\ q.name = r.name /\ q.message = r.message
  BY DEF Remains, Records, Answers
<1>2. CASE s = Remains(r, answer)
  BY <1>1, <1>2
<1>3. CASE s = Answered(r, answer)
  BY <1>1, <1>3 DEF Answered, Records
<1> QED BY <1>2, <1>3

LEMMA AnsweredIsGood ==
  ASSUME NEW r \in Records, NEW answer \in Answers, NEW a, NEW m, NEW l, NEW u,
         Asked(r), r.pc # "idle", Claim(r, answer, a, m, l, u),
         NEW s, s \in {Remains(r, answer), Answered(r, answer)}
  PROVE  s \in Records /\ Good(s, a, m, l, u)
<1>1. /\ s \in Records
      /\ s.pc \in {"discard", "done"} /\ s.answer = answer
      /\ s.kind = r.kind /\ s.key = r.key /\ s.version = r.version /\ s.digest = r.digest
  BY AnsweredShape
<1>2. Asked(s)
  BY <1>1 DEF Asked
<1>3. Claim(s, answer, a, m, l, u)
  BY <1>1 DEF Claim, Registered, Mine, HasRun, Stored
<1>4. Creates(s, a, m) /\ Registers(s, m, l, u) /\ Reads(s, l, u) /\ Updates(s, l)
  BY <1>1 DEF Creates, Registers, Reads, Updates, Answers
<1> QED BY <1>1, <1>2, <1>3, <1>4 DEF Good

\* After the ref stands.
LEMMA SucceededIsGood ==
  ASSUME NEW r \in Records, NEW a, NEW m, NEW l, NEW u,
         Asked(r), r.pc # "idle", r.answer = "none",
         Registered(r, l), r.kind # "point" => Mine(r, l), HasRun(r, u)
  PROVE  Succeeded(r) \in Records /\ Good(Succeeded(r), a, m, l, u)
<1>1. CASE r.kind = "transform" /\ r.temp # "none"
  <2> DEFINE s == At(r, "readBack")
  <2>1. /\ s \in Records /\ Succeeded(r) = s
        /\ s.pc = "readBack" /\ s.answer = "none" /\ s.kind = "transform"
        /\ s.key = r.key /\ s.version = r.version /\ s.digest = r.digest
    BY <1>1 DEF Succeeded, At, Records
  <2> HIDE DEF s
  <2>2. Asked(s)
    BY <2>1, <1>1 DEF Asked
  <2>3. Mine(s, l) /\ HasRun(s, u)
    BY <2>1, <1>1 DEF Mine, Registered, HasRun
  <2>4. Creates(s, a, m) /\ Registers(s, m, l, u) /\ Reads(s, l, u) /\ Updates(s, l) /\ Claim(s, "none", a, m, l, u)
    BY <2>1, <2>3 DEF Creates, Registers, Reads, Updates, Claim
  <2> QED BY <2>1, <2>2, <2>4 DEF Good
<1>2. CASE ~(r.kind = "transform" /\ r.temp # "none")
  <2>1. PICK answer \in {"published", "updated"}: Succeeded(r) = Answered(r, answer)
    BY <1>2 DEF Succeeded
  <2>2. Claim(r, answer, a, m, l, u)
    BY <2>1 DEF Claim
  <2> QED BY <2>1, <2>2, AnsweredIsGood DEF Answers
<1> QED BY <1>1, <1>2

\* Before it does.
LEMMA ThenRefIsGood ==
  ASSUME NEW r \in Records, NEW a, NEW m, NEW l, NEW u,
         Asked(r), r.pc # "idle", r.answer = "none", Mine(r, l), HasRun(r, u)
  PROVE  ThenRef(r) \in Records /\ Good(ThenRef(r), a, m, l, u)
<1>1. CASE r.name = None
  BY <1>1, SucceededIsGood DEF ThenRef, Mine
<1>2. CASE r.name # None
  <2> DEFINE s == At(r, "compareAndSet")
  <2>1. /\ s \in Records /\ ThenRef(r) = s
        /\ s.pc = "compareAndSet" /\ s.answer = "none" /\ s.kind = r.kind /\ s.name \in Names
        /\ s.key = r.key /\ s.version = r.version /\ s.digest = r.digest
    BY <1>2 DEF ThenRef, At, Records
  <2> HIDE DEF s
  <2>2. Asked(s)
    BY <2>1 DEF Asked
  <2>3. Mine(s, l) /\ HasRun(s, u)
    BY <2>1 DEF Mine, Registered, HasRun
  <2>4. Creates(s, a, m) /\ Registers(s, m, l, u) /\ Reads(s, l, u) /\ Updates(s, l) /\ Claim(s, "none", a, m, l, u)
    BY <2>1, <2>3 DEF Creates, Registers, Reads, Updates, Claim, Mine, Registered
  <2> QED BY <2>1, <2>2, <2>4 DEF Good
<1> QED BY <1>1, <1>2

\* After a create.
LEMMA CommittedIsGood ==
  ASSUME NEW r \in Records, NEW a, NEW m, NEW l, NEW u,
         Asked(r), r.pc \in {"create", "verify"}, r.version \in Versions, r.digest \in Digests,
         IF r.object = "artifact" THEN <<r.version, r.digest>> \in a ELSE m[r.version] = r.digest
  PROVE  Committed(r) \in Records /\ Good(Committed(r), a, m, l, u)
<1> DEFINE s == Committed(r)
<1>0. r.answer = "none"
  BY DEF Asked, Records
<1>1. /\ s \in Records /\ s.answer = "none" /\ s.kind = r.kind
      /\ s.key = r.key /\ s.version = r.version /\ s.digest = r.digest /\ s.exists = FALSE
      /\ IF r.object = "artifact" THEN s.pc = "create" ELSE s.pc = "register"
  <2>1. CASE r.object = "artifact"
    <3> DEFINE q == [r EXCEPT !.object = "manifest", !.attempt = 1, !.exists = FALSE, !.pc = "create"]
    <3>1. q \in Records
      BY UpdatedIsRecord
    <3>2. /\ q.answer = "none" /\ q.kind = r.kind /\ q.key = r.key /\ q.version = r.version
          /\ q.digest = r.digest /\ q.exists = FALSE /\ q.pc = "create"
      BY <1>0 DEF Records
    <3>3. s = q
      BY <2>1 DEF Committed
    <3> QED BY <2>1, <3>1, <3>2, <3>3
  <2>2. CASE r.object # "artifact"
    <3> DEFINE q == [r EXCEPT !.object = "artifact", !.attempt = 1, !.exists = FALSE,
                              !.temp = "committed", !.pc = "register"]
    <3>1. q \in Records
      BY UpdatedIsRecord
    <3>2. /\ q.answer = "none" /\ q.kind = r.kind /\ q.key = r.key /\ q.version = r.version
          /\ q.digest = r.digest /\ q.exists = FALSE /\ q.pc = "register"
      BY <1>0 DEF Records
    <3>3. s = q
      BY <2>2 DEF Committed
    <3> QED BY <2>2, <3>1, <3>2, <3>3
  <2> QED BY <2>1, <2>2
<1>2. Asked(s)
  BY <1>1 DEF Asked
<1>3. Creates(s, a, m) /\ Registers(s, m, l, u) /\ Reads(s, l, u) /\ Updates(s, l) /\ Claim(s, "none", a, m, l, u)
  BY <1>1 DEF Creates, Registers, Reads, Updates, Claim, Stored
<1> QED BY <1>1, <1>2, <1>3 DEF Good, s

------------------------------------------------------------------------------
(* The steps of a call that leave both stores alone.                          *)

LEMMA RequestKeeps == ASSUME IInv, NEW c \in Calls, Request(c) PROVE IInv'
<1>1. UNCHANGED <<store, catalog>>
  BY DEF Request
<1>2. PICK kind \in Kinds, k \in Keys \cup {None}, n \in Names \cup {None},
           v \in Versions \cup {None}, expected \in Versions \cup {None},
           m \in Messages \cup {None}:
        /\ (k # None) = (kind = "transform")
        /\ (v # None) = (kind \in {"publish", "point"})
        /\ kind \in {"point", "read"} => n # None
        /\ n = None => expected = None
        /\ (m # None) = (kind # "read" /\ n # None)
        /\ kind = "read" => expected = None
        /\ Becomes(c, Asks(FirstStep(kind), kind, k, n, expected, m, v))
  BY Zenon DEF Request
<1> DEFINE s == Asks(FirstStep(kind), kind, k, n, expected, m, v)
<1>4. /\ FirstStep(kind) \in {"prepare", "findRun", "compareAndSet", "getRef"}
      /\ FirstStep(kind) = "prepare" => kind = "publish"
      /\ FirstStep(kind) = "findRun" => kind = "transform"
      /\ FirstStep(kind) = "compareAndSet" => kind = "point"
      /\ FirstStep(kind) = "getRef" => kind = "read"
  BY KindsAreRequests DEF FirstStep
<1>5. /\ s \in Records /\ s.kind = kind /\ s.key = k /\ s.name = n /\ s.version = v
      /\ s.answer = "none" /\ s.pc = FirstStep(kind)
  BY <1>4 DEF Asks, Records
<1>6. Becomes(c, s)
  BY <1>2
<1> HIDE DEF s
<1>7. Asked(s)
  BY <1>2, <1>4, <1>5 DEF Asked
<1>8. HasRun(s, runs) \/ s.pc \in {"prepare", "findRun", "getRef"}
  BY <1>4, <1>5 DEF HasRun
<1>9. Good(s, artifacts, manifests, layouts, runs)
  BY <1>2, <1>4, <1>5, <1>7, <1>8 DEF Good, Creates, Registers, Reads, Updates, Claim
<1> QED BY <1>1, <1>5, <1>6, <1>9, CallMovesAlone

\* What IInv says of one call.
LEMMA OneCall ==
  ASSUME IInv, NEW c \in Calls
  PROVE  call[c] \in Records /\ Good(call[c], artifacts, manifests, layouts, runs) /\ World
BY DEF IInv, Calling

\* A call that answers and leaves the world alone.
LEMMA AnswerKeeps ==
  ASSUME IInv, NEW c \in Calls, NEW answer \in Answers,
         call[c].pc # "idle", Claim(call[c], answer, artifacts, manifests, layouts, runs),
         Becomes(c, Answered(call[c], answer)), UNCHANGED <<store, catalog>>
  PROVE  IInv'
<1>1. call[c] \in Records /\ Asked(call[c])
  BY OneCall DEF Good
<1>2. /\ Answered(call[c], answer) \in Records
      /\ Good(Answered(call[c], answer), artifacts, manifests, layouts, runs)
  BY <1>1, AnsweredIsGood
<1> QED BY <1>2, CallMovesAlone

LEMMA FindRunKeeps == ASSUME IInv, NEW c \in Calls, FindRun(c) PROVE IInv'
<1> DEFINE r == call[c]
           s == IF runs[r.key] = None THEN At(r, "prepare")
                ELSE [r EXCEPT !.version = runs[r.key], !.pc = "resolve"]
<1>1. r \in Records /\ Good(r, artifacts, manifests, layouts, runs) /\ World
  BY OneCall
<1>2. r.pc = "findRun" /\ Becomes(c, s) /\ UNCHANGED <<store, catalog>>
  BY DEF FindRun
<1> HIDE DEF r
<1>3. r.kind = "transform" /\ r.key \in Keys /\ r.answer = "none"
  BY <1>1, <1>2 DEF Good, Asked, Records
<1>4. runs[r.key] # None => runs[r.key] \in Versions /\ layouts[runs[r.key]] # None
  BY <1>1, <1>3 DEF World, RowsAreBacked
<1>5. s \in Records /\ Good(s, artifacts, manifests, layouts, runs)
  <2>1. CASE runs[r.key] = None
    <3>1. s \in Records /\ s.pc = "prepare" /\ s.answer = "none" /\ s.kind = "transform" /\ s.key = r.key
      BY <1>1, <1>3, <2>1 DEF At, Records
    <3> QED BY <3>1, <1>3 DEF Good, Asked, Creates, Registers, Reads, Updates, Claim
  <2>2. CASE runs[r.key] # None
    <3> DEFINE q == [r EXCEPT !.version = runs[r.key], !.pc = "resolve"]
    <3>1. q \in Records
      BY <1>1, <1>4, <2>2, UpdatedIsRecord
    <3>2. /\ q.pc = "resolve" /\ q.answer = "none" /\ q.kind = "transform"
          /\ q.key = r.key /\ q.version = runs[r.key]
      BY <1>1, <1>3 DEF Records
    <3>3. s = q
      BY <2>2
    <3> HIDE DEF s, q
    <3> QED BY <3>1, <3>2, <3>3, <1>3, <1>4, <2>2
            DEF Good, Asked, Creates, Registers, Reads, Updates, Claim, Registered, HasRun
  <2> QED BY <2>1, <2>2
<1> QED BY <1>2, <1>5, CallMovesAlone

LEMMA GetRefKeeps == ASSUME IInv, NEW c \in Calls, GetRef(c) PROVE IInv'
<1> DEFINE r == call[c]
           s == [r EXCEPT !.version = refs[r.name].version, !.pc = "resolve"]
<1>1. r \in Records /\ Good(r, artifacts, manifests, layouts, runs) /\ World
  BY OneCall
<1>2. r.pc = "getRef" /\ UNCHANGED <<store, catalog>>
  BY DEF GetRef
<1>3. r.kind = "read" /\ r.name \in Names /\ r.answer = "none"
  BY <1>1, <1>2 DEF Good, Asked, Records
<1>4. CASE refs[r.name] = NoRef \/ refs[r.name].deleted
  <2>1. Becomes(c, Answered(r, "notFound"))
    BY <1>4 DEF GetRef
  <2> QED BY <1>2, <2>1, AnswerKeeps DEF Answers, Claim
<1>5. CASE ~(refs[r.name] = NoRef \/ refs[r.name].deleted)
  <2>1. Becomes(c, s)
    BY <1>5 DEF GetRef
  <2>2. refs[r.name].version \in Versions /\ layouts[refs[r.name].version] # None
    BY <1>1, <1>3, <1>5 DEF World, RowsAreBacked
  <2> HIDE DEF r
  <2>5. s \in Records
    BY <1>1, <2>2, UpdatedIsRecord
  <2>3. /\ s.pc = "resolve" /\ s.answer = "none" /\ s.kind = "read"
        /\ s.version = refs[r.name].version
    BY <1>1, <1>3 DEF Records
  <2> HIDE DEF s
  <2>4. Good(s, artifacts, manifests, layouts, runs)
    BY <2>2, <2>3 DEF Good, Asked, Creates, Registers, Reads, Updates, Claim, Registered, HasRun
  <2> QED BY <1>2, <2>1, <2>4, <2>5, CallMovesAlone
<1> QED BY <1>4, <1>5

LEMMA ResolveKeeps == ASSUME IInv, NEW c \in Calls, Resolve(c) PROVE IInv'
<1> DEFINE r == call[c]
           s == [r EXCEPT !.digest = layouts[r.version], !.pc = "load"]
<1>1. r \in Records /\ Good(r, artifacts, manifests, layouts, runs) /\ World
  BY OneCall
<1>2. r.pc = "resolve" /\ UNCHANGED <<store, catalog>>
  BY DEF Resolve
<1>3. r.version \in Versions /\ layouts[r.version] # None /\ HasRun(r, runs) /\ r.answer = "none"
  BY <1>1, <1>2 DEF Good, Reads, Registered, Asked, Records
<1>4. Becomes(c, s)
  BY <1>3 DEF Resolve
<1>5. layouts[r.version] \in Digests
  BY <1>1, <1>3 DEF World
<1> HIDE DEF r
<1>6. /\ s.pc = "load" /\ s.answer = "none" /\ s.kind = r.kind
      /\ s.key = r.key /\ s.name = r.name /\ s.version = r.version /\ s.digest = layouts[r.version]
  BY <1>1, <1>3 DEF Records
<1>10. s \in Records
  BY <1>1, <1>5, UpdatedIsRecord
<1> HIDE DEF s
<1>7. Asked(s)
  BY <1>1, <1>2, <1>6 DEF Good, Asked
<1>8. Mine(s, layouts) /\ HasRun(s, runs)
  BY <1>3, <1>6 DEF Mine, Registered, HasRun
<1>9. Good(s, artifacts, manifests, layouts, runs)
  BY <1>6, <1>7, <1>8 DEF Good, Creates, Registers, Reads, Updates, Claim
<1> QED BY <1>2, <1>4, <1>9, <1>10, CallMovesAlone

LEMMA LoadKeeps == ASSUME IInv, NEW c \in Calls, Load(c) PROVE IInv'
<1> DEFINE r == call[c]
           s == At(r, "fetch")
<1>1. r \in Records /\ Good(r, artifacts, manifests, layouts, runs) /\ World
  BY OneCall
<1>2. r.pc = "load" /\ UNCHANGED <<store, catalog>>
  BY DEF Load
<1>3. Mine(r, layouts) /\ HasRun(r, runs) /\ r.answer = "none"
  BY <1>1, <1>2 DEF Good, Reads, Asked, Records
<1>4. manifests[r.version] = r.digest
  BY <1>1, <1>3 DEF World, RowsAreBacked, Mine, Registered
<1>5. Becomes(c, s)
  BY <1>4 DEF Load
<1> HIDE DEF r
<1>6. /\ s \in Records /\ s.pc = "fetch" /\ s.answer = "none" /\ s.kind = r.kind
      /\ s.key = r.key /\ s.name = r.name /\ s.version = r.version /\ s.digest = r.digest
  BY <1>1, <1>2, <1>3 DEF At, Records
<1> HIDE DEF s
<1>7. Asked(s)
  BY <1>1, <1>2, <1>6 DEF Good, Asked
<1>8. Mine(s, layouts) /\ HasRun(s, runs)
  BY <1>3, <1>6 DEF Mine, Registered, HasRun
<1>9. Good(s, artifacts, manifests, layouts, runs)
  BY <1>6, <1>7, <1>8 DEF Good, Creates, Registers, Reads, Updates, Claim
<1> QED BY <1>2, <1>5, <1>6, <1>9, CallMovesAlone

LEMMA FetchKeeps == ASSUME IInv, NEW c \in Calls, Fetch(c) PROVE IInv'
<1> DEFINE r == call[c]
<1>1. r \in Records /\ Good(r, artifacts, manifests, layouts, runs) /\ World
  BY OneCall
<1>2. r.pc = "fetch" /\ UNCHANGED <<store, catalog>>
  BY DEF Fetch
<1>3. Mine(r, layouts) /\ HasRun(r, runs) /\ r.answer = "none" /\ Asked(r)
  BY <1>1, <1>2 DEF Good, Reads, Asked, Records
<1>4. <<r.version, r.digest>> \in artifacts
  BY <1>1, <1>3 DEF World, RowsAreBacked, ManifestsHaveBytes, Mine, Registered
<1>5. CASE r.kind = "read"
  <2>1. Becomes(c, Answered(r, "read"))
    BY <1>4, <1>5 DEF Fetch
  <2>2. Claim(r, "read", artifacts, manifests, layouts, runs)
    BY <1>3 DEF Claim, Mine
  <2> QED BY <1>2, <2>1, <2>2, AnswerKeeps DEF Answers
<1>6. CASE r.kind # "read"
  <2>1. Becomes(c, ThenRef(r))
    BY <1>4, <1>6 DEF Fetch
  <2>2. ThenRef(r) \in Records /\ Good(ThenRef(r), artifacts, manifests, layouts, runs)
    BY <1>1, <1>2, <1>3, ThenRefIsGood
  <2> QED BY <1>2, <2>1, <2>2, CallMovesAlone
<1> QED BY <1>5, <1>6

LEMMA PrepareKeeps == ASSUME IInv, NEW c \in Calls, Prepare(c) PROVE IInv'
<1> DEFINE r == call[c]
           Made(v, d) == [r EXCEPT !.version = v, !.digest = d, !.temp = "committing",
                                   !.object = "artifact", !.attempt = 1, !.pc = "create"]
<1>1. r \in Records /\ Good(r, artifacts, manifests, layouts, runs) /\ World
  BY OneCall
<1>2. r.pc = "prepare" /\ UNCHANGED <<store, catalog>>
  BY DEF Prepare
<1>3. PICK v \in Versions, d \in Digests: Becomes(c, Made(v, d))
  BY DEF Prepare
<1> DEFINE s == Made(v, d)
<1> HIDE DEF r
<1>4. r.answer = "none"
  BY <1>1, <1>2 DEF Good, Asked, Records
<1>5. /\ s.pc = "create" /\ s.answer = "none" /\ s.kind = r.kind /\ s.key = r.key
      /\ s.version = v /\ s.digest = d /\ s.object = "artifact"
  BY <1>1, <1>4 DEF Records
<1>8. s \in Records
  BY <1>1, UpdatedIsRecord
<1>6. Becomes(c, s)
  BY <1>3
<1> HIDE DEF s
<1>7. Good(s, artifacts, manifests, layouts, runs)
  BY <1>1, <1>2, <1>5 DEF Good, Asked, Creates, Registers, Reads, Updates, Claim
<1> QED BY <1>2, <1>6, <1>7, <1>8, CallMovesAlone

LEMMA VerifyKeeps == ASSUME IInv, NEW c \in Calls, Verify(c) PROVE IInv'
<1> DEFINE r == call[c]
           again == [r EXCEPT !.attempt = 2, !.pc = "create"]
<1>1. r \in Records /\ Good(r, artifacts, manifests, layouts, runs) /\ World
  BY OneCall
<1>2. r.pc = "verify" /\ UNCHANGED <<store, catalog>>
  BY DEF Verify
<1>3. /\ r.version \in Versions /\ r.digest \in Digests /\ r.answer = "none" /\ Asked(r)
      /\ r.object = "manifest" => <<r.version, r.digest>> \in artifacts
      /\ r.exists => ~Absent(Wanted(r))
  BY <1>1, <1>2 DEF Good, Creates, Asked, Records, Absent, Wanted
<1>4. CASE Stands(Wanted(r))
  <2>1. Becomes(c, Committed(r))
    BY <1>4 DEF Verify
  <2>2. IF r.object = "artifact" THEN <<r.version, r.digest>> \in artifacts
                                 ELSE manifests[r.version] = r.digest
    BY <1>4 DEF Stands, Wanted
  <2>3. Committed(r) \in Records /\ Good(Committed(r), artifacts, manifests, layouts, runs)
    BY <1>1, <1>2, <1>3, <2>2, CommittedIsGood
  <2> QED BY <1>2, <2>1, <2>3, CallMovesAlone
<1>5. CASE ~Stands(Wanted(r)) /\ ~Absent(Wanted(r))
  <2>1. Becomes(c, Answered(r, "layoutConflict"))
    BY <1>5 DEF Verify
  <2>2. manifests[r.version] \notin {None, r.digest}
    BY <1>5 DEF Stands, Absent, Wanted
  <2>3. Claim(r, "layoutConflict", artifacts, manifests, layouts, runs)
    BY <1>3, <2>2 DEF Claim
  <2> QED BY <1>2, <2>1, <2>3, AnswerKeeps DEF Answers
<1>6. CASE ~Stands(Wanted(r)) /\ Absent(Wanted(r)) /\ r.attempt = 1
  <2>1. Becomes(c, again)
    BY <1>3, <1>6 DEF Verify
  <2> HIDE DEF r
  <2>2. /\ again.pc = "create" /\ again.answer = "none" /\ again.kind = r.kind
        /\ again.key = r.key /\ again.version = r.version /\ again.digest = r.digest
        /\ again.object = r.object
    BY <1>1, <1>3 DEF Records
  <2>4. again \in Records
    BY <1>1, UpdatedIsRecord
  <2> HIDE DEF again
  <2>3. Good(again, artifacts, manifests, layouts, runs)
    BY <1>2, <1>3, <2>2 DEF Good, Asked, Creates, Registers, Reads, Updates, Claim
  <2> QED BY <1>2, <2>1, <2>3, <2>4, CallMovesAlone
<1>7. CASE ~Stands(Wanted(r)) /\ Absent(Wanted(r)) /\ r.attempt # 1
  <2>1. Becomes(c, Answered(r, "failed"))
    BY <1>3, <1>7 DEF Verify
  <2> QED BY <1>2, <2>1, AnswerKeeps DEF Answers, Claim
<1> QED BY <1>4, <1>5, <1>6, <1>7

LEMMA ExplainKeeps == ASSUME IInv, NEW c \in Calls, Explain(c) PROVE IInv'
<1> DEFINE r == call[c]
<1>1. r \in Records /\ Good(r, artifacts, manifests, layouts, runs) /\ World
  BY OneCall
<1>2. r.pc = "explain" /\ UNCHANGED <<store, catalog>>
  BY DEF Explain
<1>3. Stored(r, manifests) /\ r.key \in Keys /\ runs[r.key] \notin {None, r.version}
  BY <1>1, <1>2 DEF Good, Registers
<1>4. Becomes(c, Answered(r, "determinism"))
  BY <1>3 DEF Explain
<1>5. <<r.version, r.digest>> \in artifacts
  BY <1>1, <1>3, NoneIsNothing DEF World, ManifestsHaveBytes, Stored
<1>6. Claim(r, "determinism", artifacts, manifests, layouts, runs)
  BY <1>3, <1>5 DEF Claim
<1> QED BY <1>2, <1>4, <1>6, AnswerKeeps DEF Answers

LEMMA ConflictKeeps == ASSUME IInv, NEW c \in Calls, Conflict(c) PROVE IInv'
<1> DEFINE r == call[c]
           s == At(r, "replay")
<1>1. r \in Records /\ Good(r, artifacts, manifests, layouts, runs) /\ World
  BY OneCall
<1>2. r.pc = "conflict" /\ UNCHANGED <<store, catalog>>
  BY DEF Conflict
<1>3. /\ r.version \in Versions
      /\ r.kind # "point" => Mine(r, layouts)
      /\ HasRun(r, runs) /\ r.name \in Names /\ r.answer = "none"
  BY <1>1, <1>2 DEF Good, Reads, Updates, Asked, Records
<1>4. CASE layouts[r.version] = None
  <2>1. r.kind = "point"
    BY <1>3, <1>4 DEF Mine, Registered
  <2>2. Becomes(c, Answered(r, "notFound"))
    BY <1>4, <2>1 DEF Conflict
  <2> QED BY <1>2, <2>2, AnswerKeeps DEF Answers, Claim
<1>5. CASE layouts[r.version] # None /\ r.kind = "publish" /\ refs[r.name].version = r.version
  <2>1. Becomes(c, s)
    BY <1>5 DEF Conflict
  <2> HIDE DEF r
  <2>2. /\ s \in Records /\ s.pc = "replay" /\ s.answer = "none" /\ s.kind = "publish"
        /\ s.key = r.key /\ s.name = r.name /\ s.version = r.version /\ s.digest = r.digest
    BY <1>1, <1>3, <1>5 DEF At, Records
  <2> HIDE DEF s
  <2>3. Mine(s, layouts)
    BY <1>3, <1>5, <2>2 DEF Mine, Registered
  <2>4. Good(s, artifacts, manifests, layouts, runs)
    BY <1>3, <2>2, <2>3 DEF Good, Asked, Creates, Registers, Reads, Updates, Claim, HasRun
  <2> QED BY <1>2, <2>1, <2>2, <2>4, CallMovesAlone
<1>6. CASE layouts[r.version] # None /\ ~(r.kind = "publish" /\ refs[r.name].version = r.version)
  <2>1. Becomes(c, Answered(r, "refConflict"))
    BY <1>6 DEF Conflict
  <2>2. Claim(r, "refConflict", artifacts, manifests, layouts, runs)
    BY <1>3, <1>6 DEF Claim, Registered
  <2> QED BY <1>2, <2>1, <2>2, AnswerKeeps DEF Answers
<1> QED BY <1>4, <1>5, <1>6

LEMMA ReplayKeeps == ASSUME IInv, NEW c \in Calls, Replay(c) PROVE IInv'
<1> DEFINE r == call[c]
<1>1. r \in Records /\ Good(r, artifacts, manifests, layouts, runs) /\ World
  BY OneCall
<1>2. r.pc = "replay" /\ UNCHANGED <<store, catalog>>
  BY DEF Replay
<1>3. r.kind = "publish" /\ Mine(r, layouts) /\ r.answer = "none" /\ Asked(r) /\ HasRun(r, runs)
  BY <1>1, <1>2 DEF Good, Reads, Updates, Asked, Records
<1>4. CASE Becomes(c, Succeeded(r))
  <2>1. Succeeded(r) \in Records /\ Good(Succeeded(r), artifacts, manifests, layouts, runs)
    BY <1>1, <1>2, <1>3, SucceededIsGood DEF Mine
  <2> QED BY <1>2, <1>4, <2>1, CallMovesAlone
<1>5. CASE Becomes(c, Answered(r, "refConflict"))
  <2>1. Claim(r, "refConflict", artifacts, manifests, layouts, runs)
    BY <1>3 DEF Claim, Mine
  <2> QED BY <1>2, <1>5, <2>1, AnswerKeeps DEF Answers
<1> QED BY <1>4, <1>5 DEF Replay

LEMMA ReadBackKeeps == ASSUME IInv, NEW c \in Calls, ReadBack(c) PROVE IInv'
<1> DEFINE r == call[c]
<1>1. r \in Records /\ Good(r, artifacts, manifests, layouts, runs) /\ World
  BY OneCall
<1>2. r.pc = "readBack" /\ UNCHANGED <<store, catalog>>
  BY DEF ReadBack
<1>3. r.kind = "transform" /\ HasRun(r, runs) /\ Mine(r, layouts)
  BY <1>1, <1>2 DEF Good, Asked, Reads, Updates
<1>4. PICK answer \in {"published", "updated"}: Becomes(c, Answered(r, answer))
  BY <1>3 DEF ReadBack, HasRun
<1>5. Claim(r, answer, artifacts, manifests, layouts, runs)
  BY <1>3, <1>4 DEF Claim, Mine
<1> QED BY <1>2, <1>4, <1>5, AnswerKeeps DEF Answers

LEMMA FailsKeeps == ASSUME IInv, NEW c \in Calls, Fails(c) PROVE IInv'
<1>1. call[c].pc # "idle" /\ Becomes(c, Answered(call[c], "failed")) /\ UNCHANGED <<store, catalog>>
  BY DEF Fails
<1> QED BY <1>1, AnswerKeeps DEF Answers, Claim

LEMMA CrashKeeps == ASSUME IInv, NEW c \in Calls, Crash(c) PROVE IInv'
<1> DEFINE r == call[c]
           q == Remains(r, "crashed")
           s == [q EXCEPT !.temp = IF @ \in {"none", "discarded"} THEN @ ELSE "stale", !.pc = "done"]
<1>1. r \in Records /\ Good(r, artifacts, manifests, layouts, runs)
  BY OneCall
<1>2. r.pc # "idle" /\ Becomes(c, s) /\ UNCHANGED <<store, catalog>>
  BY DEF Crash
<1> HIDE DEF r
<1>3. q \in Records /\ Good(q, artifacts, manifests, layouts, runs) /\ q.answer = "crashed"
  <2>1. Claim(r, "crashed", artifacts, manifests, layouts, runs) /\ "crashed" \in Answers
    BY DEF Claim, Answers
  <2>2. Asked(r)
    BY <1>1 DEF Good
  <2>3. q \in {Remains(r, "crashed"), Answered(r, "crashed")}
    OBVIOUS
  <2> HIDE DEF q
  <2>4. q \in Records /\ Good(q, artifacts, manifests, layouts, runs)
    BY <1>1, <1>2, <2>1, <2>2, <2>3, AnsweredIsGood
  <2>5. q.answer = "crashed"
    BY <1>1, <2>1, <2>3, AnsweredShape
  <2> QED BY <2>4, <2>5
<1> HIDE DEF q
<1>4. /\ s.pc = "done" /\ s.answer = "crashed" /\ s.kind = q.kind
      /\ s.key = q.key /\ s.version = q.version /\ s.digest = q.digest
  BY <1>3 DEF Records
<1>7. s \in Records
  BY <1>3, UpdatedIsRecord
<1> HIDE DEF s
<1>5. Asked(s)
  <2>1. q.pc # "idle"
    BY <1>3 DEF Good, Asked
  <2> QED BY <1>3, <1>4, <2>1 DEF Good, Asked
<1>6. Good(s, artifacts, manifests, layouts, runs)
  BY <1>4, <1>5 DEF Good, Creates, Registers, Reads, Updates, Claim
<1> QED BY <1>2, <1>6, <1>7, CallMovesAlone

LEMMA DiscardKeeps == ASSUME IInv, NEW c \in Calls, Discard(c) PROVE IInv'
<1> DEFINE r == call[c]
           Left(temp) == [r EXCEPT !.temp = temp]
           Ends(temp) == IF r.answer = "none" THEN ThenRef(Left(temp)) ELSE At(Left(temp), "done")
           Temps == {"committing", "discarded", "reported"}
<1>1. r \in Records /\ Good(r, artifacts, manifests, layouts, runs)
  BY OneCall
<1>2. r.pc = "discard" /\ UNCHANGED <<store, catalog>>
  BY DEF Discard
<1>3. \/ \E temp \in Temps: Becomes(c, Ends(temp))
      \/ Becomes(c, Left("cleanup_failed"))
  BY DEF Discard
<1> HIDE DEF r
<1>4. ASSUME NEW temp \in Temps \cup {"cleanup_failed"}
      PROVE  /\ Left(temp) \in Records /\ Left(temp).pc = "discard" /\ Left(temp).answer = r.answer
             /\ Left(temp).kind = r.kind /\ Left(temp).key = r.key /\ Left(temp).name = r.name
             /\ Left(temp).version = r.version /\ Left(temp).digest = r.digest
  <2>1. Left(temp) \in Records
    BY <1>1, UpdatedIsRecord
  <2> QED BY <1>1, <1>2, <2>1 DEF Records
<1>5. ASSUME NEW s \in Records, s.pc \in {"discard", "done"}, s.answer = r.answer,
             s.pc = "done" => r.answer # "none",
             s.kind = r.kind, s.key = r.key, s.version = r.version, s.digest = r.digest
      PROVE  Good(s, artifacts, manifests, layouts, runs)
  <2>1. Asked(s)
    BY <1>1, <1>2, <1>5 DEF Good, Asked
  <2>2. Claim(s, s.answer, artifacts, manifests, layouts, runs)
    BY <1>1, <1>5 DEF Good, Claim, Registered, Mine, HasRun, Stored
  <2>3. Registers(s, manifests, layouts, runs)
    BY <1>1, <1>2, <1>5 DEF Good, Registers, Registered, Mine, HasRun
  <2> QED BY <1>5, <2>1, <2>2, <2>3 DEF Good, Creates, Reads, Updates
<1>6. CASE Becomes(c, Left("cleanup_failed"))
  <2> DEFINE s == Left("cleanup_failed")
  <2>1. /\ s \in Records /\ s.pc = "discard" /\ s.answer = r.answer /\ s.kind = r.kind
        /\ s.key = r.key /\ s.version = r.version /\ s.digest = r.digest
    BY <1>4
  <2> HIDE DEF s
  <2>2. Good(s, artifacts, manifests, layouts, runs)
    BY <1>5, <2>1
  <2> QED BY <1>2, <1>6, <2>1, <2>2, CallMovesAlone DEF s
<1>7. CASE \E temp \in Temps: Becomes(c, Ends(temp))
  <2>1. PICK temp \in Temps: Becomes(c, Ends(temp))
    BY <1>7
  <2> DEFINE t == Left(temp)
  <2>2. /\ t \in Records /\ t.pc = "discard" /\ t.answer = r.answer /\ t.kind = r.kind
        /\ t.key = r.key /\ t.name = r.name /\ t.version = r.version /\ t.digest = r.digest
    BY <1>4
  <2>3. Becomes(c, IF r.answer = "none" THEN ThenRef(t) ELSE At(t, "done"))
    BY <2>1
  <2> HIDE DEF t, Left
  <2>4. CASE r.answer = "none"
    <3>1. Asked(t) /\ Mine(t, layouts) /\ HasRun(t, runs)
      BY <1>1, <1>2, <2>2, <2>4 DEF Good, Asked, Registers, Mine, Registered, HasRun
    <3>2. ThenRef(t) \in Records /\ Good(ThenRef(t), artifacts, manifests, layouts, runs)
      BY <2>2, <2>4, <3>1, ThenRefIsGood
    <3> QED BY <1>2, <2>3, <2>4, <3>2, CallMovesAlone
  <2>5. CASE r.answer # "none"
    <3> DEFINE s == At(t, "done")
    <3>1. /\ s \in Records /\ s.pc = "done" /\ s.answer = r.answer /\ s.kind = r.kind
          /\ s.key = r.key /\ s.version = r.version /\ s.digest = r.digest
      BY <2>2 DEF At, Records
    <3>2. Becomes(c, s)
      BY <2>3, <2>5
    <3> HIDE DEF s
    <3>3. Good(s, artifacts, manifests, layouts, runs)
      BY <1>5, <2>5, <3>1
    <3> QED BY <1>2, <3>1, <3>2, <3>3, CallMovesAlone
  <2> QED BY <2>4, <2>5
<1> QED BY <1>3, <1>6, <1>7

------------------------------------------------------------------------------
(* The steps that write.                                                      *)

\* What arrives at the object store.
LEMMA PutKeeps ==
  ASSUME World, NEW o, o \in Objects, Put(o), inFlight' \subseteq inFlight, UNCHANGED catalog,
         o.object = "manifest" => <<o.version, o.digest>> \in artifacts
  PROVE  World' /\ Grows
<1> USE NoneIsNothing
<1>0. layouts' = layouts /\ runs' = runs /\ refs' = refs
  BY DEF catalog
<1>1. o.version \in Versions /\ o.digest \in Digests
  BY DEF Objects
<1>2. CASE Absent(o) /\ o.object = "artifact"
  <2>1. artifacts' = artifacts \cup {<<o.version, o.digest>>} /\ manifests' = manifests
    BY <1>2 DEF Put
  <2> QED BY <1>0, <1>1, <2>1 DEF World, ManifestsHaveBytes, RowsAreBacked, Grows
<1>3. CASE Absent(o) /\ o.object # "artifact"
  <2>1. artifacts' = artifacts /\ manifests' = [manifests EXCEPT ![o.version] = o.digest]
    BY <1>3 DEF Put
  <2>2. manifests[o.version] = None /\ o.object = "manifest"
    BY <1>3 DEF Absent, Objects
  <2>3. manifests' \in [Versions -> Digests \cup {None}] /\ manifests'[o.version] = o.digest
    BY <1>1, <2>1 DEF World
  <2>4. \A v \in Versions: v # o.version => manifests'[v] = manifests[v]
    BY <2>1 DEF World
  <2>5. Grows
    BY <1>0, <2>1, <2>2, <2>4 DEF Grows
  <2>6. ManifestsHaveBytes'
    BY <2>1, <2>2, <2>3, <2>4 DEF World, ManifestsHaveBytes
  <2>7. RowsAreBacked'
    BY <1>0, <2>2, <2>4 DEF World, RowsAreBacked
  <2> QED BY <1>0, <2>1, <2>3, <2>5, <2>6, <2>7 DEF World
<1>4. CASE ~Absent(o)
  <2>1. artifacts' = artifacts /\ manifests' = manifests
    BY <1>4 DEF Put
  <2> QED BY <1>0, <2>1 DEF World, ManifestsHaveBytes, RowsAreBacked, Grows
<1> QED BY <1>2, <1>3, <1>4

\* The world grows and no call moves.
LEMMA NoCallMoves ==
  ASSUME IInv, Grows, World', UNCHANGED call
  PROVE  IInv'
BY GoodStays DEF IInv, Calling

LEMMA ArriveKeeps == ASSUME IInv, NEW o \in inFlight, Arrive(o) PROVE IInv'
<1>1. o \in Objects /\ (o.object = "manifest" => <<o.version, o.digest>> \in artifacts) /\ World
  BY DEF IInv, World, ManifestsHaveBytes
<1>2. Put(o) /\ inFlight' \subseteq inFlight /\ UNCHANGED catalog /\ UNCHANGED call
  BY DEF Arrive
<1>3. World' /\ Grows
  BY <1>1, <1>2, PutKeeps
<1> QED BY <1>2, <1>3, NoCallMoves

LEMMA TrashKeeps ==
  ASSUME IInv, NEW n \in Names, NEW deleted \in BOOLEAN, Trash(n, deleted)
  PROVE  IInv'
<1>1. /\ artifacts' = artifacts /\ manifests' = manifests /\ inFlight' = inFlight
      /\ layouts' = layouts /\ runs' = runs /\ UNCHANGED call
  BY DEF Trash, store
<1>2. World /\ refs[n] # NoRef /\ refs' = [refs EXCEPT ![n].deleted = deleted]
  BY DEF IInv, Trash
<1>3. refs' \in [Names -> Rows]
  BY <1>2 DEF World, Rows
<1>4. refs'[n].version = refs[n].version
  BY <1>2 DEF World, Rows
<1>5. \A x \in Names: x # n => refs'[x] = refs[x]
  BY <1>2 DEF World
<1>6. RowsAreBacked'
  BY <1>1, <1>2, <1>4, <1>5 DEF World, RowsAreBacked
<1>7. World'
  BY <1>1, <1>2, <1>3, <1>6 DEF World, ManifestsHaveBytes
<1>8. Grows
  BY <1>1 DEF Grows
<1> QED BY <1>1, <1>7, <1>8, NoCallMoves

LEMMA CreateKeeps == ASSUME IInv, NEW c \in Calls, Create(c) PROVE IInv'
<1> DEFINE r == call[c]
           o == Wanted(r)
           seen == [r EXCEPT !.exists = TRUE, !.pc = "verify"]
           lost == [r EXCEPT !.exists = FALSE, !.pc = "verify"]
<1>1. r \in Records /\ Good(r, artifacts, manifests, layouts, runs) /\ World
  BY OneCall
<1>2. r.pc = "create" /\ UNCHANGED catalog
  BY DEF Create
<1>3. /\ r.version \in Versions /\ r.digest \in Digests /\ r.answer = "none" /\ Asked(r)
      /\ r.object = "manifest" => <<r.version, r.digest>> \in artifacts
  BY <1>1, <1>2 DEF Good, Creates, Asked, Records
<1>4. /\ o \in Objects /\ o.object = r.object /\ o.version = r.version /\ o.digest = r.digest
      /\ r.object \in {"artifact", "manifest"}
  BY <1>1, <1>3 DEF Wanted, Objects, Records
<1>5. CASE Absent(Wanted(r)) /\ Put(Wanted(r)) /\ Becomes(c, Committed(r)) /\ UNCHANGED inFlight
  <2>1. World' /\ Grows
    BY <1>1, <1>2, <1>3, <1>4, <1>5, PutKeeps
  <2>2. IF r.object = "artifact" THEN <<r.version, r.digest>> \in artifacts'
                                 ELSE manifests'[r.version] = r.digest
    <3>1. CASE r.object = "artifact"
      BY <1>4, <1>5, <3>1 DEF Put
    <3>2. CASE r.object # "artifact"
      BY <1>1, <1>3, <1>4, <1>5, <3>2 DEF Put, World
    <3> QED BY <3>1, <3>2
  <2>3. Committed(r) \in Records /\ Good(Committed(r), artifacts', manifests', layouts', runs')
    <3> DEFINE a == artifacts'
               m == manifests'
    <3>1. IF r.object = "artifact" THEN <<r.version, r.digest>> \in a ELSE m[r.version] = r.digest
      BY <2>2
    <3> HIDE DEF a, m, r
    <3>2. Committed(r) \in Records /\ Good(Committed(r), a, m, layouts', runs')
      BY <1>1, <1>2, <1>3, <3>1, CommittedIsGood
    <3> QED BY <3>2 DEF a, m
  <2> QED BY <1>5, <2>1, <2>3, CallMoves
<1>6. CASE ~Absent(Wanted(r)) /\ Becomes(c, seen) /\ UNCHANGED store
  <2>1. IF r.object = "artifact" THEN <<r.version, r.digest>> \in artifacts
                                 ELSE manifests[r.version] # None
    BY <1>6 DEF Absent, Wanted
  <2> HIDE DEF r
  <2>2. seen \in Records
    BY <1>1, UpdatedIsRecord
  <2>3. /\ seen.pc = "verify" /\ seen.answer = "none" /\ seen.kind = r.kind /\ seen.key = r.key
        /\ seen.version = r.version /\ seen.digest = r.digest /\ seen.object = r.object
    BY <1>1, <1>3 DEF Records
  <2> HIDE DEF seen
  <2>4. Good(seen, artifacts, manifests, layouts, runs)
    BY <1>2, <1>3, <2>1, <2>3 DEF Good, Asked, Creates, Registers, Reads, Updates, Claim
  <2> QED BY <1>2, <1>6, <2>2, <2>4, CallMovesAlone
<1>7. CASE /\ inFlight' = inFlight \cup {Wanted(r)} /\ Becomes(c, lost)
           /\ UNCHANGED <<artifacts, manifests>>
  <2>0. /\ artifacts' = artifacts /\ manifests' = manifests
        /\ layouts' = layouts /\ runs' = runs /\ refs' = refs
    BY <1>2, <1>7 DEF catalog
  <2>1. World'
    BY <1>1, <1>3, <1>4, <1>7, <2>0 DEF World, ManifestsHaveBytes, RowsAreBacked
  <2>2. Grows
    BY <2>0 DEF Grows
  <2> HIDE DEF r
  <2>3. lost \in Records
    BY <1>1, UpdatedIsRecord
  <2>4. /\ lost.pc = "verify" /\ lost.answer = "none" /\ lost.kind = r.kind /\ lost.key = r.key
        /\ lost.version = r.version /\ lost.digest = r.digest /\ lost.object = r.object
        /\ lost.exists = FALSE
    BY <1>1, <1>3 DEF Records
  <2> HIDE DEF lost
  <2>5. Good(lost, artifacts, manifests, layouts, runs)
    BY <1>2, <1>3, <2>4 DEF Good, Asked, Creates, Registers, Reads, Updates, Claim
  <2>6. Good(lost, artifacts', manifests', layouts', runs')
    BY <2>0, <2>5
  <2> QED BY <1>7, <2>1, <2>2, <2>3, <2>6, CallMoves
<1> QED BY <1>5, <1>6, <1>7 DEF Create

\* The transaction writes: what it does to the rows.
LEMMA RegisterGrows ==
  ASSUME World, NEW r \in Records, Stored(r, manifests), r.kind = "transform" => r.key \in Keys,
         layouts[r.version] \in {None, r.digest},
         r.kind = "transform" => runs[r.key] \in {None, r.version},
         layouts' = [layouts EXCEPT ![r.version] = r.digest],
         runs' = IF Concludes(r) THEN [runs EXCEPT ![r.key] = r.version] ELSE runs,
         UNCHANGED <<store, refs>>
  PROVE  World' /\ Grows /\ Mine(r, layouts') /\ HasRun(r, runs')
<1> USE NoneIsNothing
<1>0. artifacts' = artifacts /\ manifests' = manifests /\ inFlight' = inFlight /\ refs' = refs
  BY DEF store
<1>1. r.version \in Versions /\ r.digest \in Digests /\ manifests[r.version] = r.digest
  BY DEF Stored
<1>2. /\ layouts' \in [Versions -> Digests \cup {None}] /\ layouts'[r.version] = r.digest
      /\ \A v \in Versions: v # r.version => layouts'[v] = layouts[v]
  BY <1>1 DEF World
<1>3. \A v \in Versions: layouts[v] # None => layouts'[v] = layouts[v]
  BY <1>2
<1>4. CASE r.kind = "transform"
  <2>1. runs' = [runs EXCEPT ![r.key] = r.version] /\ r.key \in Keys
    BY <1>4 DEF Concludes
  <2>2. /\ runs' \in [Keys -> Versions \cup {None}] /\ runs'[r.key] = r.version
        /\ \A k \in Keys: k # r.key => runs'[k] = runs[k]
    BY <1>1, <2>1 DEF World
  <2>3. Grows
    BY <1>0, <1>3, <1>4, <2>2 DEF Grows
  <2>4. \A k \in Keys: runs'[k] # None => layouts'[runs'[k]] # None
    <3>1. layouts'[r.version] # None
      BY <1>1, <1>2
    <3>2. ASSUME NEW k \in Keys, runs[k] # None PROVE layouts'[runs[k]] # None
      BY <1>3, <3>2 DEF World, RowsAreBacked
    <3> QED BY <2>2, <3>1, <3>2
  <2>5. World'
    BY <1>0, <1>1, <1>2, <1>3, <2>2, <2>4 DEF World, ManifestsHaveBytes, RowsAreBacked
  <2> QED BY <1>1, <1>2, <2>1, <2>2, <2>3, <2>5 DEF Mine, Registered, HasRun
<1>5. CASE r.kind # "transform"
  <2>1. runs' = runs
    BY <1>5 DEF Concludes
  <2>2. Grows
    BY <1>0, <1>3, <2>1 DEF Grows
  <2>3. \A k \in Keys: runs'[k] # None => layouts'[runs'[k]] # None
    <3>1. ASSUME NEW k \in Keys, runs[k] # None PROVE layouts'[runs[k]] # None
      BY <1>3, <3>1 DEF World, RowsAreBacked
    <3> QED BY <2>1, <3>1
  <2>4. World'
    <3>1. ManifestsHaveBytes' /\ runs' \in [Keys -> Versions \cup {None}]
      BY <1>0, <2>1 DEF World, ManifestsHaveBytes
    <3>2. RowsAreBacked'
      BY <1>0, <1>1, <1>2, <1>3, <2>3 DEF World, RowsAreBacked
    <3> QED BY <1>0, <1>2, <3>1, <3>2 DEF World
  <2> QED BY <1>1, <1>2, <1>5, <2>2, <2>4 DEF Mine, Registered, HasRun
<1> QED BY <1>4, <1>5

LEMMA RegisterKeeps == ASSUME IInv, NEW c \in Calls, Register(c) PROVE IInv'
<1> USE NoneIsNothing
<1> DEFINE r == call[c]
<1>1. r \in Records /\ Good(r, artifacts, manifests, layouts, runs) /\ World
  BY OneCall
<1>2. r.pc = "register" /\ UNCHANGED <<store, refs>>
  BY DEF Register
<1>3. /\ Stored(r, manifests) /\ r.answer = "none" /\ Asked(r)
      /\ r.kind = "transform" => r.key \in Keys
  BY <1>1, <1>2 DEF Good, Registers, Asked, Records
<1>4. layouts[r.version] \in {None, r.digest}
  BY <1>1, <1>3 DEF World, RowsAreBacked, Stored
<1>5. CASE Concludes(r) /\ runs[r.key] \notin {None, r.version}
  <2> DEFINE s == At(r, "explain")
  <2>1. Becomes(c, s) /\ UNCHANGED <<store, catalog>>
    BY <1>2, <1>4, <1>5 DEF Register, catalog
  <2> HIDE DEF r
  <2>2. /\ s \in Records /\ s.pc = "explain" /\ s.answer = "none" /\ s.kind = r.kind
        /\ s.key = r.key /\ s.version = r.version /\ s.digest = r.digest
    BY <1>1, <1>3 DEF At, Records
  <2> HIDE DEF s
  <2>3. r.key \in Keys
    BY <1>3, <1>5 DEF Concludes
  <2>4. Good(s, artifacts, manifests, layouts, runs)
    BY <1>2, <1>3, <1>5, <2>2, <2>3
    DEF Good, Asked, Creates, Registers, Reads, Updates, Claim, Stored
  <2> QED BY <2>1, <2>2, <2>4, CallMovesAlone
<1>6. CASE ~(Concludes(r) /\ runs[r.key] \notin {None, r.version})
  <2>1. /\ layouts' = [layouts EXCEPT ![r.version] = r.digest]
        /\ runs' = IF Concludes(r) THEN [runs EXCEPT ![r.key] = r.version] ELSE runs
        /\ \/ Becomes(c, Answered(r, "failed"))
           \/ Becomes(c, IF Concludes(r) THEN At(r, "discard") ELSE ThenRef(r))
    BY <1>4, <1>6 DEF Register
  <2>2. World' /\ Grows /\ Mine(r, layouts') /\ HasRun(r, runs')
    BY <1>1, <1>2, <1>3, <1>4, <1>6, <2>1, RegisterGrows DEF Concludes
  <2> DEFINE s == At(r, "discard")
             l == layouts'
             u == runs'
             a == artifacts'
             m == manifests'
  <2>3. Mine(r, l) /\ HasRun(r, u)
    BY <2>2
  <2> HIDE DEF r, l, u, a, m
  <2>4. Answered(r, "failed") \in Records /\ Good(Answered(r, "failed"), a, m, l, u)
    BY <1>1, <1>2, <1>3, AnsweredIsGood DEF Answers, Claim
  <2>5. ThenRef(r) \in Records /\ Good(ThenRef(r), a, m, l, u)
    BY <1>1, <1>2, <1>3, <2>3, ThenRefIsGood
  <2>6. s \in Records /\ Good(s, a, m, l, u)
    <3>1. /\ s \in Records /\ s.pc = "discard" /\ s.answer = "none" /\ s.kind = r.kind
          /\ s.key = r.key /\ s.version = r.version /\ s.digest = r.digest
      BY <1>1, <1>3 DEF At, Records
    <3> HIDE DEF s
    <3> QED BY <1>2, <1>3, <2>3, <3>1
            DEF Good, Asked, Creates, Registers, Reads, Updates, Claim, Mine, Registered, HasRun
  <2>7. PICK t \in {Answered(r, "failed"), ThenRef(r), s}: Becomes(c, t)
    BY <2>1
  <2>8. t \in Records /\ Good(t, a, m, l, u)
    BY <2>4, <2>5, <2>6
  <2>9. Good(t, artifacts', manifests', layouts', runs')
    BY <2>8 DEF a, m, l, u
  <2> QED BY <2>2, <2>7, <2>8, <2>9, CallMoves
<1> QED BY <1>5, <1>6

LEMMA CompareAndSetKeeps == ASSUME IInv, NEW c \in Calls, CompareAndSet(c) PROVE IInv'
<1> DEFINE r == call[c]
<1>1. r \in Records /\ Good(r, artifacts, manifests, layouts, runs) /\ World
  BY OneCall
<1>2. r.pc = "compareAndSet"
  BY DEF CompareAndSet
<1>3. /\ r.version \in Versions /\ r.name \in Names /\ r.answer = "none" /\ Asked(r)
      /\ r.kind # "point" => Mine(r, layouts)
      /\ HasRun(r, runs)
  BY <1>1, <1>2 DEF Good, Reads, Updates, Asked, Records
<1>4. CASE Matches(r)
  <2>0. layouts[r.version] # None
    BY <1>4 DEF Matches
  <2>1. /\ refs' = [refs EXCEPT ![r.name] = [version |-> r.version, message |-> r.message, deleted |-> FALSE]]
        /\ \/ Becomes(c, Answered(r, "failed"))
           \/ Becomes(c, Succeeded(r))
        /\ artifacts' = artifacts /\ manifests' = manifests /\ inFlight' = inFlight
        /\ layouts' = layouts /\ runs' = runs
    BY <1>4 DEF CompareAndSet, store
  <2>2. /\ refs' \in [Names -> Rows]
        /\ refs'[r.name].version = r.version
        /\ \A n \in Names: n # r.name => refs'[n] = refs[n]
    <3>1. [version |-> r.version, message |-> r.message, deleted |-> FALSE] \in Rows
      BY <1>1, <1>3 DEF Rows, Records
    <3> QED BY <1>1, <1>3, <2>1, <3>1 DEF World
  <2>3. World'
    BY <1>1, <1>3, <2>0, <2>1, <2>2 DEF World, ManifestsHaveBytes, RowsAreBacked
  <2>4. Grows
    BY <2>1 DEF Grows
  <2>5. Answered(r, "failed") \in Records /\ Good(Answered(r, "failed"), artifacts, manifests, layouts, runs)
    BY <1>1, <1>2, <1>3, AnsweredIsGood DEF Answers, Claim
  <2>6. Succeeded(r) \in Records /\ Good(Succeeded(r), artifacts, manifests, layouts, runs)
    BY <1>1, <1>2, <1>3, <2>0, SucceededIsGood DEF Registered
  <2>7. PICK t \in {Answered(r, "failed"), Succeeded(r)}: Becomes(c, t)
    BY <2>1
  <2>8. t \in Records /\ Good(t, artifacts', manifests', layouts', runs')
    BY <2>1, <2>5, <2>6
  <2> QED BY <2>3, <2>4, <2>7, <2>8, CallMoves
<1>5. CASE ~Matches(r)
  <2> DEFINE s == At(r, "conflict")
  <2>1. Becomes(c, s) /\ UNCHANGED <<store, catalog>>
    BY <1>5 DEF CompareAndSet, catalog
  <2> HIDE DEF r
  <2>2. /\ s \in Records /\ s.pc = "conflict" /\ s.answer = "none" /\ s.kind = r.kind /\ s.name = r.name
        /\ s.key = r.key /\ s.version = r.version /\ s.digest = r.digest
    BY <1>1, <1>3 DEF At, Records
  <2> HIDE DEF s
  <2>3. HasRun(s, runs) /\ (s.kind # "point" => Mine(s, layouts)) /\ Asked(s)
    BY <1>2, <1>3, <2>2 DEF HasRun, Mine, Registered, Asked
  <2>4. Good(s, artifacts, manifests, layouts, runs)
    BY <1>3, <2>2, <2>3 DEF Good, Creates, Registers, Reads, Updates, Claim
  <2> QED BY <2>1, <2>2, <2>4, CallMovesAlone
<1> QED BY <1>4, <1>5

------------------------------------------------------------------------------
(* The theorems.                                                              *)

LEMMA InitHolds == Init => IInv
<1> SUFFICES ASSUME Init PROVE IInv
  OBVIOUS
<1>1. World
  <2>1. NoRef \in Rows
    BY DEF NoRef, Rows
  <2> QED BY <2>1 DEF Init, World, ManifestsHaveBytes, RowsAreBacked
<1>2. Idle \in Records
  BY DEF Idle, Asks, Records
<1>3. Good(Idle, artifacts, manifests, layouts, runs)
  BY DEF Idle, Asks, Good, Asked, Creates, Registers, Reads, Updates, Claim
<1> QED BY <1>1, <1>2, <1>3 DEF Init, IInv, Calling

LEMMA StepHolds == IInv /\ [Next]_vars => IInv'
<1> SUFFICES ASSUME IInv, [Next]_vars PROVE IInv'
  OBVIOUS
<1>1. CASE UNCHANGED vars
  BY <1>1 DEF IInv, World, ManifestsHaveBytes, RowsAreBacked, Calling, vars, store, catalog
<1>2. ASSUME NEW c \in Calls,
             \/ Request(c) \/ FindRun(c) \/ GetRef(c) \/ Resolve(c) \/ Load(c) \/ Fetch(c)
             \/ Prepare(c) \/ Create(c) \/ Verify(c) \/ Register(c) \/ Explain(c)
             \/ CompareAndSet(c) \/ Conflict(c) \/ Replay(c) \/ ReadBack(c)
             \/ Discard(c) \/ Fails(c) \/ Crash(c)
      PROVE  IInv'
  BY <1>2, RequestKeeps, FindRunKeeps, GetRefKeeps, ResolveKeeps, LoadKeeps, FetchKeeps,
     PrepareKeeps, CreateKeeps, VerifyKeeps, RegisterKeeps, ExplainKeeps, CompareAndSetKeeps,
     ConflictKeeps, ReplayKeeps, ReadBackKeeps, DiscardKeeps, FailsKeeps, CrashKeeps
<1>3. ASSUME NEW o \in inFlight, Arrive(o) PROVE IInv'
  BY <1>3, ArriveKeeps
<1>4. ASSUME NEW n \in Names, NEW deleted \in BOOLEAN, Trash(n, deleted) PROVE IInv'
  BY <1>4, TrashKeeps
<1> QED BY <1>1, <1>2, <1>3, <1>4 DEF Next

LEMMA InvariantHolds == Spec => []IInv
BY InitHolds, StepHolds, PTL DEF Spec

\* Every variable has its type, for every number of calls: in particular a
\* create is attempted at most twice (resolveConditionalCreate).
THEOREM TypeCorrect == Spec => []TypeOK
<1>1. IInv => TypeOK
  BY DEF IInv, World, Calling, TypeOK
<1> QED BY <1>1, InvariantHolds, PTL

\* A registered layout has its manifest and its bytes, and what refs and runs
\* name is registered: the order of Store.commit, registerCommittedLayout and
\* compareAndSetRef suffices, without a transaction over the two stores.
THEOREM AlwaysReadable == Spec => []PublishedIsReadable
<1>1. IInv => PublishedIsReadable
  BY NoneIsNothing DEF IInv, World, ManifestsHaveBytes, RowsAreBacked, PublishedIsReadable, Readable
<1> QED BY <1>1, InvariantHolds, PTL

\* No race, crash or lost answer makes #resolveLayout, the store or #publish
\* report an integrity error.
THEOREM NoAlarm == Spec => []NoIntegrityError
<1>1. IInv => NoIntegrityError
  BY DEF IInv, Calling, Good, Claim, NoIntegrityError
<1> QED BY <1>1, InvariantHolds, PTL

\* What an answer says of the stores is so, and stays so.
THEOREM Truthful == Spec => []AnswersAreTrue
<1>1. IInv => AnswersAreTrue
  <2> SUFFICES ASSUME IInv, NEW c \in Calls
      PROVE  LET r == call[c] IN
        /\ r.answer \in {"published", "updated", "read"} =>
             /\ layouts[r.version] # None
             /\ r.kind # "point" => layouts[r.version] = r.digest
             /\ r.kind = "transform" => runs[r.key] = r.version
        /\ r.answer = "refConflict" => layouts[r.version] # None
        /\ r.answer = "layoutConflict" => manifests[r.version] \notin {None, r.digest}
        /\ r.answer = "determinism" =>
             /\ runs[r.key] \notin {None, r.version}
             /\ manifests[r.version] = r.digest /\ <<r.version, r.digest>> \in artifacts
    BY DEF AnswersAreTrue
  <2>1. Claim(call[c], call[c].answer, artifacts, manifests, layouts, runs)
    BY OneCall DEF Good
  <2> QED BY <2>1 DEF Claim, Registered, Mine, HasRun, Stored
<1> QED BY <1>1, InvariantHolds, PTL

------------------------------------------------------------------------------
(* The promise to readers.                                                    *)
Published == {v \in Versions: layouts[v] # None}
Pointers == [n \in Names |-> refs[n].version]

\* Only three steps touch the catalog.
LEMMA CatalogSteps ==
  ASSUME Next
  PROVE  \/ UNCHANGED catalog
         \/ \E c \in Calls: Register(c) \/ CompareAndSet(c)
         \/ \E n \in Names, deleted \in BOOLEAN: Trash(n, deleted)
<1>1. ASSUME NEW c \in Calls,
             \/ Request(c) \/ FindRun(c) \/ GetRef(c) \/ Resolve(c) \/ Load(c) \/ Fetch(c)
             \/ Prepare(c) \/ Create(c) \/ Verify(c) \/ Explain(c)
             \/ Conflict(c) \/ Replay(c) \/ ReadBack(c)
             \/ Discard(c) \/ Fails(c) \/ Crash(c)
      PROVE  UNCHANGED catalog
  BY <1>1 DEF Request, FindRun, GetRef, Resolve, Load, Fetch, Prepare, Create, Verify, Explain,
              Conflict, Replay, ReadBack, Discard, Fails, Crash
<1>2. ASSUME NEW o \in inFlight, Arrive(o) PROVE UNCHANGED catalog
  BY <1>2 DEF Arrive
<1> QED BY <1>1, <1>2 DEF Next

\* A registration publishes, or concludes the run of its cache key.
LEMMA RegisterMaps ==
  ASSUME IInv, IInv', NEW c \in Calls, Register(c)
  PROVE  \/ UNCHANGED <<layouts, runs>>
         \/ \E v \in Versions:
              /\ Published' = Published \cup {v}
              /\ \/ runs' = runs
                 \/ \E k \in Keys: runs[k] = None /\ runs' = [runs EXCEPT ![k] = v]
<1> USE NoneIsNothing
<1> DEFINE r == call[c]
<1>1. World /\ Stored(r, manifests) /\ (r.kind = "transform" => r.key \in Keys)
  BY OneCall DEF Good, Registers, Asked, Register
<1>2. CASE UNCHANGED <<layouts, runs>>
  BY <1>2
<1>3. CASE /\ layouts' = [layouts EXCEPT ![r.version] = r.digest]
           /\ runs' = IF Concludes(r) THEN [runs EXCEPT ![r.key] = r.version] ELSE runs
           /\ ~(Concludes(r) /\ runs[r.key] \notin {None, r.version})
  <2> HIDE DEF r
  <2>1. Published' = Published \cup {r.version} /\ r.version \in Versions
    BY <1>1, <1>3 DEF Published, Stored, World
  <2>2. CASE ~Concludes(r)
    BY <1>3, <2>1, <2>2
  <2>3. CASE Concludes(r) /\ runs[r.key] = None
    BY <1>1, <1>3, <2>1, <2>3 DEF Concludes
  <2>4. CASE Concludes(r) /\ runs[r.key] = r.version
    <3>1. runs' = runs
      BY <1>1, <1>3, <2>4 DEF Concludes, World
    <3> QED BY <2>1, <3>1
  <2> QED BY <1>3, <2>2, <2>3, <2>4
<1> QED BY <1>2, <1>3 DEF Register

LEMMA StepMaps == ASSUME IInv, IInv', [Next]_vars PROVE [Abstract!PNext]_(Abstract!pvars)
<1> DEFINE R == {v \in Versions: Readable(v)}
<1>0. R = Published /\ R' = Published'
  <2>1. R = Published
    BY NoneIsNothing DEF IInv, World, ManifestsHaveBytes, RowsAreBacked, Readable, Published
  <2>2. R' = Published'
    BY NoneIsNothing DEF IInv, World, ManifestsHaveBytes, RowsAreBacked, Readable, Published
  <2> QED BY <2>1, <2>2
<1> USE DEF Abstract!pvars, Abstract!PNext, Abstract!Publish, Abstract!Conclude, Abstract!Point
<1>1. SUFFICES \/ Published' = Published /\ runs' = runs /\ Pointers' = Pointers
               \/ \E v \in Versions:
                    \/ Published' = Published \cup {v} /\ runs' = runs /\ Pointers' = Pointers
                    \/ \E k \in Keys: /\ runs[k] = None /\ runs' = [runs EXCEPT ![k] = v]
                                      /\ Published' = Published \cup {v} /\ Pointers' = Pointers
                    \/ \E n \in Names: /\ v \in Published /\ Pointers' = [Pointers EXCEPT ![n] = v]
                                       /\ Published' = Published /\ runs' = runs
  BY <1>0 DEF Pointers
<1>2. CASE UNCHANGED catalog
  BY <1>2 DEF catalog, Published, Pointers
<1>3. ASSUME NEW c \in Calls, Register(c)
      PROVE  \/ Published' = Published /\ runs' = runs /\ Pointers' = Pointers
             \/ \E v \in Versions:
                  \/ Published' = Published \cup {v} /\ runs' = runs /\ Pointers' = Pointers
                  \/ \E k \in Keys: /\ runs[k] = None /\ runs' = [runs EXCEPT ![k] = v]
                                    /\ Published' = Published \cup {v} /\ Pointers' = Pointers
  <2>1. Pointers' = Pointers
    BY <1>3 DEF Register, Pointers
  <2>2. UNCHANGED <<layouts, runs>> => Published' = Published /\ runs' = runs
    BY DEF Published
  <2> QED BY <1>3, <2>1, <2>2, RegisterMaps
<1>4. ASSUME NEW c \in Calls, CompareAndSet(c)
      PROVE  \/ Published' = Published /\ runs' = runs /\ Pointers' = Pointers
             \/ \E v \in Versions, n \in Names:
                  /\ v \in Published /\ Pointers' = [Pointers EXCEPT ![n] = v]
                  /\ Published' = Published /\ runs' = runs
  <2> DEFINE r == call[c]
  <2>1. r.version \in Versions /\ r.name \in Names /\ World
    BY <1>4, OneCall DEF Good, Updates, Asked, CompareAndSet
  <2>2. Published' = Published /\ runs' = runs
    BY <1>4 DEF CompareAndSet, Published
  <2>3. CASE Matches(r)
    <3>1. refs' = [refs EXCEPT ![r.name] = [version |-> r.version, message |-> r.message, deleted |-> FALSE]]
      BY <1>4, <2>3 DEF CompareAndSet
    <3> HIDE DEF r
    <3>2. Pointers' = [Pointers EXCEPT ![r.name] = r.version]
      BY <2>1, <3>1 DEF Pointers, World
    <3>3. r.version \in Published
      BY <2>1, <2>3 DEF Matches, Published
    <3> QED BY <2>1, <2>2, <3>2, <3>3
  <2>4. CASE ~Matches(r)
    BY <1>4, <2>2, <2>4 DEF CompareAndSet, Pointers
  <2> QED BY <2>3, <2>4
<1>5. ASSUME NEW n \in Names, NEW deleted \in BOOLEAN, Trash(n, deleted)
      PROVE  Published' = Published /\ runs' = runs /\ Pointers' = Pointers
  <2>1. World /\ refs' = [refs EXCEPT ![n].deleted = deleted]
    BY <1>5 DEF IInv, Trash
  <2>2. Pointers' = Pointers
    BY <2>1 DEF World, Rows, Pointers
  <2> QED BY <1>5, <2>2 DEF Trash, Published
<1>6. CASE UNCHANGED vars
  BY <1>2, <1>6 DEF vars, catalog
<1> QED BY <1>2, <1>3, <1>4, <1>5, <1>6, CatalogSteps

\* The steps of all calls together keep what readers are promised: a version is
\* readable for good, a cache key has one result, a ref names what can be read.
THEOREM Implements == Spec => ImplementsPublished
<1>1. Init => Abstract!PInit
  BY DEF Init, Readable, NoRef, Abstract!PInit
<1>2. IInv /\ IInv' /\ [Next]_vars => [Abstract!PNext]_(Abstract!pvars)
  BY StepMaps
<1> QED BY <1>1, <1>2, InvariantHolds, PTL DEF Spec, ImplementsPublished, Abstract!PSpec

------------------------------------------------------------------------------
(* Refs have owners.                                                          *)

\* A call that put the ref where it is: it is about to read its run back, or it
\* has its answer.  Nothing but ReadBack, Discard, Fails and Crash moves it on.
Owns(r, n, row) ==
  /\ r.name = n /\ r.version = row.version /\ r.message = row.message
  /\ \/ r.pc = "readBack" /\ r.answer = "none"
     \/ r.pc \in {"discard", "done"} /\ r.answer \in {"updated", "failed", "crashed"}

Owners == \A n \in Names: refs[n] # NoRef => \E c \in Calls: Owns(call[c], n, refs[n])

\* A step of a call leaves the other calls alone.
LEMMA OneMoves ==
  ASSUME NEW c \in Calls, NEW d \in Calls, d # c,
         \/ Request(c) \/ FindRun(c) \/ GetRef(c) \/ Resolve(c) \/ Load(c) \/ Fetch(c)
         \/ Prepare(c) \/ Create(c) \/ Verify(c) \/ Register(c) \/ Explain(c)
         \/ CompareAndSet(c) \/ Conflict(c) \/ Replay(c) \/ ReadBack(c)
         \/ Discard(c) \/ Fails(c) \/ Crash(c),
         call \in [Calls -> Records]
  PROVE  call'[d] = call[d]
<1>1. \A s: Becomes(c, s) => call'[d] = call[d]
  BY DEF Becomes
<1>2. \E s: Becomes(c, s)
  <2>1. CASE Request(c) \/ FindRun(c) \/ GetRef(c) \/ Resolve(c) \/ Load(c) \/ Fetch(c) \/ Prepare(c)
    BY <2>1 DEF Request, FindRun, GetRef, Resolve, Load, Fetch, Prepare
  <2>2. CASE Create(c) \/ Verify(c) \/ Explain(c) \/ Conflict(c) \/ Replay(c) \/ ReadBack(c)
    BY <2>2 DEF Create, Verify, Explain, Conflict, Replay, ReadBack
  <2>3. CASE Register(c) \/ CompareAndSet(c)
    BY <2>3 DEF Register, CompareAndSet
  <2>4. CASE Discard(c) \/ Fails(c) \/ Crash(c)
    BY <2>4 DEF Discard, Fails, Crash
  <2> QED BY <2>1, <2>2, <2>3, <2>4
<1> QED BY <1>1, <1>2

\* An owner that answers "updated" or "failed", or dies, is an owner.
LEMMA AnsweredOwns ==
  ASSUME NEW r \in Records, NEW answer \in {"updated", "failed", "crashed"}, NEW n, NEW row,
         NEW s, s \in {Remains(r, answer), Answered(r, answer)},
         r.name = n, r.version = row.version, r.message = row.message
  PROVE  Owns(s, n, row)
BY AnsweredShape DEF Owns, Answers

\* An owner stays one: the run a transform reads back is its own.
LEMMA OwnerMoves ==
  ASSUME IInv, NEW c \in Calls, NEW n \in Names, NEW row, Owns(call[c], n, row),
         \/ Request(c) \/ FindRun(c) \/ GetRef(c) \/ Resolve(c) \/ Load(c) \/ Fetch(c)
         \/ Prepare(c) \/ Create(c) \/ Verify(c) \/ Register(c) \/ Explain(c)
         \/ CompareAndSet(c) \/ Conflict(c) \/ Replay(c) \/ ReadBack(c)
         \/ Discard(c) \/ Fails(c) \/ Crash(c)
  PROVE  Owns(call'[c], n, row)
<1> DEFINE r == call[c]
<1>1. r \in Records /\ Good(r, artifacts, manifests, layouts, runs) /\ call \in [Calls -> Records]
  BY OneCall DEF IInv, Calling
<1>2. r.name = n /\ r.version = row.version /\ r.message = row.message
  BY DEF Owns
<1>3. \A s: Becomes(c, s) => call'[c] = s
  BY <1>1 DEF Becomes
<1>4. r.pc \in {"readBack", "discard", "done"}
  BY DEF Owns
<1>5. CASE ReadBack(c)
  <2>1. r.pc = "readBack" /\ r.kind = "transform" /\ HasRun(r, runs)
    BY <1>1, <1>5 DEF ReadBack, Good, Asked, Reads
  <2>2. r.name # None /\ runs[r.key] = r.version
    BY <1>2, <2>1, NoneIsNothing DEF HasRun
  <2>3. Becomes(c, Answered(r, "updated"))
    BY <1>5, <2>2 DEF ReadBack
  <2> QED BY <1>1, <1>2, <1>3, <2>3, AnsweredOwns
<1>6. CASE Fails(c)
  <2>1. Becomes(c, Answered(r, "failed"))
    BY <1>6 DEF Fails
  <2> QED BY <1>1, <1>2, <1>3, <2>1, AnsweredOwns
<1>7. CASE Crash(c)
  <2> DEFINE s == Remains(r, "crashed")
             q == [s EXCEPT !.temp = IF @ \in {"none", "discarded"} THEN @ ELSE "stale", !.pc = "done"]
  <2>1. call'[c] = q
    BY <1>3, <1>7 DEF Crash
  <2>2. s \in Records /\ Owns(s, n, row) /\ s.answer = "crashed"
    BY <1>1, <1>2, AnsweredOwns, AnsweredShape DEF Answers
  <2> HIDE DEF s
  <2>3. /\ q.name = s.name /\ q.version = s.version /\ q.message = s.message
        /\ q.answer = s.answer /\ q.pc = "done"
    BY <2>2 DEF Records
  <2> HIDE DEF q
  <2> QED BY <2>1, <2>2, <2>3 DEF Owns
<1>8. CASE Discard(c)
  <2>1. r.pc = "discard" /\ r.answer \in {"updated", "failed", "crashed"}
    BY <1>8 DEF Discard, Owns
  <2>2. \/ \E temp \in {"committing", "discarded", "reported"}: call'[c] = At([r EXCEPT !.temp = temp], "done")
        \/ call'[c] = [r EXCEPT !.temp = "cleanup_failed"]
    BY <1>3, <1>8, <2>1 DEF Discard
  <2>3. CASE call'[c] = [r EXCEPT !.temp = "cleanup_failed"]
    BY <1>1, <1>2, <2>1, <2>3 DEF Owns, Records
  <2>4. ASSUME NEW temp, call'[c] = At([r EXCEPT !.temp = temp], "done") PROVE Owns(call'[c], n, row)
    BY <1>1, <1>2, <2>1, <2>4 DEF Owns, Records, At
  <2> QED BY <2>2, <2>3, <2>4
<1>9. ~(Request(c) \/ FindRun(c) \/ GetRef(c) \/ Resolve(c) \/ Load(c) \/ Fetch(c) \/ Prepare(c)
        \/ Create(c) \/ Verify(c) \/ Register(c) \/ Explain(c) \/ CompareAndSet(c) \/ Conflict(c) \/ Replay(c))
  BY <1>4 DEF Request, FindRun, GetRef, Resolve, Load, Fetch, Prepare, Create, Verify, Register,
              Explain, CompareAndSet, Conflict, Replay
<1> QED BY <1>5, <1>6, <1>7, <1>8, <1>9

\* The call whose statement moves a ref owns it.
LEMMA WinnerOwns ==
  ASSUME IInv, NEW c \in Calls, CompareAndSet(c), Matches(call[c])
  PROVE  /\ call[c].name \in Names
         /\ \A n \in Names: n # call[c].name => refs'[n] = refs[n]
         /\ Owns(call'[c], call[c].name, refs'[call[c].name])
<1> DEFINE r == call[c]
<1>1. r \in Records /\ Good(r, artifacts, manifests, layouts, runs) /\ World /\ call \in [Calls -> Records]
  BY OneCall DEF IInv, Calling
<1>2. r.pc = "compareAndSet" /\ r.name \in Names /\ r.answer = "none"
  BY <1>1 DEF CompareAndSet, Good, Asked, Records
<1>3. refs' = [refs EXCEPT ![r.name] = [version |-> r.version, message |-> r.message, deleted |-> FALSE]]
  BY DEF CompareAndSet
<1>4. call'[c] \in {Answered(r, "failed"), Succeeded(r)}
  BY <1>1 DEF CompareAndSet, Becomes
<1> HIDE DEF r
<1>5. refs'[r.name] = [version |-> r.version, message |-> r.message, deleted |-> FALSE]
  BY <1>1, <1>2, <1>3 DEF World
<1>6. \A n \in Names: n # r.name => refs'[n] = refs[n]
  BY <1>1, <1>2, <1>3 DEF World
<1> DEFINE row == refs'[r.name]
<1>7. r.version = row.version /\ r.message = row.message
  BY <1>5
<1> HIDE DEF row
<1>8. Owns(Answered(r, "failed"), r.name, row)
  BY <1>1, <1>7, AnsweredOwns
<1>9. Owns(Succeeded(r), r.name, row)
  <2>1. CASE r.kind = "transform" /\ r.temp # "none"
    <3>1. Succeeded(r) = At(r, "readBack")
      BY <2>1 DEF Succeeded
    <3> QED BY <1>1, <1>2, <1>7, <3>1 DEF At, Owns, Records
  <2>2. CASE ~(r.kind = "transform" /\ r.temp # "none")
    <3>1. r.name # None
      BY <1>2, NoneIsNothing
    <3>2. Succeeded(r) = Answered(r, "updated")
      BY <2>2, <3>1 DEF Succeeded
    <3> QED BY <1>1, <1>7, <3>2, AnsweredOwns
  <2> QED BY <2>1, <2>2
<1> QED BY <1>2, <1>4, <1>6, <1>8, <1>9 DEF r, row

\* Every step keeps the owners of the refs it leaves.
LEMMA OwnerStays ==
  ASSUME IInv, [Next]_vars, NEW d \in Calls, NEW n \in Names, NEW row, Owns(call[d], n, row)
  PROVE  Owns(call'[d], n, row)
<1>1. ASSUME NEW c \in Calls,
             \/ Request(c) \/ FindRun(c) \/ GetRef(c) \/ Resolve(c) \/ Load(c) \/ Fetch(c)
             \/ Prepare(c) \/ Create(c) \/ Verify(c) \/ Register(c) \/ Explain(c)
             \/ CompareAndSet(c) \/ Conflict(c) \/ Replay(c) \/ ReadBack(c)
             \/ Discard(c) \/ Fails(c) \/ Crash(c)
      PROVE  Owns(call'[d], n, row)
  <2>1. CASE c = d
    BY <1>1, <2>1, OwnerMoves
  <2>2. CASE c # d
    <3>1. call'[d] = call[d]
      BY <1>1, <2>2, OneMoves DEF IInv, Calling
    <3> QED BY <3>1
  <2> QED BY <2>1, <2>2
<1>2. CASE UNCHANGED call
  BY <1>2
<1>3. ASSUME NEW o \in inFlight, Arrive(o) PROVE UNCHANGED call
  BY <1>3 DEF Arrive
<1>4. ASSUME NEW n1 \in Names, NEW deleted \in BOOLEAN, Trash(n1, deleted) PROVE UNCHANGED call
  BY <1>4 DEF Trash
<1>5. UNCHANGED vars => UNCHANGED call
  BY DEF vars
<1> QED BY <1>1, <1>2, <1>3, <1>4, <1>5 DEF Next

LEMMA OwnersStep == ASSUME IInv, Owners, [Next]_vars PROVE Owners'
<1> SUFFICES ASSUME NEW n \in Names, refs'[n] # NoRef
             PROVE  \E c \in Calls: Owns(call'[c], n, refs'[n])
  BY DEF Owners
<1>1. CASE refs'[n] = refs[n]
  <2>1. PICK c \in Calls: Owns(call[c], n, refs[n])
    BY <1>1 DEF Owners
  <2>2. Owns(call'[c], n, refs[n])
    BY <2>1, OwnerStays
  <2> QED BY <1>1, <2>2
<1>2. ASSUME NEW c \in Calls, CompareAndSet(c), refs'[n] # refs[n]
      PROVE  \E d \in Calls: Owns(call'[d], n, refs'[n])
  <2>1. Matches(call[c])
    BY <1>2 DEF CompareAndSet
  <2>2. n = call[c].name
    BY <1>2, <2>1, WinnerOwns
  <2> QED BY <1>2, <2>1, <2>2, WinnerOwns
<1>3. ASSUME NEW n1 \in Names, NEW deleted \in BOOLEAN, Trash(n1, deleted), refs'[n] # refs[n]
      PROVE  \E c \in Calls: Owns(call'[c], n, refs'[n])
  <2>1. refs[n1] # NoRef /\ refs' = [refs EXCEPT ![n1].deleted = deleted] /\ refs \in [Names -> Rows]
    BY <1>3 DEF Trash, IInv, World
  <2>2. n = n1
    BY <1>3, <2>1
  <2>3. refs[n] # NoRef /\ refs'[n].version = refs[n].version /\ refs'[n].message = refs[n].message
    BY <2>1, <2>2 DEF Rows
  <2>4. PICK c \in Calls: Owns(call[c], n, refs[n])
    BY <2>3 DEF Owners
  <2>5. call' = call
    BY <1>3 DEF Trash
  <2> QED BY <2>3, <2>4, <2>5 DEF Owns
<1>4. ASSUME NEW c \in Calls, Register(c) PROVE refs' = refs
  BY <1>4 DEF Register
<1>5. UNCHANGED catalog => refs' = refs
  BY DEF catalog
<1>6. UNCHANGED vars => refs' = refs
  BY DEF vars, catalog
<1> QED BY <1>1, <1>2, <1>3, <1>4, <1>5, <1>6, CatalogSteps

\* A ref, in the trash too, is where a call put it that was told so, or was told
\* nothing certain: the loser of a layout, determinism or ref conflict never
\* moved a ref (#publish, #executeTransform, compareAndSetRef).
THEOREM RefsAreOwned == Spec => []RefHasAnOwner
<1>1. Init => Owners
  BY DEF Init, Owners
<1>2. Owners => RefHasAnOwner
  BY DEF Owners, RefHasAnOwner, Owns
<1> QED BY <1>1, <1>2, InvariantHolds, OwnersStep, PTL DEF Spec

------------------------------------------------------------------------------
(* Temporary files.                                                           *)

\* Where a call that has its answer may be with its file, and any other call.
Releasable == {"prepared", "committed", "cleanup_failed"}
Released == {"none", "discarded", "reported", "stale"}
Held == {"none", "committing", "committed", "discarded", "reported"}

\* No call is done before its file was dealt with; one that discards has a file
\* that can be discarded, and a call that registers has one.
Tidy(r) ==
  CASE r.pc = "done" -> r.temp \in Released
    [] r.pc = "discard" -> r.temp \in Releasable
    [] r.pc = "register" -> r.temp = "committed"
    [] OTHER -> r.temp \in Held

AllTidy == \A c \in Calls: Tidy(call[c])

LEMMA AtIsTidy ==
  ASSUME NEW r \in Records, r.temp \in Held, NEW pc, pc \notin {"done", "discard", "register"}
  PROVE  Tidy(At(r, pc))
BY DEF At, Records, Tidy

LEMMA AnsweredIsTidy ==
  ASSUME NEW r \in Records, r.temp \in Held, NEW answer \in Answers
  PROVE  Tidy(Answered(r, answer))
<1> DEFINE q == Remains(r, answer)
<1>1. /\ q \in Records /\ q.temp = r.temp
      /\ q.pc = IF r.temp \in {"committing", "committed"} THEN "discard" ELSE "done"
  BY DEF Remains, Records, Answers
<1> HIDE DEF q
<1>2. Answered(r, answer) = [q EXCEPT !.temp = IF @ = "committing" THEN "prepared" ELSE @]
  BY DEF Answered, q
<1>3. /\ Answered(r, answer).pc = q.pc
      /\ Answered(r, answer).temp = IF q.temp = "committing" THEN "prepared" ELSE q.temp
  BY <1>1, <1>2 DEF Records
<1> QED BY <1>1, <1>3 DEF Tidy, Held, Releasable, Released

LEMMA SucceededIsTidy ==
  ASSUME NEW r \in Records, r.temp \in Held
  PROVE  Tidy(Succeeded(r))
BY AtIsTidy, AnsweredIsTidy DEF Succeeded, Answers

LEMMA ThenRefIsTidy ==
  ASSUME NEW r \in Records, r.temp \in Held
  PROVE  Tidy(ThenRef(r))
BY AtIsTidy, SucceededIsTidy DEF ThenRef

\* The steps that only go on, or answer.
LEMMA StepsAreTidy ==
  ASSUME NEW c \in Calls, call[c] \in Records, Tidy(call[c]),
         \/ FindRun(c) \/ GetRef(c) \/ Resolve(c) \/ Load(c) \/ Fetch(c) \/ Prepare(c)
         \/ Register(c) \/ Explain(c) \/ CompareAndSet(c) \/ Conflict(c) \/ Replay(c)
         \/ ReadBack(c) \/ Fails(c)
  PROVE  \E s: Becomes(c, s) /\ Tidy(s)
<1> DEFINE r == call[c]
<1>1. r.temp \in Held /\ (\A answer \in Answers: Tidy(Answered(r, answer)))
  <2>1. r.pc \notin {"discard", "done"}
    BY DEF FindRun, GetRef, Resolve, Load, Fetch, Prepare, Register, Explain, CompareAndSet,
           Conflict, Replay, ReadBack, Fails
  <2>2. r.temp \in Held
    BY <2>1 DEF Tidy, Held
  <2> QED BY <2>2, AnsweredIsTidy
<1>2. \A pc \in {"prepare", "create", "fetch", "explain", "conflict", "replay"}: Tidy(At(r, pc))
  BY <1>1, AtIsTidy
<1>3. Tidy(Succeeded(r)) /\ Tidy(ThenRef(r))
  BY <1>1, SucceededIsTidy, ThenRefIsTidy
<1>4. \A v: Tidy([r EXCEPT !.version = v, !.pc = "resolve"])
  BY <1>1 DEF Records, Tidy
<1>5. \A d: Tidy([r EXCEPT !.digest = d, !.pc = "load"])
  BY <1>1 DEF Records, Tidy
<1>6. \A v, d: Tidy([r EXCEPT !.version = v, !.digest = d, !.temp = "committing",
                              !.object = "artifact", !.attempt = 1, !.pc = "create"])
  BY DEF Records, Tidy, Held
<1>7. CASE FindRun(c)
  BY <1>2, <1>4, <1>7 DEF FindRun
<1>8. CASE GetRef(c)
  BY <1>1, <1>4, <1>8 DEF GetRef, Answers
<1>9. CASE Resolve(c)
  BY <1>1, <1>5, <1>9 DEF Resolve, Answers
<1>10. CASE Load(c)
  BY <1>1, <1>2, <1>10 DEF Load, Answers
<1>11. CASE Fetch(c)
  BY <1>1, <1>3, <1>11 DEF Fetch, Answers
<1>12. CASE Prepare(c)
  BY <1>6, <1>12 DEF Prepare
<1>13. CASE Register(c)
  <2>1. r.pc = "register" /\ r.temp = "committed"
    BY <1>13 DEF Register, Tidy
  <2>2. Tidy(At(r, "discard"))
    BY <2>1 DEF At, Records, Tidy, Releasable
  <2> QED BY <1>1, <1>2, <1>3, <1>13, <2>2 DEF Register, Answers
<1>14. CASE Explain(c)
  BY <1>1, <1>14 DEF Explain, Answers
<1>15. CASE CompareAndSet(c)
  BY <1>1, <1>2, <1>3, <1>15 DEF CompareAndSet, Answers
<1>16. CASE Conflict(c)
  BY <1>1, <1>2, <1>16 DEF Conflict, Answers
<1>17. CASE Replay(c)
  BY <1>1, <1>3, <1>17 DEF Replay, Answers
<1>18. CASE ReadBack(c)
  BY <1>1, <1>18 DEF ReadBack, Answers
<1>19. CASE Fails(c)
  BY <1>1, <1>19 DEF Fails, Answers
<1> QED BY <1>7, <1>8, <1>9, <1>10, <1>11, <1>12, <1>13, <1>14, <1>15, <1>16, <1>17, <1>18, <1>19

\* The steps of the object store: the file is committed with its manifest.
LEMMA CommitsAreTidy ==
  ASSUME NEW c \in Calls, call[c] \in Records, Tidy(call[c]), Create(c) \/ Verify(c)
  PROVE  \E s: Becomes(c, s) /\ Tidy(s)
<1> DEFINE r == call[c]
<1>1. r.pc \in {"create", "verify"} /\ r.temp \in Held
  BY DEF Create, Verify, Tidy
<1>2. \A answer \in Answers: Tidy(Answered(r, answer))
  BY <1>1, AnsweredIsTidy
<1>3. Tidy(Committed(r))
  <2> DEFINE p == [r EXCEPT !.object = "manifest", !.attempt = 1, !.exists = FALSE, !.pc = "create"]
             q == [r EXCEPT !.object = "artifact", !.attempt = 1, !.exists = FALSE,
                            !.temp = "committed", !.pc = "register"]
  <2>1. Tidy(p)
    BY <1>1 DEF Records, Tidy
  <2>2. Tidy(q)
    BY DEF Records, Tidy
  <2> QED BY <2>1, <2>2 DEF Committed
<1>4. /\ \A e \in BOOLEAN: Tidy([r EXCEPT !.exists = e, !.pc = "verify"])
      /\ Tidy([r EXCEPT !.attempt = 2, !.pc = "create"])
  BY <1>1 DEF Records, Tidy
<1>5. CASE Create(c)
  BY <1>3, <1>4, <1>5 DEF Create
<1>6. CASE Verify(c)
  BY <1>2, <1>3, <1>4, <1>6 DEF Verify, Answers
<1> QED BY <1>5, <1>6

\* A file is removed, or its removal failed twice and was reported; a call that
\* dies leaves it to the stale-file sweep.
LEMMA EndsAreTidy ==
  ASSUME NEW c \in Calls, call[c] \in Records, Tidy(call[c]), Discard(c) \/ Crash(c)
  PROVE  \E s: Becomes(c, s) /\ Tidy(s)
<1> DEFINE r == call[c]
<1>1. CASE Discard(c)
  <2> DEFINE With(temp) == [r EXCEPT !.temp = temp]
             Ends(temp) == IF r.answer = "none" THEN ThenRef(With(temp)) ELSE At(With(temp), "done")
  <2>1. r.pc = "discard" /\ r.temp \in Releasable
    BY <1>1 DEF Discard, Tidy
  <2>2. Becomes(c, Ends("discarded")) \/ Becomes(c, Ends("reported")) \/ Becomes(c, With("cleanup_failed"))
    BY <1>1, <2>1 DEF Discard, Releasable
  <2>3. \A temp \in {"discarded", "reported"}: Tidy(Ends(temp))
    <3> SUFFICES ASSUME NEW temp \in {"discarded", "reported"} PROVE Tidy(Ends(temp))
      OBVIOUS
    <3>1. With(temp) \in Records /\ With(temp).temp = temp
      BY DEF Records
    <3> DEFINE s == With(temp)
    <3>2. s \in Records /\ s.temp = temp
      BY <3>1
    <3> HIDE DEF s
    <3>3. Tidy(ThenRef(s))
      BY <3>2, ThenRefIsTidy DEF Held
    <3>4. Tidy(At(s, "done"))
      BY <3>2 DEF At, Records, Tidy, Released
    <3> QED BY <3>3, <3>4 DEF s
  <2>4. Tidy(With("cleanup_failed"))
    BY <2>1 DEF Records, Tidy, Releasable
  <2> QED BY <2>2, <2>3, <2>4
<1>2. CASE Crash(c)
  <2> DEFINE q == Remains(r, "crashed")
             s == [q EXCEPT !.temp = IF @ \in {"none", "discarded"} THEN @ ELSE "stale", !.pc = "done"]
  <2>1. q \in Records
    BY AnsweredShape DEF Answers
  <2>2. Becomes(c, s)
    BY <1>2 DEF Crash
  <2> HIDE DEF q
  <2>3. s.pc = "done" /\ s.temp \in {"none", "discarded", "stale"}
    BY <2>1 DEF Records
  <2> HIDE DEF s
  <2>4. Tidy(s)
    BY <2>3 DEF Tidy, Released
  <2> QED BY <2>2, <2>4
<1> QED BY <1>1, <1>2

LEMMA TidyStep == ASSUME IInv, AllTidy, [Next]_vars PROVE AllTidy'
<1> SUFFICES ASSUME NEW d \in Calls PROVE Tidy(call'[d])
  BY DEF AllTidy
<1>0. Tidy(call[d]) /\ call \in [Calls -> Records]
  BY DEF AllTidy, IInv, Calling
<1>1. CASE UNCHANGED call
  BY <1>0, <1>1
<1>2. ASSUME NEW c \in Calls, NEW s, Becomes(c, s), Tidy(s) PROVE Tidy(call'[d])
  BY <1>0, <1>2 DEF Becomes
<1>3. ASSUME NEW c \in Calls, Request(c) PROVE \E s: Becomes(c, s) /\ Tidy(s)
  <2>1. PICK kind \in Kinds, k \in Keys \cup {None}, n \in Names \cup {None},
             v \in Versions \cup {None}, e \in Versions \cup {None}, m \in Messages \cup {None}:
          /\ (k # None) = (kind = "transform")
          /\ (v # None) = (kind \in {"publish", "point"})
          /\ kind \in {"point", "read"} => n # None
          /\ n = None => e = None
          /\ (m # None) = (kind # "read" /\ n # None)
          /\ kind = "read" => e = None
          /\ Becomes(c, Asks(FirstStep(kind), kind, k, n, e, m, v))
    BY <1>3 DEF Request
  <2>2. FirstStep(kind) \in {"prepare", "findRun", "compareAndSet", "getRef"}
    BY KindsAreRequests DEF FirstStep
  <2>3. Tidy(Asks(FirstStep(kind), kind, k, n, e, m, v))
    BY <2>2 DEF Asks, Tidy, Held
  <2> QED BY <2>1, <2>3
<1>4. ASSUME NEW c \in Calls,
             \/ Request(c) \/ FindRun(c) \/ GetRef(c) \/ Resolve(c) \/ Load(c) \/ Fetch(c)
             \/ Prepare(c) \/ Create(c) \/ Verify(c) \/ Register(c) \/ Explain(c)
             \/ CompareAndSet(c) \/ Conflict(c) \/ Replay(c) \/ ReadBack(c)
             \/ Discard(c) \/ Fails(c) \/ Crash(c)
      PROVE  Tidy(call'[d])
  <2>1. call[c] \in Records /\ Tidy(call[c])
    BY <1>0 DEF AllTidy
  <2>2. \E s: Becomes(c, s) /\ Tidy(s)
    BY <1>3, <1>4, <2>1, StepsAreTidy, CommitsAreTidy, EndsAreTidy
  <2> QED BY <1>2, <2>2
<1>5. ASSUME NEW o \in inFlight, Arrive(o) PROVE UNCHANGED call
  BY <1>5 DEF Arrive
<1>6. ASSUME NEW n \in Names, NEW deleted \in BOOLEAN, Trash(n, deleted) PROVE UNCHANGED call
  BY <1>6 DEF Trash
<1>7. UNCHANGED vars => UNCHANGED call
  BY DEF vars
<1> QED BY <1>1, <1>4, <1>5, <1>6, <1>7 DEF Next

\* Whatever fails and wherever the call was, #discardPrepared has removed its
\* temporary file, or reported it, when the call is done.
THEOREM TempsAreReleased == Spec => []TempIsReleased
<1>1. Init => AllTidy
  <2>1. Idle.pc = "idle" /\ Idle.temp = "none"
    BY DEF Idle, Asks
  <2>2. Tidy(Idle)
    BY <2>1 DEF Tidy, Held
  <2> QED BY <2>2 DEF Init, AllTidy
<1>2. AllTidy => TempIsReleased
  BY DEF AllTidy, Tidy, Released, TempIsReleased
<1> QED BY <1>1, <1>2, InvariantHolds, TidyStep, PTL DEF Spec
=============================================================================
