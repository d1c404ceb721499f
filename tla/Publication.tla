---------------------------- MODULE Publication ----------------------------
(* How a dataset version is published: bytes and manifest in the object       *)
(* store (packages/store/src/v2/store.ts), then layout and run in the         *)
(* catalog, then the ref (packages/workspace/src/v2/workspace.ts #publish,    *)
(* #executeTransform; packages/catalog/src/v2/catalog.ts).  There is no        *)
(* transaction over the two stores: what keeps them consistent is the order    *)
(* of the steps and that each of them is a conditional write.                  *)
(*                                                                            *)
(* A member of Calls is one API call, in any process, and is made once; a      *)
(* client that repeats a request is another call that asks for the same.       *)
(* An action is what a call does between two awaits.                           *)
EXTENDS Naturals

CONSTANTS
  Calls, Versions, Names, Keys, None,
  Digests,    \* what encoding a dataset may yield: one digest for each release
  Messages,   \* what a ref update may say
  Kinds       \* the kinds of calls: see Request

ASSUME NoneIsNothing == None \notin Versions \cup Names \cup Keys \cup Digests
ASSUME KindsAreRequests == Kinds \subseteq {"publish", "transform", "point", "read"}

VARIABLES
  artifacts,  \* the artifact objects; their key names version and digest
  manifests,  \* manifests[v]: the digest the manifest object of v names
  inFlight,   \* conditional creates that were given up and may still arrive
  layouts,    \* layouts[v]: the digest of the registered layout
  runs,       \* runs[k]: the output version of the run of cache key k
  refs,       \* refs[n]: the row of the ref
  call        \* call[c]: the local state of a call

store == <<artifacts, manifests, inFlight>>
catalog == <<layouts, runs, refs>>
vars == <<store, catalog, call>>

NoRef == [version |-> None, message |-> None, deleted |-> FALSE]

\* A call that asks for something and has nothing yet.
Asks(pc, kind, key, name, expected, message, version) ==
  [pc |-> pc, kind |-> kind, key |-> key, name |-> name, expected |-> expected,
   message |-> message, version |-> version, digest |-> None,
   object |-> "artifact", attempt |-> 1, exists |-> FALSE, temp |-> "none", answer |-> "none"]

Idle == Asks("idle", "none", None, None, None, None, None)

Init ==
  /\ artifacts = {}
  /\ manifests = [v \in Versions |-> None]
  /\ inFlight = {}
  /\ layouts = [v \in Versions |-> None]
  /\ runs = [k \in Keys |-> None]
  /\ refs = [n \in Names |-> NoRef]
  /\ call = [c \in Calls |-> Idle]

-----------------------------------------------------------------------------
(* The course of a call.                                                      *)
Becomes(c, r) == call' = [call EXCEPT ![c] = r]
At(r, pc) == [r EXCEPT !.pc = pc]

\* What is left of a call that has its answer.
Remains(r, answer) ==
  [pc |-> IF r.temp \in {"committing", "committed"} THEN "discard" ELSE "done",
   kind |-> r.kind, key |-> r.key, name |-> r.name, expected |-> None,
   message |-> r.message, version |-> r.version, digest |-> r.digest,
   object |-> "artifact", attempt |-> 1, exists |-> FALSE, temp |-> r.temp, answer |-> answer]

\* Mutant: a commit that throws stays "committing".
Answered_noReset(r, answer) == Remains(r, answer)

\* The answer is decided.  A commit that throws makes its artifact discardable
\* again, and a call with an undiscarded artifact discards it.
Answered(r, answer) ==
  [Remains(r, answer) EXCEPT !.temp = IF @ = "committing" THEN "prepared" ELSE @]

\* The ref stands, or none was asked for.  A transform that made its output
\* reads the run back.
Succeeded(r) ==
  IF r.kind = "transform" /\ r.temp # "none" THEN At(r, "readBack")
  ELSE Answered(r, IF r.name = None THEN "published" ELSE "updated")

ThenRef(r) == IF r.name = None THEN Succeeded(r) ELSE At(r, "compareAndSet")

(* "publish": addRecords and the other ingests (#publish).  "transform":      *)
(* runTransform for the cache key (#executeTransform).  "point": putRef.      *)
(* "read": any read of a ref (#resolveLayout, Store.read).                    *)
FirstStep(kind) ==
  CASE kind = "publish" -> "prepare" [] kind = "transform" -> "findRun"
    [] kind = "point" -> "compareAndSet" [] kind = "read" -> "getRef"

Request(c) ==
  /\ call[c].pc = "idle"
  /\ \E kind \in Kinds, k \in Keys \cup {None}, n \in Names \cup {None},
        v \in Versions \cup {None}, expected \in Versions \cup {None},
        m \in Messages \cup {None}:
       /\ (k # None) = (kind = "transform")
       /\ (v # None) = (kind \in {"publish", "point"})
       /\ kind \in {"point", "read"} => n # None
       /\ n = None => expected = None
       /\ (m # None) = (kind # "read" /\ n # None)
       /\ kind = "read" => expected = None
       /\ Becomes(c, Asks(FirstStep(kind), kind, k, n, expected, m, v))
  /\ UNCHANGED <<store, catalog>>

\* #findRun of #executeTransform: a cache hit is verified, a miss is computed.
FindRun(c) ==
  LET r == call[c] IN
  /\ r.pc = "findRun"
  /\ Becomes(c, IF runs[r.key] = None THEN At(r, "prepare")
                ELSE [r EXCEPT !.version = runs[r.key], !.pc = "resolve"])
  /\ UNCHANGED <<store, catalog>>

-----------------------------------------------------------------------------
(* Reading: #resolveLayout, #readManifest and #load of the store.             *)
GetRef(c) ==
  LET r == call[c] IN
  /\ r.pc = "getRef"
  /\ Becomes(c, IF refs[r.name] = NoRef \/ refs[r.name].deleted THEN Answered(r, "notFound")
                ELSE [r EXCEPT !.version = refs[r.name].version, !.pc = "resolve"])
  /\ UNCHANGED <<store, catalog>>

Resolve(c) ==
  LET r == call[c] IN
  /\ r.pc = "resolve"
  /\ Becomes(c, IF layouts[r.version] = None THEN Answered(r, "integrity")
                ELSE [r EXCEPT !.digest = layouts[r.version], !.pc = "load"])
  /\ UNCHANGED <<store, catalog>>

Load(c) ==
  LET r == call[c] IN
  /\ r.pc = "load"
  /\ Becomes(c, IF manifests[r.version] # r.digest THEN Answered(r, "integrity") ELSE At(r, "fetch"))
  /\ UNCHANGED <<store, catalog>>

\* Size and digest are verified before anything is decoded.
Fetch(c) ==
  LET r == call[c] IN
  /\ r.pc = "fetch"
  /\ Becomes(c, IF <<r.version, r.digest>> \notin artifacts THEN Answered(r, "integrity")
                ELSE IF r.kind = "read" THEN Answered(r, "read") ELSE ThenRef(r))
  /\ UNCHANGED <<store, catalog>>

-----------------------------------------------------------------------------
(* Writing to the object store: prepare() and commit().                       *)

\* prepare() encodes the dataset into a temporary file; commit() follows without
\* an await.  What a transform computes is its output version.
Prepare(c) ==
  LET r == call[c] IN
  /\ r.pc = "prepare"
  /\ \E v \in Versions, d \in Digests:
       /\ r.kind = "publish" => v = r.version
       /\ Becomes(c, [r EXCEPT !.version = v, !.digest = d, !.temp = "committing",
                               !.object = "artifact", !.attempt = 1, !.pc = "create"])
  /\ UNCHANGED <<store, catalog>>

\* The object a call is creating, and what stands at its key.
Wanted(r) == [object |-> r.object, version |-> r.version, digest |-> r.digest]
Absent(o) == IF o.object = "artifact" THEN <<o.version, o.digest>> \notin artifacts
             ELSE manifests[o.version] = None
Stands(o) == IF o.object = "artifact" THEN <<o.version, o.digest>> \in artifacts
             ELSE manifests[o.version] = o.digest

\* Mutant: a plain PUT.
Put_overwrites(o) ==
  IF o.object = "artifact"
  THEN artifacts' = artifacts \cup {<<o.version, o.digest>>} /\ UNCHANGED manifests
  ELSE manifests' = [manifests EXCEPT ![o.version] = o.digest] /\ UNCHANGED artifacts

\* A conditional create reaches the object store: If-None-Match: *, or
\* x-oss-forbid-overwrite.
Put(o) ==
  IF Absent(o)
  THEN IF o.object = "artifact"
       THEN artifacts' = artifacts \cup {<<o.version, o.digest>>} /\ UNCHANGED manifests
       ELSE manifests' = [manifests EXCEPT ![o.version] = o.digest] /\ UNCHANGED artifacts
  ELSE UNCHANGED <<artifacts, manifests>>

\* The object is there: the manifest follows the artifact, the catalog both.
Committed(r) ==
  IF r.object = "artifact"
  THEN [r EXCEPT !.object = "manifest", !.attempt = 1, !.exists = FALSE, !.pc = "create"]
  ELSE [r EXCEPT !.object = "artifact", !.attempt = 1, !.exists = FALSE,
                 !.temp = "committed", !.pc = "register"]

\* conditionalCreate answers "created", "already_exists", or "ambiguous": the
\* request may have arrived, may arrive later, or never.  (A definite failure is
\* Fails.)
Create(c) ==
  LET r == call[c] IN
  /\ r.pc = "create"
  /\ \/ /\ Absent(Wanted(r))
        /\ Put(Wanted(r))
        /\ Becomes(c, Committed(r))
        /\ UNCHANGED inFlight
     \/ /\ ~Absent(Wanted(r))
        /\ Becomes(c, [r EXCEPT !.exists = TRUE, !.pc = "verify"])
        /\ UNCHANGED store
     \/ /\ inFlight' = inFlight \cup {Wanted(r)}
        /\ Becomes(c, [r EXCEPT !.exists = FALSE, !.pc = "verify"])
        /\ UNCHANGED <<artifacts, manifests>>
  /\ UNCHANGED catalog

\* A request whose caller gave up arrives.
Arrive(o) ==
  /\ o \in inFlight
  /\ inFlight' = inFlight \ {o}
  /\ Put(o)
  /\ UNCHANGED <<catalog, call>>

\* Mutant: an existing manifest is taken for one's own.
Verify_anyManifest(c) ==
  LET r == call[c] IN
  /\ r.pc = "verify"
  /\ Becomes(c, IF ~Absent(Wanted(r)) THEN Committed(r)
                ELSE IF r.exists THEN Answered(r, "integrity")
                ELSE IF r.attempt = 1 THEN [r EXCEPT !.attempt = 2, !.pc = "create"]
                ELSE Answered(r, "failed"))
  /\ UNCHANGED <<store, catalog>>

\* resolveConditionalCreate: what stands decides; an ambiguous create is repeated
\* once.  Only a manifest can be somebody else's (LayoutConflictErrorV2).
Verify(c) ==
  LET r == call[c] IN
  /\ r.pc = "verify"
  /\ Becomes(c, IF Stands(Wanted(r)) THEN Committed(r)
                ELSE IF ~Absent(Wanted(r)) THEN Answered(r, "layoutConflict")
                ELSE IF r.exists THEN Answered(r, "integrity")
                ELSE IF r.attempt = 1 THEN [r EXCEPT !.attempt = 2, !.pc = "create"]
                ELSE Answered(r, "failed"))
  /\ UNCHANGED <<store, catalog>>

-----------------------------------------------------------------------------
(* Registration and refs.                                                     *)
Concludes(r) == r.kind = "transform"

\* registerCommittedLayout, and registerTransformResult with its run: one
\* transaction that writes each row once and rolls back when a row that stands
\* differs.  The answer of the committed transaction may be lost.
Register(c) ==
  LET r == call[c] IN
  /\ r.pc = "register"
  /\ IF layouts[r.version] \notin {None, r.digest}
     THEN Becomes(c, Answered(r, "integrity")) /\ UNCHANGED <<layouts, runs>>
     ELSE IF Concludes(r) /\ runs[r.key] \notin {None, r.version}
     THEN Becomes(c, At(r, "explain")) /\ UNCHANGED <<layouts, runs>>
     ELSE /\ layouts' = [layouts EXCEPT ![r.version] = r.digest]
          /\ runs' = IF Concludes(r) THEN [runs EXCEPT ![r.key] = r.version] ELSE runs
          /\ \/ Becomes(c, Answered(r, "failed"))
             \/ Becomes(c, IF Concludes(r) THEN At(r, "discard") ELSE ThenRef(r))
  /\ UNCHANGED <<store, refs>>

\* #throwTransformDeterminismConflict reads the run that won.
Explain(c) ==
  LET r == call[c] IN
  /\ r.pc = "explain"
  /\ Becomes(c, Answered(r, IF runs[r.key] \in {None, r.version} THEN "integrity" ELSE "determinism"))
  /\ UNCHANGED <<store, catalog>>

\* Mutant: the target is not looked up.
Matches_anyTarget(r) ==
  IF r.expected = None THEN refs[r.name] = NoRef
  ELSE refs[r.name].version = r.expected /\ ~refs[r.name].deleted

\* The condition of the statement of compareAndSetRef.
Matches(r) ==
  /\ layouts[r.version] # None
  /\ IF r.expected = None THEN refs[r.name] = NoRef
     ELSE refs[r.name].version = r.expected /\ ~refs[r.name].deleted

\* Mutant: an upsert that looks for the conflict afterwards.
CompareAndSet_upsert(c) ==
  LET r == call[c] IN
  /\ r.pc = "compareAndSet"
  /\ refs' = IF layouts[r.version] = None THEN refs
             ELSE [refs EXCEPT ![r.name] = [version |-> r.version, message |-> r.message, deleted |-> FALSE]]
  /\ Becomes(c, IF Matches(r) THEN Succeeded(r) ELSE At(r, "conflict"))
  /\ UNCHANGED <<store, layouts, runs>>

\* The single statement: the ref moves if it is where it is expected, or does not
\* exist yet.  The answer may be lost.
CompareAndSet(c) ==
  LET r == call[c] IN
  /\ r.pc = "compareAndSet"
  /\ IF Matches(r)
     THEN /\ refs' = [refs EXCEPT ![r.name] = [version |-> r.version, message |-> r.message, deleted |-> FALSE]]
          /\ \/ Becomes(c, Answered(r, "failed"))
             \/ Becomes(c, Succeeded(r))
     ELSE Becomes(c, At(r, "conflict")) /\ UNCHANGED refs
  /\ UNCHANGED <<store, layouts, runs>>

\* Mutant: the target is not looked at again.
Conflict_anyTarget(c) ==
  LET r == call[c] IN
  /\ r.pc = "conflict"
  /\ Becomes(c, IF r.kind = "publish" /\ refs[r.name].version = r.version
                THEN At(r, "replay") ELSE Answered(r, "refConflict"))
  /\ UNCHANGED <<store, catalog>>

\* What the conflict says is read afterwards.  #publish looks again when the ref
\* already is where it wanted it.
Conflict(c) ==
  LET r == call[c] IN
  /\ r.pc = "conflict"
  /\ Becomes(c, IF layouts[r.version] = None
                THEN Answered(r, IF r.kind = "point" THEN "notFound" ELSE "integrity")
                ELSE IF r.kind = "publish" /\ refs[r.name].version = r.version
                THEN At(r, "replay") ELSE Answered(r, "refConflict"))
  /\ UNCHANGED <<store, catalog>>

\* The request was already carried out: same version, same message.
Replay(c) ==
  LET r == call[c] IN
  /\ r.pc = "replay"
  /\ Becomes(c, IF refs[r.name] = [version |-> r.version, message |-> r.message, deleted |-> FALSE]
                THEN Succeeded(r) ELSE Answered(r, "refConflict"))
  /\ UNCHANGED <<store, catalog>>

\* The end of #executeTransform.
ReadBack(c) ==
  LET r == call[c] IN
  /\ r.pc = "readBack"
  /\ Becomes(c, Answered(r, IF runs[r.key] # r.version THEN "integrity"
                            ELSE IF r.name = None THEN "published" ELSE "updated"))
  /\ UNCHANGED <<store, catalog>>

-----------------------------------------------------------------------------
(* Failures and cleanup.                                                      *)

\* #discardPrepared tries twice to remove the temporary file, then reports it;
\* Store.discard refuses an artifact that is still being committed.  A transform
\* discards before its ref update, every other call at its end.
Discard(c) ==
  LET r == call[c]
      Ends(temp) == LET s == [r EXCEPT !.temp = temp]
                    IN  IF r.answer = "none" THEN ThenRef(s) ELSE At(s, "done")
  IN
  /\ r.pc = "discard"
  /\ \/ Becomes(c, Ends(IF r.temp = "committing" THEN r.temp ELSE "discarded"))
     \/ Becomes(c, IF r.temp \in {"prepared", "committed"} THEN [r EXCEPT !.temp = "cleanup_failed"]
                   ELSE Ends(IF r.temp = "committing" THEN r.temp ELSE "reported"))
  /\ UNCHANGED <<store, catalog>>

\* A dependency fails, the signal fires, a local check fails: wherever the call
\* waits it may throw instead.
Fails(c) ==
  /\ call[c].pc \notin {"idle", "discard", "done"}
  /\ Becomes(c, Answered(call[c], "failed"))
  /\ UNCHANGED <<store, catalog>>

\* The process dies; V2TempStore removes its files when they are stale.
Crash(c) ==
  /\ call[c].pc \notin {"idle", "done"}
  /\ Becomes(c, [Remains(call[c], "crashed") EXCEPT
                  !.temp = IF @ \in {"none", "discarded"} THEN @ ELSE "stale", !.pc = "done"])
  /\ UNCHANGED <<store, catalog>>

\* deleteRef and restoreRef: the trash.
Trash(n, deleted) ==
  /\ refs[n] # NoRef /\ refs[n].deleted # deleted
  /\ refs' = [refs EXCEPT ![n].deleted = deleted]
  /\ UNCHANGED <<store, layouts, runs, call>>

-----------------------------------------------------------------------------
Next ==
  \/ \E c \in Calls:
       \/ Request(c) \/ FindRun(c) \/ GetRef(c) \/ Resolve(c) \/ Load(c) \/ Fetch(c)
       \/ Prepare(c) \/ Create(c) \/ Verify(c) \/ Register(c) \/ Explain(c)
       \/ CompareAndSet(c) \/ Conflict(c) \/ Replay(c) \/ ReadBack(c)
       \/ Discard(c) \/ Fails(c) \/ Crash(c)
  \/ \E o \in inFlight: Arrive(o)
  \/ \E n \in Names, deleted \in BOOLEAN: Trash(n, deleted)

Spec == Init /\ [][Next]_vars

-----------------------------------------------------------------------------
Objects == [object: {"artifact", "manifest"}, version: Versions, digest: Digests]
Rows == [version: Versions \cup {None}, message: Messages \cup {None}, deleted: BOOLEAN]
Records ==
  [pc: {"idle", "findRun", "getRef", "resolve", "load", "fetch", "prepare", "create",
        "verify", "register", "explain", "compareAndSet", "conflict", "replay",
        "readBack", "discard", "done"},
   kind: Kinds \cup {"none"}, key: Keys \cup {None}, name: Names \cup {None},
   expected: Versions \cup {None}, message: Messages \cup {None},
   version: Versions \cup {None}, digest: Digests \cup {None},
   object: {"artifact", "manifest"}, attempt: {1, 2}, exists: BOOLEAN,
   temp: {"none", "committing", "prepared", "committed", "discarded",
          "cleanup_failed", "reported", "stale"},
   answer: {"none", "published", "updated", "read", "notFound", "failed", "crashed",
            "layoutConflict", "refConflict", "determinism", "integrity"}]

TypeOK ==
  /\ artifacts \subseteq Versions \X Digests
  /\ manifests \in [Versions -> Digests \cup {None}]
  /\ inFlight \subseteq Objects
  /\ layouts \in [Versions -> Digests \cup {None}]
  /\ runs \in [Keys -> Versions \cup {None}]
  /\ refs \in [Names -> Rows]
  /\ call \in [Calls -> Records]

Readable(v) == /\ layouts[v] # None
               /\ manifests[v] = layouts[v]
               /\ <<v, layouts[v]>> \in artifacts

\* A registered layout is the one the store committed to and its bytes are
\* there, whichever creates are still under way, and whatever a ref names, in the
\* trash too, or a run produced is registered (Store.commit,
\* registerLayoutInTransaction, compareAndSetRef).
PublishedIsReadable ==
  /\ \A v \in Versions: layouts[v] # None => Readable(v)
  /\ \A n \in Names: refs[n] # NoRef => layouts[refs[n].version] # None
  /\ \A k \in Keys: runs[k] # None => layouts[runs[k]] # None

\* The integrity errors of these paths are alarms (an object that vanished, a
\* ref without a dataset, a layout that differs from the committed one, a run
\* that is not there): races, crashes and lost answers never raise them.
NoIntegrityError == \A c \in Calls: call[c].answer # "integrity"

\* What an answer claims is so: the version is published with the bytes of this
\* call and the run names it; a conflict is a real one, and the dataset it says
\* is committed (new_dataset_committed, attempted_dataset_committed) is.
AnswersAreTrue == \A c \in Calls:
  LET r == call[c] IN
  /\ r.answer \in {"published", "updated", "read"} =>
       /\ layouts[r.version] # None
       /\ r.kind # "point" => layouts[r.version] = r.digest
       /\ r.kind = "transform" => runs[r.key] = r.version
  /\ r.answer = "refConflict" => layouts[r.version] # None
  /\ r.answer = "layoutConflict" => manifests[r.version] \notin {None, r.digest}
  /\ r.answer = "determinism" =>
       /\ runs[r.key] \notin {None, r.version}
       /\ manifests[r.version] = r.digest /\ <<r.version, r.digest>> \in artifacts

\* A ref is where some call put it that was not told that it lost: the loser of
\* a layout, determinism or ref conflict never moves a ref ("losing workers
\* must not move the ref").
RefHasAnOwner == \A n \in Names: refs[n] # NoRef =>
  \E c \in Calls:
    /\ call[c].name = n
    /\ call[c].version = refs[n].version /\ call[c].message = refs[n].message
    /\ call[c].answer \in {"none", "updated", "failed", "crashed"}

\* A call that has answered left no temporary file behind, unless removing it
\* failed twice, which is reported (#discardPrepared).
TempIsReleased == \A c \in Calls:
  call[c].pc = "done" => call[c].temp \in {"none", "discarded", "reported", "stale"}

Abstract == INSTANCE PublishedData WITH
  readable <- {v \in Versions: Readable(v)},
  results <- runs,
  pointers <- [n \in Names |-> refs[n].version]

\* The steps of all calls together are steps of the promise.
ImplementsPublished == Abstract!PSpec
=============================================================================
