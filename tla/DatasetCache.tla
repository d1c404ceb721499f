---------------------------- MODULE DatasetCache ----------------------------
(* The process-local cache of verified datasets                               *)
(* (packages/workspace/src/v2/cache.ts): loads shared by their waiters, a      *)
(* bounded number of load slots, one byte budget for decoded datasets and      *)
(* loads in flight, pins, LRU eviction and explicit eviction.                  *)
(*                                                                             *)
(* A member of Calls makes one acquire() or runUncached() call.  A cache entry *)
(* is named after the call that created it.  JavaScript runs one callback at a *)
(* time, so an action is the code between two awaits.                          *)
EXTENDS Integers, FiniteSets, SequencesExt

CONSTANTS
  Calls, Keys, None,
  Capacity,            \* capacityBytes
  MaxEntryWeight,      \* the worst-case bytes a load reserves
  Weights,             \* the weights loaded datasets turn out to have
  MaxConcurrentLoads, MaxPendingLoads,
  SettleCalls          \* the calls that pass settleOnAbort to acquire()

ASSUME CacheOptions ==
  /\ Capacity \in Nat /\ MaxEntryWeight \in Nat /\ Weights \subseteq Nat
  /\ MaxConcurrentLoads \in Nat \ {0} /\ MaxPendingLoads \in Nat \ {0}
  /\ None \notin Calls \cup Keys /\ SettleCalls \subseteq Calls

VARIABLES
  cache,  \* the fields of V2DatasetCache
  call    \* call[c]: what the caller knows

vars == <<cache, call>>

(* An entry.  The phase is "queued" until a slot is taken ("loading" and not   *)
(* started in the code), "running", then "ready" or "failed"; an uncached      *)
(* operation, which the code calls settled, ends "ready" or "failed" too, with *)
(* nothing retained.  slot: the finally callback that frees the load slot is   *)
(* still to come.                                                              *)
NoEntry == [phase |-> "none", key |-> None, waiters |-> 0, aborted |-> FALSE,
            reservation |-> 0, slot |-> FALSE, weight |-> 0, pins |-> 0,
            evictOnRelease |-> FALSE, retained |-> FALSE]

\* key is None for an uncached operation, which waiters do not share.
NewEntry(k) == [NoEntry EXCEPT !.phase = "queued", !.key = k, !.waiters = 1]

Loading(c, e) == c.entry[e].phase \in {"queued", "running"}

Init ==
  /\ cache = [map |-> [k \in Keys |-> None],          \* #entries
              entry |-> [e \in Calls |-> NoEntry],
              queue |-> <<>>,                         \* #loadQueue
              older |-> {},   \* <<x, e>>: x was used before e (lastAccess)
              activeLoads |-> 0, used |-> 0, reserved |-> 0]
  /\ call = [c \in Calls |-> [state |-> "idle", entry |-> None]]

-----------------------------------------------------------------------------
(* Memory.                                                                    *)
Mapped(c, e) == c.entry[e].key # None /\ c.map[c.entry[e].key] = e
Unmap(c, e) == IF Mapped(c, e) THEN [c EXCEPT !.map[c.entry[e].key] = None] ELSE c

\* The bytes of the datasets in S, one pair each: what is counted is what is held.
\* (No dataset is kept that is heavier than its reservation.)
Bytes(entry, S) == {p \in S \X (1..MaxEntryWeight): p[2] <= entry[p[1]].weight}

\* The relation behind lastAccess says nothing of the entries in S.
Unrelated(older, S) == {p \in older: p[1] \notin S /\ p[2] \notin S}

\* lastAccess = #tick(): e is now the youngest of the datasets the map offers.
Touch(c, e) ==
  [c EXCEPT !.older = Unrelated(@, {e}) \cup
     {x \in Calls \ {e}: Mapped(c, x) /\ c.entry[x].phase = "ready"} \X {e}]

\* #removeReady, for a set of retained entries.
Drop(c, S) ==
  [c EXCEPT !.map = [k \in Keys |-> IF @[k] \in S THEN None ELSE @[k]],
            !.entry = [e \in Calls |-> IF e \in S THEN [@[e] EXCEPT !.retained = FALSE] ELSE @[e]],
            !.older = Unrelated(@, S),
            !.used = @ - Cardinality(Bytes(c.entry, S))]

\* #releaseReadyPin
Unpin(c, e) ==
  LET d == [c EXCEPT !.entry[e].pins = @ - 1]
  IN  IF c.entry[e].pins = 0 THEN c
      ELSE IF d.entry[e].pins = 0 /\ d.entry[e].evictOnRelease /\ d.entry[e].retained
           THEN Drop(d, {e}) ELSE d

Fits(c) == MaxEntryWeight + c.used + c.reserved <= Capacity

\* What #leastRecentlyUsedUnpinned chooses from.
Idle(c) == {e \in Calls: Mapped(c, e) /\ c.entry[e].phase = "ready" /\ c.entry[e].pins = 0}

\* #evictUntilAvailable drops idle datasets, the least recently used first, until
\* the reservation fits: one goes if it does not fit once the older ones are gone.
EvictUntilAvailable(c) ==
  LET Older(e) == {x \in Idle(c): <<x, e>> \in c.older}
  IN  Drop(c, {e \in Idle(c): ~Fits(Drop(c, Older(e)))})

\* #releaseReservation
Unreserve(c, e) ==
  [c EXCEPT !.reserved = @ - c.entry[e].reservation, !.entry[e].reservation = 0]

\* The catch block of #executeLoad, and #failBeforeStart.
Fail(c, e) == Unmap([Unreserve(c, e) EXCEPT !.entry[e].phase = "failed"], e)

-----------------------------------------------------------------------------
(* Load slots.                                                                *)

\* The synchronous part of #executeLoad and #executeUncached: the slot is taken
\* first, the worst case is reserved next, and a reservation that does not fit
\* fails the load.
Start(c, e) ==
  LET d == EvictUntilAvailable([c EXCEPT !.activeLoads = @ + 1, !.entry[e].slot = TRUE])
  IN  IF Fits(d)
      THEN [d EXCEPT !.entry[e].phase = "running",
                     !.entry[e].reservation = MaxEntryWeight,
                     !.reserved = @ + MaxEntryWeight]
      ELSE Fail(d, e)

(* #pumpLoads.  The loop takes at most one turn: its callers have queued one   *)
(* entry or freed one slot, and SlotsAndQueue says that nothing else waited    *)
(* for a free slot.                                                            *)
PumpLoads(c) ==
  IF c.activeLoads < MaxConcurrentLoads /\ c.queue # <<>>
  THEN Start([c EXCEPT !.queue = Tail(@)], Head(c.queue))
  ELSE c

\* #assertQueueCapacity
Full(c) == c.activeLoads >= MaxConcurrentLoads /\ Len(c.queue) >= MaxPendingLoads

\* #removeQueued: indexOf and splice.
RemoveQueued(c, e) ==
  LET index == CHOOSE i \in DOMAIN c.queue: c.queue[i] = e
  IN  [c EXCEPT !.queue = RemoveAt(@, index)]

\* An abort that reaches an entry nobody waits for: the signal, and the end of
\* an entry that has not started.
AbortEntry(c, e) ==
  LET d == [c EXCEPT !.entry[e].aborted = TRUE]
  IN  IF c.entry[e].phase = "queued"
      THEN Fail(RemoveQueued(d, e), e) ELSE d

-----------------------------------------------------------------------------
(* Callers.                                                                   *)
Goes(c, state) == call' = [call EXCEPT ![c].state = state]
Waits(c, e) == call' = [call EXCEPT ![c] = [state |-> "waiting", entry |-> e]]

\* acquire() of a ready dataset: a pin, and the most recent use.
AcquireHit(c, k) ==
  LET e == cache.map[k] IN
  /\ call[c].state = "idle" /\ e # None
  /\ cache.entry[e].phase = "ready"
  /\ cache' = Touch([cache EXCEPT !.entry[e].pins = @ + 1], e)
  /\ call' = [call EXCEPT ![c].state = "leased", ![c].entry = e]

\* acquire() of a dataset that is being loaded: one more waiter.
AcquireJoin(c, k) ==
  LET e == cache.map[k] IN
  /\ call[c].state = "idle" /\ e # None
  /\ Loading(cache, e)
  /\ cache' = [cache EXCEPT !.entry[e].waiters = @ + 1]
  /\ Waits(c, e)

\* Mutant: the new load is queued and #pumpLoads is left to whoever ends next.
AcquireCold_noPump(c, k) ==
  /\ call[c].state = "idle" /\ cache.map[k] = None
  /\ IF Full(cache)
     THEN Goes(c, "rejected") /\ UNCHANGED cache
     ELSE /\ cache' = [cache EXCEPT !.map[k] = c, !.entry[c] = NewEntry(k),
                                    !.queue = Append(@, c)]
          /\ Waits(c, c)

\* acquire() of a dataset that is not there: a new load, if the queue has room.
AcquireCold(c, k) ==
  /\ call[c].state = "idle" /\ cache.map[k] = None
  /\ IF Full(cache)
     THEN Goes(c, "rejected") /\ UNCHANGED cache
     ELSE /\ cache' = PumpLoads([cache EXCEPT !.map[k] = c, !.entry[c] = NewEntry(k),
                                              !.queue = Append(@, c)])
          /\ Waits(c, c)

\* runUncached(): the same gates, no entry in the map.
RunUncached(c) ==
  /\ call[c].state = "idle"
  /\ IF Full(cache)
     THEN Goes(c, "rejected") /\ UNCHANGED cache
     ELSE /\ cache' = PumpLoads([cache EXCEPT !.entry[c] = NewEntry(None),
                                              !.queue = Append(@, c)])
          /\ Waits(c, c)

\* Mutant: the weight of the dataset is not compared with its reservation.
Loaded_anyWeight(e, w) ==
  LET entry == cache.entry[e]
      d == Unreserve(cache, e)
  IN
  /\ entry.phase = "running"
  /\ cache' =
       IF entry.aborted \/ entry.key = None THEN Fail(cache, e)
       ELSE Touch([d EXCEPT !.used = @ + w,
                            !.entry[e] = [@ EXCEPT !.phase = "ready", !.weight = w,
                                                   !.pins = entry.waiters, !.retained = TRUE]], e)
  /\ UNCHANGED call

\* The loader returns a dataset of weight w.  It is kept if somebody still wants
\* it and it is no heavier than what was reserved for it.
Loaded(e, w) ==
  LET entry == cache.entry[e]
      d == Unreserve(cache, e)
  IN
  /\ entry.phase = "running"
  /\ cache' =
       IF entry.aborted THEN Fail(cache, e)
       ELSE IF entry.key = None THEN [d EXCEPT !.entry[e].phase = "ready"]
       ELSE IF ~Mapped(cache, e) \/ entry.waiters = 0 \/ w > entry.reservation THEN Fail(cache, e)
       ELSE Touch([d EXCEPT !.used = @ + w,
                            !.entry[e] = [@ EXCEPT !.phase = "ready", !.weight = w,
                                                   !.pins = entry.waiters, !.retained = TRUE]], e)
  /\ UNCHANGED call

LoadFails(e) ==
  /\ cache.entry[e].phase = "running"
  /\ cache' = Fail(cache, e)
  /\ UNCHANGED call

\* Mutant: the next load is not started.
FreeSlot_noPump(e) ==
  /\ cache.entry[e].slot /\ ~Loading(cache, e)
  /\ cache' = [cache EXCEPT !.entry[e].slot = FALSE, !.activeLoads = @ - 1]
  /\ UNCHANGED call

\* The finally callback of #pumpLoads.
FreeSlot(e) ==
  /\ cache.entry[e].slot /\ ~Loading(cache, e)
  /\ cache' = PumpLoads([cache EXCEPT !.entry[e].slot = FALSE, !.activeLoads = @ - 1])
  /\ UNCHANGED call

\* The promise callbacks of a waiter: its lease, its error, or the end of the
\* load it had to wait for after its abort (settleOnAbort).
Deliver(c) ==
  LET entry == cache.entry[call[c].entry] IN
  /\ call[c].state \in {"waiting", "settling"} /\ ~Loading(cache, call[c].entry)
  /\ Goes(c, IF entry.phase = "failed" \/ call[c].state = "settling" THEN "rejected"
             ELSE IF entry.key = None THEN "done" ELSE "leased")
  /\ UNCHANGED cache

\* Mutant: an abort after the end of the load forgets the pin.
AbortAcquire_forgetsPin(c) ==
  LET e == call[c].entry
      d == [cache EXCEPT !.entry[e].waiters = @ - 1]
  IN
  /\ call[c].state = "waiting" /\ cache.entry[e].key # None
  /\ cache' = IF ~Loading(cache, e) THEN cache
              ELSE IF d.entry[e].waiters = 0 THEN AbortEntry(Unmap(d, e), e) ELSE d
  /\ Goes(c, IF c \in SettleCalls /\ cache.entry[e].phase = "running" THEN "settling" ELSE "rejected")

\* Mutant: settleOnAbort waits only for a load that nobody else wants.
AbortAcquire_lastOnly(c) ==
  LET e == call[c].entry
      d == [cache EXCEPT !.entry[e].waiters = @ - 1]
  IN
  /\ call[c].state = "waiting" /\ Loading(cache, e)
  /\ cache' = IF d.entry[e].waiters = 0 THEN AbortEntry(Unmap(d, e), e) ELSE d
  /\ Goes(c, IF c \in SettleCalls /\ d.entry[e].waiters = 0 /\ cache.entry[e].phase = "running"
             THEN "settling" ELSE "rejected")

\* The caller of acquire() aborts: #releaseLoadingWaiter, or the pin that was
\* already counted for it when the load has ended and the lease is on its way.
AbortAcquire(c) ==
  LET e == call[c].entry
      d == [cache EXCEPT !.entry[e].waiters = @ - 1]
  IN
  /\ call[c].state = "waiting" /\ cache.entry[e].key # None
  /\ cache' = IF Loading(cache, e)
              THEN IF d.entry[e].waiters = 0 THEN AbortEntry(Unmap(d, e), e) ELSE d
              ELSE IF cache.entry[e].phase = "ready" THEN Unpin(cache, e) ELSE cache
  /\ Goes(c, IF c \in SettleCalls /\ cache.entry[e].phase = "running" THEN "settling" ELSE "rejected")

\* The caller of runUncached() aborts; a running operation keeps slot and bytes.
AbortUncached(c) ==
  LET e == call[c].entry IN
  /\ call[c].state = "waiting" /\ cache.entry[e].key = None
  /\ Loading(cache, e)
  /\ cache' = AbortEntry(cache, e)
  /\ Goes(c, "rejected")

\* release() of a lease, which only counts the first time.
Release(c) ==
  /\ call[c].state \in {"leased", "released"}
  /\ cache' = IF call[c].state = "leased" THEN Unpin(cache, call[c].entry) ELSE cache
  /\ Goes(c, "released")

\* Mutant: a pinned dataset is unmapped and forgotten.
Evict_leaksPinned(k) ==
  LET e == cache.map[k] IN
  /\ e # None
  /\ cache' = IF Loading(cache, e) THEN AbortEntry(Unmap(cache, e), e)
              ELSE IF cache.entry[e].pins = 0 THEN Drop(cache, {e})
              ELSE [Unmap(cache, e) EXCEPT !.older = Unrelated(@, {e})]
  /\ UNCHANGED call

\* evict(): the layout turned out missing or damaged (describeDataset, audit).
Evict(k) ==
  LET e == cache.map[k] IN
  /\ e # None
  /\ cache' = IF Loading(cache, e) THEN AbortEntry(Unmap(cache, e), e)
              ELSE IF cache.entry[e].pins = 0 THEN Drop(cache, {e})
              ELSE [Unmap(cache, e) EXCEPT !.entry[e].evictOnRelease = TRUE,
                                           !.older = Unrelated(@, {e})]
  /\ UNCHANGED call

-----------------------------------------------------------------------------
Next ==
  \/ \E c \in Calls, k \in Keys: AcquireHit(c, k) \/ AcquireJoin(c, k) \/ AcquireCold(c, k)
  \/ \E c \in Calls: RunUncached(c)
  \/ \E e \in Calls, w \in Weights: Loaded(e, w)
  \/ \E e \in Calls: LoadFails(e)
  \/ \E e \in Calls: FreeSlot(e)
  \/ \E c \in Calls: Deliver(c)
  \/ \E c \in Calls: AbortAcquire(c)
  \/ \E c \in Calls: AbortUncached(c)
  \/ \E c \in Calls: Release(c)
  \/ \E k \in Keys: Evict(k)

Spec == Init /\ [][Next]_vars

(* A loader ends (object-store reads carry timeouts) and the event loop runs   *)
(* the callbacks that are ready, in no particular order.  Nobody has to abort  *)
(* or to release.                                                              *)
Ends(e) == LoadFails(e) \/ \E w \in Weights: Loaded(e, w)
FairSpec == Spec /\ WF_vars(\E c \in Calls: Ends(c) \/ FreeSlot(c) \/ Deliver(c))

-----------------------------------------------------------------------------
Entries == [phase: {"none", "queued", "running", "ready", "failed"},
            key: Keys \cup {None}, waiters: Nat, aborted: BOOLEAN,
            reservation: Nat, slot: BOOLEAN, weight: Nat, pins: Nat,
            evictOnRelease: BOOLEAN, retained: BOOLEAN]

Caches == [map: [Keys -> Calls \cup {None}], entry: [Calls -> Entries],
           queue: Seq(Calls), older: SUBSET (Calls \X Calls),
           activeLoads: Nat, used: Nat, reserved: Nat]

TypeOK ==
  /\ cache \in Caches
  /\ call \in [Calls -> [state: {"idle", "waiting", "settling", "leased", "done",
                                 "rejected", "released"},
                         entry: Calls \cup {None}]]

\* Decoded datasets and loads in flight share one budget that is never exceeded,
\* and the two counters are the bytes really held: those of the retained
\* datasets, detached ones included, and of the loads that have not settled,
\* abandoned ones included (#usedBytes, #reservedBytes).
BudgetIsExact ==
  /\ TypeOK
  /\ cache.used + cache.reserved <= Capacity
  /\ cache.used = Cardinality(Bytes(cache.entry, {e \in Calls: cache.entry[e].retained}))
  /\ cache.reserved = MaxEntryWeight * Cardinality({e \in Calls: cache.entry[e].phase = "running"})

\* A pin is a lease in a caller's hands or on its way, a waiter is a caller whose
\* answer is open: neither is lost or counted twice by an abort that comes
\* between the end of the load and the promise callback (#releaseLoadingWaiter).
PinsAreHolders ==
  \A e \in Calls:
    LET entry == cache.entry[e]
        holders == {c \in Calls: call[c].entry = e /\ call[c].state \in {"waiting", "leased"}}
    IN  entry.key # None =>
          /\ Loading(cache, e) => entry.waiters = Cardinality(holders)
          /\ entry.phase = "ready" => entry.pins = Cardinality(holders)
          /\ entry.pins > 0 => entry.retained

\* What the map offers is alive: a load that is not aborted, or a dataset that is
\* in memory; and what it does not offer is on its way out: a load that will
\* fail, or a dataset that leaves with its last pin.
MapOffersTheLiving ==
  \A e \in Calls:
    LET entry == cache.entry[e] IN
    entry.key # None =>
      /\ Mapped(cache, e) <=> \/ Loading(cache, e) /\ ~entry.aborted
                              \/ entry.retained /\ ~entry.evictOnRelease
      /\ entry.retained /\ entry.evictOnRelease => entry.pins > 0
      /\ entry.phase = "queued" => entry.waiters > 0 /\ ~entry.aborted

\* A load slot is one unsettled execution, and no entry waits beside a free slot
\* (#pumpLoads, #removeQueued, #markDequeued).
SlotsAndQueue ==
  /\ cache.activeLoads = Cardinality({e \in Calls: cache.entry[e].slot})
  /\ cache.activeLoads <= MaxConcurrentLoads
  /\ \A e \in Calls: cache.entry[e].phase = "running" => cache.entry[e].slot
  /\ cache.queue # <<>> => cache.activeLoads = MaxConcurrentLoads
  /\ Len(cache.queue) <= MaxPendingLoads
  /\ IsInjective(cache.queue)
  /\ ToSet(cache.queue) = {e \in Calls: cache.entry[e].phase = "queued"}

\* A caller that asked for it is not answered while a load it was waiting for
\* still runs, so that its outer resource gate cannot open early; everybody else
\* is answered at once (V2DatasetCacheAcquireOptions.settleOnAbort).
SettleOnAbort ==
  [][\A c \in Calls:
       call[c].state \in {"waiting", "settling"} /\ call'[c].state = "rejected" =>
         \/ c \notin SettleCalls
         \/ cache.entry[call[c].entry].key = None      \* runUncached has no such option
         \/ cache.entry[call[c].entry].phase # "running"]_vars

\* Every caller is answered, whatever the others do: abort, evict the entry, or
\* never release what they hold.  (A call waits once, so "in the end nobody
\* waits" says that each one is answered.)
EveryCallIsAnswered == <>[](\A c \in Calls: call[c].state \notin {"waiting", "settling"})
=============================================================================
