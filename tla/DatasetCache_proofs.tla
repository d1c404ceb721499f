-------------------------- MODULE DatasetCache_proofs --------------------------
(* Theorems about DatasetCache, for every value of its constants: any number   *)
(* of calls and keys, any capacity, weights and limits.                        *)
EXTENDS DatasetCache, FiniteSetTheorems, TLAPS

-----------------------------------------------------------------------------
(* What an entry is worth in its phase, and when the map has it.               *)
EntryOK(c, e) ==
  LET entry == c.entry[e] IN
  /\ entry.phase = "none" => entry.key = None
  /\ entry.phase # "ready" => ~entry.retained /\ entry.pins = 0 /\ ~entry.evictOnRelease
  /\ entry.retained => entry.key # None
  /\ entry.pins > 0 => entry.retained
  /\ entry.retained /\ entry.evictOnRelease => entry.pins > 0
  /\ entry.reservation = IF entry.phase = "running" THEN MaxEntryWeight ELSE 0
  /\ entry.weight <= MaxEntryWeight
  /\ entry.phase = "running" => entry.slot
  /\ entry.phase \in {"none", "queued"} => ~entry.slot
  /\ entry.phase = "queued" => entry.waiters > 0 /\ ~entry.aborted
  /\ entry.phase = "running" /\ entry.waiters = 0 => entry.aborted
  /\ entry.key # None =>
       (Mapped(c, e) <=> \/ Loading(c, e) /\ ~entry.aborted
                         \/ entry.retained /\ ~entry.evictOnRelease)

EntriesOK(c) ==
  /\ \A e \in Calls: EntryOK(c, e)
  /\ \A k \in Keys: c.map[k] # None => c.entry[c.map[k]].key = k

(* The counters are sizes of sets of entries, and of bytes.                    *)
Slots(c) == {e \in Calls: c.entry[e].slot}
Running(c) == {e \in Calls: c.entry[e].phase = "running"}
Retained(c) == {e \in Calls: c.entry[e].retained}

Counted(c) ==
  /\ IsFiniteSet(Slots(c)) /\ c.activeLoads = Cardinality(Slots(c))
  /\ IsFiniteSet(Running(c)) /\ c.reserved = MaxEntryWeight * Cardinality(Running(c))
  /\ IsFiniteSet(Bytes(c.entry, Retained(c)))
  /\ c.used = Cardinality(Bytes(c.entry, Retained(c)))

Within(c) == c.activeLoads <= MaxConcurrentLoads /\ c.used + c.reserved <= Capacity

QueueOK(c) ==
  /\ \A i, j \in DOMAIN c.queue: c.queue[i] = c.queue[j] => i = j
  /\ \A e \in Calls: c.entry[e].phase = "queued" <=> \E i \in DOMAIN c.queue: c.queue[i] = e

CacheOK(c) == c \in Caches /\ EntriesOK(c) /\ Counted(c) /\ Within(c) /\ QueueOK(c)

NoneIdle(c) ==
  /\ c.queue # <<>> => c.activeLoads = MaxConcurrentLoads
  /\ Len(c.queue) <= MaxPendingLoads

(* The callers of an entry.                                                    *)
CallStates == [state: {"idle", "waiting", "settling", "leased", "done", "rejected", "released"},
               entry: Calls \cup {None}]

Holders(cl, e) == {x \in Calls: cl[x].entry = e /\ cl[x].state \in {"waiting", "leased"}}

CallerOK(c, cl, x) ==
  /\ cl[x].state = "idle" => cl[x].entry = None /\ c.entry[x].phase = "none"
  /\ cl[x].state \in {"waiting", "settling", "leased", "released"} => cl[x].entry \in Calls
  /\ cl[x].entry # None => c.entry[cl[x].entry].phase # "none"
  /\ cl[x].state = "leased" =>
       c.entry[cl[x].entry].phase = "ready" /\ c.entry[cl[x].entry].key # None

HeldOK(c, cl, e) ==
  /\ IsFiniteSet(Holders(cl, e))
  /\ c.entry[e].key # None =>
       /\ Loading(c, e) => c.entry[e].waiters = Cardinality(Holders(cl, e))
       /\ c.entry[e].phase = "ready" => c.entry[e].pins = Cardinality(Holders(cl, e))

CallersOK(c, cl) ==
  /\ cl \in [Calls -> CallStates]
  /\ \A x \in Calls: CallerOK(c, cl, x)
  /\ \A e \in Calls: HeldOK(c, cl, e)

IInv == CacheOK(cache) /\ NoneIdle(cache) /\ CallersOK(cache, call)

-----------------------------------------------------------------------------
(* Sizes of sets.                                                              *)

\* One element comes or goes.
SameBut(S, T, e) == \A x: x # e => (x \in T <=> x \in S)

\* A set that one element joins or leaves stays finite, and its size moves by one.
LEMMA CountOne ==
  ASSUME NEW S, NEW T, IsFiniteSet(S), NEW e, SameBut(S, T, e)
  PROVE  /\ IsFiniteSet(T) /\ Cardinality(S) \in Nat /\ Cardinality(T) \in Nat
         /\ Cardinality(T) = Cardinality(S) + (IF e \in T THEN 1 ELSE 0)
                                            - (IF e \in S THEN 1 ELSE 0)
<1>0. Cardinality(S) \in Nat
  BY FS_CardinalityType
<1>1. CASE e \in S /\ e \notin T
  <2>1. T = S \ {e}
    BY <1>1 DEF SameBut
  <2>2. IsFiniteSet(S \ {e}) /\ Cardinality(S \ {e}) = Cardinality(S) - 1
    BY <1>1, FS_RemoveElement
  <2>3. Cardinality(T) \in Nat
    BY <2>1, <2>2, FS_CardinalityType
  <2> QED BY <1>0, <1>1, <2>1, <2>2, <2>3
<1>2. CASE e \notin S /\ e \in T
  <2>1. T = S \cup {e}
    BY <1>2 DEF SameBut
  <2>2. IsFiniteSet(S \cup {e}) /\ Cardinality(S \cup {e}) = Cardinality(S) + 1
    BY <1>2, FS_AddElement
  <2> QED BY <1>0, <1>2, <2>1, <2>2
<1>3. CASE e \in S <=> e \in T
  <2>1. T = S
    BY <1>3 DEF SameBut
  <2> QED BY <1>0, <1>3, <2>1
<1> QED BY <1>1, <1>2, <1>3

\* A set of bytes splits into disjoint ones.
LEMMA CountParts ==
  ASSUME NEW S, NEW T, IsFiniteSet(S), IsFiniteSet(T), S \cap T = {}
  PROVE  /\ IsFiniteSet(S \cup T)
         /\ Cardinality(S) \in Nat /\ Cardinality(T) \in Nat
         /\ Cardinality(S \cup T) = Cardinality(S) + Cardinality(T)
<1>1. Cardinality(S) \in Nat /\ Cardinality(T) \in Nat
  BY FS_CardinalityType
<1>2. /\ IsFiniteSet(S \cup T)
      /\ Cardinality(S \cup T) = Cardinality(S) + Cardinality(T) - Cardinality(S \cap T)
  BY FS_Union
<1>3. Cardinality(S \cap T) = 0
  BY FS_EmptySet
<1> QED BY <1>1, <1>2, <1>3

\* An entry of weight w holds w bytes.
LEMMA BytesOfOne ==
  ASSUME NEW entry \in [Calls -> Entries], NEW e \in Calls, entry[e].weight <= MaxEntryWeight
  PROVE  /\ IsFiniteSet(Bytes(entry, {e}))
         /\ Cardinality(Bytes(entry, {e})) = entry[e].weight
<1> DEFINE w == entry[e].weight
<1>1. w \in Nat /\ MaxEntryWeight \in Nat /\ w <= MaxEntryWeight
  BY CacheOptions DEF Entries
<1>2. Bytes(entry, {e}) = {p \in {e} \X (1..MaxEntryWeight): p[2] <= w}
  <2>1. \A p \in {e} \X (1..MaxEntryWeight): p[1] = e
    OBVIOUS
  <2> QED BY <2>1 DEF Bytes
<1> HIDE DEF w
<1>3. {p \in {e} \X (1..MaxEntryWeight): p[2] <= w} = {e} \X (1..w)
  <2>1. \A b: b \in 1..w <=> b \in 1..MaxEntryWeight /\ b <= w
    BY <1>1
  <2> QED BY <2>1
<1>4. IsFiniteSet(1..w) /\ Cardinality(1..w) = w
  <2>1. 1 \in Int /\ w \in Int
    BY <1>1
  <2>2. /\ IsFiniteSet(1..w)
        /\ Cardinality(1..w) = IF 1 > w THEN 0 ELSE w - 1 + 1
    BY <2>1, FS_Interval, Zenon
  <2> QED BY <1>1, <2>2
<1>5. IsFiniteSet({e}) /\ Cardinality({e}) = 1
  BY FS_Singleton
<1>6. /\ IsFiniteSet({e} \X (1..w))
      /\ Cardinality({e} \X (1..w)) = Cardinality({e}) * Cardinality(1..w)
  BY <1>4, <1>5, FS_Product
<1>7. IsFiniteSet(Bytes(entry, {e})) /\ Cardinality(Bytes(entry, {e})) = 1 * w
  BY <1>2, <1>3, <1>4, <1>5, <1>6
<1> QED BY <1>1, <1>7 DEF w

\* Bytes of two disjoint sets of entries.
LEMMA BytesOfParts ==
  ASSUME NEW entry, NEW S, NEW T, S \cap T = {}
  PROVE  /\ Bytes(entry, S \cup T) = Bytes(entry, S) \cup Bytes(entry, T)
         /\ Bytes(entry, S) \cap Bytes(entry, T) = {}
BY DEF Bytes

\* Only the weights of the entries matter.
LEMMA BytesOfSame ==
  ASSUME NEW entry, NEW other, NEW S, \A e \in S: entry[e].weight = other[e].weight
  PROVE  Bytes(entry, S) = Bytes(other, S)
<1>1. \A p \in S \X (1..MaxEntryWeight): p[1] \in S
  OBVIOUS
<1> QED BY <1>1 DEF Bytes

-----------------------------------------------------------------------------
(* Steps of one entry.                                                         *)

\* From c to d nothing but the entry e differs, and the map gains or loses
\* nothing but e.
OnlyEntry(c, d, e) ==
  /\ \A x \in Calls: x # e => d.entry[x] = c.entry[x]
  /\ \A k \in Keys: d.map[k] = c.map[k] \/ {c.map[k], d.map[k]} \subseteq {e, None}
  /\ \A k \in Keys: d.map[k] = e => d.entry[e].key = k

\* If only e changed and e is in order, all entries are.
LEMMA EntriesKept ==
  ASSUME NEW c \in Caches, NEW d \in Caches, NEW e \in Calls,
         EntriesOK(c), OnlyEntry(c, d, e), EntryOK(d, e)
  PROVE  EntriesOK(d)
<1>0. None \notin Calls /\ None \notin Keys
  BY CacheOptions
<1>1. ASSUME NEW x \in Calls, x # e PROVE EntryOK(d, x)
  <2>1. d.entry[x] = c.entry[x] /\ c.entry[x].key \in Keys \cup {None}
    BY <1>1 DEF OnlyEntry, Caches, Entries
  <2>2. Mapped(d, x) <=> Mapped(c, x)
    BY <1>0, <1>1, <2>1 DEF OnlyEntry, Mapped
  <2>3. EntryOK(c, x)
    BY DEF EntriesOK
  <2> QED BY <2>1, <2>2, <2>3 DEF EntryOK, Loading
<1>2. ASSUME NEW k \in Keys, d.map[k] # None PROVE d.entry[d.map[k]].key = k
  <2>1. CASE d.map[k] = e
    BY <2>1 DEF OnlyEntry
  <2>2. CASE d.map[k] # e
    <3>1. d.map[k] = c.map[k] /\ d.map[k] \in Calls
      BY <1>2, <2>2 DEF OnlyEntry, Caches
    <3>2. c.entry[c.map[k]].key = k
      BY <1>2, <3>1 DEF EntriesOK
    <3> QED BY <2>2, <3>1, <3>2 DEF OnlyEntry
  <2> QED BY <2>1, <2>2
<1> QED BY <1>1, <1>2 DEF EntriesOK

\* The counters follow the entry.
One(b) == IF b THEN 1 ELSE 0
Weighs(entry) == IF entry.retained THEN entry.weight ELSE 0

\* One load more or less is MaxEntryWeight more or less.
LEMMA Distribute ==
  ASSUME NEW m \in Nat, NEW n \in Nat, NEW p \in Nat, NEW i \in {0, 1}, NEW j \in {0, 1},
         p = n + i - j
  PROVE  m * p = m * n + m * i - m * j
<1>1. p = n + (i - j) /\ i - j \in Int
  OBVIOUS
<1>2. m * (n + (i - j)) = m * n + m * (i - j)
  BY <1>1
<1>3. m * (i - j) = m * i - m * j
  OBVIOUS
<1>4. m * n \in Int /\ m * i \in Int /\ m * j \in Int
  OBVIOUS
<1> QED BY <1>1, <1>2, <1>3, <1>4

\* The bytes retained move by the weight of the one entry that changed.
LEMMA BytesFollow ==
  ASSUME NEW c \in Caches, NEW d \in Caches, NEW e \in Calls,
         IsFiniteSet(Bytes(c.entry, Retained(c))),
         \A x \in Calls: x # e => d.entry[x] = c.entry[x],
         c.entry[e].weight <= MaxEntryWeight, d.entry[e].weight <= MaxEntryWeight
  PROVE  /\ IsFiniteSet(Bytes(d.entry, Retained(d)))
         /\ Cardinality(Bytes(d.entry, Retained(d)))
              = Cardinality(Bytes(c.entry, Retained(c)))
                + Weighs(d.entry[e]) - Weighs(c.entry[e])
         /\ Cardinality(Bytes(c.entry, Retained(c))) \in Nat
         /\ Cardinality(Bytes(d.entry, Retained(d))) \in Nat
<1> DEFINE R == Retained(c) \ {e}
           B == Bytes(c.entry, R)
<1>1. R = Retained(d) \ {e}
  BY DEF Retained
<1>2. Bytes(d.entry, R) = B
  BY BytesOfSame DEF Retained
<1>3. IsFiniteSet(B) /\ Cardinality(B) \in Nat
  <2>1. B \subseteq Bytes(c.entry, Retained(c))
    BY DEF Bytes
  <2> QED BY <2>1, FS_Subset, FS_CardinalityType
<1>4. ASSUME NEW entry \in [Calls -> Entries], entry[e].weight <= MaxEntryWeight,
             Bytes(entry, R) = B, NEW S, S \ {e} = R, e \in S => entry[e].retained,
             e \notin S => ~entry[e].retained
      PROVE  /\ IsFiniteSet(Bytes(entry, S))
             /\ Cardinality(Bytes(entry, S)) = Cardinality(B) + Weighs(entry[e])
             /\ Weighs(entry[e]) \in Nat
  <2>1. CASE e \in S
    <3>1. S = R \cup {e} /\ R \cap {e} = {}
      BY <1>4, <2>1
    <3>2. /\ Bytes(entry, S) = B \cup Bytes(entry, {e})
          /\ B \cap Bytes(entry, {e}) = {}
      <4>1. /\ Bytes(entry, R \cup {e}) = Bytes(entry, R) \cup Bytes(entry, {e})
            /\ Bytes(entry, R) \cap Bytes(entry, {e}) = {}
        BY <3>1, BytesOfParts
      <4> QED BY <1>4, <3>1, <4>1
    <3>3. /\ IsFiniteSet(Bytes(entry, {e}))
          /\ Cardinality(Bytes(entry, {e})) = entry[e].weight /\ entry[e].weight \in Nat
      BY <1>4, BytesOfOne DEF Entries
    <3>4. /\ IsFiniteSet(B \cup Bytes(entry, {e}))
          /\ Cardinality(B \cup Bytes(entry, {e})) = Cardinality(B) + Cardinality(Bytes(entry, {e}))
      BY <1>3, <3>2, <3>3, CountParts
    <3> QED BY <1>4, <2>1, <3>2, <3>3, <3>4 DEF Weighs
  <2>2. CASE e \notin S
    <3>1. S = R
      BY <1>4, <2>2
    <3> QED BY <1>3, <1>4, <2>2, <3>1 DEF Weighs
  <2> QED BY <2>1, <2>2
<1> HIDE DEF R, B
<1>5. /\ IsFiniteSet(Bytes(c.entry, Retained(c)))
      /\ Cardinality(Bytes(c.entry, Retained(c))) = Cardinality(B) + Weighs(c.entry[e])
      /\ Weighs(c.entry[e]) \in Nat
  <2>1. c.entry \in [Calls -> Entries] /\ Bytes(c.entry, R) = B /\ Retained(c) \ {e} = R
    BY DEF R, B, Caches
  <2>2. e \in Retained(c) <=> c.entry[e].retained
    BY DEF Retained
  <2> QED BY <1>4, <2>1, <2>2
<1>6. /\ IsFiniteSet(Bytes(d.entry, Retained(d)))
      /\ Cardinality(Bytes(d.entry, Retained(d))) = Cardinality(B) + Weighs(d.entry[e])
      /\ Weighs(d.entry[e]) \in Nat
  <2>1. d.entry \in [Calls -> Entries] /\ Bytes(d.entry, R) = B /\ Retained(d) \ {e} = R
    BY <1>1, <1>2 DEF R, B, Caches
  <2>2. e \in Retained(d) <=> d.entry[e].retained
    BY DEF Retained
  <2> QED BY <1>4, <2>1, <2>2
<1> QED BY <1>3, <1>5, <1>6

\* If the three counters move with the one entry that changed, they stay exact.
LEMMA CountersFollow ==
  ASSUME NEW c \in Caches, NEW d \in Caches, NEW e \in Calls, Counted(c),
         \A x \in Calls: x # e => d.entry[x] = c.entry[x],
         c.entry[e].weight <= MaxEntryWeight, d.entry[e].weight <= MaxEntryWeight,
         d.activeLoads = c.activeLoads + One(d.entry[e].slot) - One(c.entry[e].slot),
         d.reserved = c.reserved + MaxEntryWeight * One(d.entry[e].phase = "running")
                                 - MaxEntryWeight * One(c.entry[e].phase = "running"),
         d.used = c.used + Weighs(d.entry[e]) - Weighs(c.entry[e])
  PROVE  Counted(d)
<1>1. IsFiniteSet(Slots(d)) /\ d.activeLoads = Cardinality(Slots(d))
  <2>1. SameBut(Slots(c), Slots(d), e)
    BY DEF Slots, SameBut
  <2>2. (e \in Slots(d) <=> d.entry[e].slot) /\ (e \in Slots(c) <=> c.entry[e].slot)
    BY DEF Slots
  <2> QED BY <2>1, <2>2, CountOne DEF Counted, One
<1>2. IsFiniteSet(Running(d)) /\ d.reserved = MaxEntryWeight * Cardinality(Running(d))
  <2> DEFINE n == Cardinality(Running(c))
             p == Cardinality(Running(d))
             i == One(d.entry[e].phase = "running")
             j == One(c.entry[e].phase = "running")
  <2>1. SameBut(Running(c), Running(d), e)
    BY DEF Running, SameBut
  <2>2. /\ e \in Running(d) <=> d.entry[e].phase = "running"
        /\ e \in Running(c) <=> c.entry[e].phase = "running"
    BY DEF Running
  <2>3. IsFiniteSet(Running(d)) /\ n \in Nat /\ p \in Nat /\ p = n + i - j
    <3>1. IsFiniteSet(Running(c))
      BY DEF Counted
    <3>2. /\ IsFiniteSet(Running(d)) /\ n \in Nat /\ p \in Nat
          /\ p = n + (IF e \in Running(d) THEN 1 ELSE 0) - (IF e \in Running(c) THEN 1 ELSE 0)
      BY <2>1, <3>1, CountOne
    <3> QED BY <2>2, <3>2 DEF One
  <2>4. i \in {0, 1} /\ j \in {0, 1} /\ MaxEntryWeight \in Nat
    BY CacheOptions DEF One
  <2>5. c.reserved = MaxEntryWeight * n
    BY DEF Counted
  <2> HIDE DEF n, p, i, j
  <2>6. MaxEntryWeight * p = MaxEntryWeight * n + MaxEntryWeight * i - MaxEntryWeight * j
    BY <2>3, <2>4, Distribute
  <2>7. d.reserved = c.reserved + MaxEntryWeight * i - MaxEntryWeight * j
    BY DEF i, j
  <2>8. d.reserved = MaxEntryWeight * p
    BY <2>5, <2>6, <2>7
  <2> QED BY <2>3, <2>8 DEF p
<1>3. /\ IsFiniteSet(Bytes(d.entry, Retained(d)))
      /\ d.used = Cardinality(Bytes(d.entry, Retained(d)))
  BY BytesFollow DEF Counted
<1> QED BY <1>1, <1>2, <1>3 DEF Counted

-----------------------------------------------------------------------------
(* The operators, field by field.                                              *)

\* From c to d the entry e becomes new, and the fields not named stay.
Sets(c, d, e, new) ==
  /\ d \in Caches
  /\ \A x \in Calls: x # e => d.entry[x] = c.entry[x]
  /\ d.entry[e] = new

Unmaps(c, d, e) ==
  \A k \in Keys: d.map[k] = IF c.entry[e].key = k /\ c.map[k] = e THEN None ELSE c.map[k]

\* What Unmap changes.
LEMMA UnmapIs ==
  ASSUME NEW c \in Caches, NEW e \in Calls
  PROVE  LET d == Unmap(c, e) IN
         /\ Sets(c, d, e, c.entry[e]) /\ Unmaps(c, d, e)
         /\ d.queue = c.queue /\ d.activeLoads = c.activeLoads
         /\ d.used = c.used /\ d.reserved = c.reserved
<1>0. None \notin Keys
  BY CacheOptions
<1>1. CASE Mapped(c, e)
  <2>1. c.entry[e].key \in Keys /\ c.map[c.entry[e].key] = e
    BY <1>1 DEF Mapped, Caches, Entries
  <2>2. Unmap(c, e) = [c EXCEPT !.map[c.entry[e].key] = None]
    BY <1>1 DEF Unmap
  <2> DEFINE key == c.entry[e].key
             map == [c.map EXCEPT ![key] = None]
  <2>3. Unmap(c, e) = [c EXCEPT !.map = map]
    BY <2>2 DEF Caches
  <2>4. map \in [Keys -> Calls \cup {None}] /\ \A k \in Keys: map[k] = IF k = key THEN None ELSE c.map[k]
    BY <2>1 DEF Caches
  <2> HIDE DEF map
  <2>5. /\ Unmap(c, e) \in Caches /\ Unmap(c, e).map = map /\ Unmap(c, e).entry = c.entry
        /\ Unmap(c, e).queue = c.queue /\ Unmap(c, e).activeLoads = c.activeLoads
        /\ Unmap(c, e).used = c.used /\ Unmap(c, e).reserved = c.reserved
    BY <2>3, <2>4 DEF Caches
  <2> QED BY <2>1, <2>4, <2>5 DEF Sets, Unmaps
<1>2. CASE ~Mapped(c, e)
  <2>1. Unmap(c, e) = c
    BY <1>2 DEF Unmap
  <2> QED BY <1>0, <1>2, <2>1 DEF Sets, Unmaps, Mapped
<1> QED BY <1>1, <1>2

\* What the end of a failed load changes.
LEMMA FailIs ==
  ASSUME NEW c \in Caches, NEW e \in Calls, c.entry[e].reservation <= c.reserved
  PROVE  LET d == Fail(c, e) IN
         /\ Sets(c, d, e, [c.entry[e] EXCEPT !.reservation = 0, !.phase = "failed"])
         /\ Unmaps(c, d, e)
         /\ d.queue = c.queue /\ d.activeLoads = c.activeLoads
         /\ d.used = c.used /\ d.reserved = c.reserved - c.entry[e].reservation
<1> DEFINE b == [Unreserve(c, e) EXCEPT !.entry[e].phase = "failed"]
           new == [c.entry[e] EXCEPT !.reservation = 0, !.phase = "failed"]
<1>1. c.entry[e] \in Entries /\ new \in Entries /\ c.entry[e].reservation \in Nat
  <2>1. c.entry[e] \in Entries
    BY DEF Caches
  <2> QED BY <2>1 DEF Entries
<1>2. b = [c EXCEPT !.entry = [c.entry EXCEPT ![e] = new],
                    !.reserved = c.reserved - c.entry[e].reservation]
  BY DEF Unreserve, Caches, Entries
<1> HIDE DEF new
<1>3. c.reserved - c.entry[e].reservation \in Nat
  BY <1>1 DEF Caches
<1>4. /\ b \in Caches /\ b.map = c.map /\ b.queue = c.queue /\ b.activeLoads = c.activeLoads
      /\ b.used = c.used /\ b.reserved = c.reserved - c.entry[e].reservation
      /\ b.entry = [c.entry EXCEPT ![e] = new]
  <2>1. [c.entry EXCEPT ![e] = new] \in [Calls -> Entries]
    BY <1>1 DEF Caches
  <2> DEFINE entry == [c.entry EXCEPT ![e] = new]
             r == c.reserved - c.entry[e].reservation
  <2>2. b = [c EXCEPT !.entry = entry, !.reserved = r] /\ entry \in [Calls -> Entries] /\ r \in Nat
    BY <1>2, <1>3, <2>1
  <2> HIDE DEF entry, r, b
  <2>3. /\ b \in Caches /\ b.map = c.map /\ b.queue = c.queue /\ b.activeLoads = c.activeLoads
        /\ b.used = c.used /\ b.reserved = r /\ b.entry = entry
    BY <2>2 DEF Caches
  <2> QED BY <2>3 DEF entry, r
<1>5. b.entry[e] = new /\ \A x \in Calls: x # e => b.entry[x] = c.entry[x]
  BY <1>4 DEF Caches
<1>6. new.key = c.entry[e].key
  BY <1>1 DEF new, Entries
<1> HIDE DEF b
<1>7. LET d == Unmap(b, e) IN
      /\ Sets(b, d, e, b.entry[e]) /\ Unmaps(b, d, e)
      /\ d.queue = b.queue /\ d.activeLoads = b.activeLoads
      /\ d.used = b.used /\ d.reserved = b.reserved
  BY <1>4, UnmapIs
<1>8. Fail(c, e) = Unmap(b, e)
  BY DEF Fail, b
<1> QED BY <1>4, <1>5, <1>6, <1>7, <1>8 DEF Sets, Unmaps, new

\* A use of a dataset changes nothing but the order of eviction.
LEMMA TouchIs ==
  ASSUME NEW c \in Caches, NEW e \in Calls
  PROVE  LET d == Touch(c, e) IN
         /\ Sets(c, d, e, c.entry[e]) /\ d.map = c.map
         /\ d.queue = c.queue /\ d.activeLoads = c.activeLoads
         /\ d.used = c.used /\ d.reserved = c.reserved
<1> DEFINE o == Unrelated(c.older, {e}) \cup
                  {x \in Calls \ {e}: Mapped(c, x) /\ c.entry[x].phase = "ready"} \X {e}
<1>1. o \in SUBSET (Calls \X Calls)
  BY DEF Unrelated, Caches
<1>2. Touch(c, e) = [c EXCEPT !.older = o]
  BY DEF Touch
<1> HIDE DEF o
<1> QED BY <1>1, <1>2 DEF Sets, Caches

\* What is dropped no longer counts, and the map no longer has it.
LEMMA DropIs ==
  ASSUME NEW c \in Caches, NEW S \in SUBSET Calls,
         IsFiniteSet(Bytes(c.entry, S)), Cardinality(Bytes(c.entry, S)) <= c.used
  PROVE  LET d == Drop(c, S) IN
         /\ d \in Caches
         /\ \A x \in Calls: d.entry[x] = IF x \in S THEN [c.entry[x] EXCEPT !.retained = FALSE]
                                         ELSE c.entry[x]
         /\ \A k \in Keys: d.map[k] = IF c.map[k] \in S THEN None ELSE c.map[k]
         /\ d.queue = c.queue /\ d.activeLoads = c.activeLoads /\ d.reserved = c.reserved
         /\ d.used = c.used - Cardinality(Bytes(c.entry, S))
<1> DEFINE map == [k \in Keys |-> IF c.map[k] \in S THEN None ELSE c.map[k]]
           entry == [x \in Calls |-> IF x \in S THEN [c.entry[x] EXCEPT !.retained = FALSE]
                                     ELSE c.entry[x]]
           used == c.used - Cardinality(Bytes(c.entry, S))
           older == Unrelated(c.older, S)
<1>1. Drop(c, S) = [c EXCEPT !.map = map, !.entry = entry, !.older = older, !.used = used]
  BY DEF Drop, Caches
<1>2. map \in [Keys -> Calls \cup {None}]
  BY DEF Caches
<1>3. entry \in [Calls -> Entries]
  <2>1. \A y \in Entries: [y EXCEPT !.retained = FALSE] \in Entries
    BY DEF Entries
  <2> QED BY <2>1 DEF Caches
<1>4. used \in Nat
  <2>1. Cardinality(Bytes(c.entry, S)) \in Nat
    BY FS_CardinalityType
  <2> QED BY <2>1 DEF Caches
<1>5. older \in SUBSET (Calls \X Calls)
  BY DEF Unrelated, Caches
<1>6. /\ \A x \in Calls: entry[x] = IF x \in S THEN [c.entry[x] EXCEPT !.retained = FALSE]
                                    ELSE c.entry[x]
      /\ \A k \in Keys: map[k] = IF c.map[k] \in S THEN None ELSE c.map[k]
      /\ used = c.used - Cardinality(Bytes(c.entry, S))
  OBVIOUS
<1> HIDE DEF map, entry, used, older
<1>7. /\ Drop(c, S) \in Caches
      /\ Drop(c, S).map = map /\ Drop(c, S).entry = entry /\ Drop(c, S).used = used
      /\ Drop(c, S).queue = c.queue /\ Drop(c, S).activeLoads = c.activeLoads
      /\ Drop(c, S).reserved = c.reserved
  BY <1>1, <1>2, <1>3, <1>4, <1>5 DEF Caches
<1> QED BY <1>6, <1>7

\* Retained datasets are counted in used.
LEMMA BytesCounted ==
  ASSUME NEW c \in Caches, Counted(c), NEW S \in SUBSET Retained(c)
  PROVE  /\ IsFiniteSet(Bytes(c.entry, S)) /\ Cardinality(Bytes(c.entry, S)) \in Nat
         /\ Cardinality(Bytes(c.entry, S)) <= c.used
<1>1. Bytes(c.entry, S) \subseteq Bytes(c.entry, Retained(c))
  BY DEF Bytes
<1> QED BY <1>1, FS_Subset, FS_CardinalityType DEF Counted

-----------------------------------------------------------------------------
(* The queue.                                                                  *)

\* w holds each member of Q once, and nothing else.
Lists(w, Q) ==
  /\ \A i, j \in DOMAIN w: w[i] = w[j] => i = j
  /\ \A e \in Calls: e \in Q <=> \E i \in DOMAIN w: w[i] = e

Waiting(c) == {e \in Calls: c.entry[e].phase = "queued"}

\* The queue lists the entries that wait, each once.
LEMMA QueueLists ==
  ASSUME NEW c PROVE QueueOK(c) <=> Lists(c.queue, Waiting(c))
BY DEF QueueOK, Lists, Waiting

\* #loadQueue.push
LEMMA AppendLists ==
  ASSUME NEW w \in Seq(Calls), NEW Q, Lists(w, Q), NEW e \in Calls, e \notin Q
  PROVE  /\ Append(w, e) \in Seq(Calls) /\ Len(Append(w, e)) = Len(w) + 1
         /\ Lists(Append(w, e), Q \cup {e})
<1> DEFINE v == Append(w, e)
<1>1. /\ v \in Seq(Calls) /\ Len(v) = Len(w) + 1 /\ v[Len(w) + 1] = e /\ Len(w) \in Nat
      /\ \A i \in 1..Len(w): v[i] = w[i]
      /\ DOMAIN v = 1..(Len(w) + 1) /\ DOMAIN w = 1..Len(w)
  OBVIOUS
<1> HIDE DEF v
<1>2. \A i \in 1..Len(w): w[i] # e
  BY <1>1 DEF Lists
<1>3. \A i, j \in DOMAIN v: v[i] = v[j] => i = j
  <2> SUFFICES ASSUME NEW i \in 1..(Len(w) + 1), NEW j \in 1..(Len(w) + 1), v[i] = v[j]
               PROVE  i = j
    BY <1>1
  <2>1. CASE i \in 1..Len(w) /\ j \in 1..Len(w)
    BY <1>1, <2>1 DEF Lists
  <2>2. CASE i \in 1..Len(w) /\ j \notin 1..Len(w)
    <3>1. j = Len(w) + 1
      BY <1>1, <2>2
    <3> QED BY <1>1, <1>2, <2>2, <3>1
  <2>3. CASE i \notin 1..Len(w) /\ j \in 1..Len(w)
    <3>1. i = Len(w) + 1
      BY <1>1, <2>3
    <3> QED BY <1>1, <1>2, <2>3, <3>1
  <2>4. CASE i \notin 1..Len(w) /\ j \notin 1..Len(w)
    BY <1>1, <2>4
  <2> QED BY <2>1, <2>2, <2>3, <2>4
<1>4. \A d \in Calls: d \in Q \cup {e} <=> \E i \in DOMAIN v: v[i] = d
  <2> SUFFICES ASSUME NEW d \in Calls
               PROVE  d \in Q \cup {e} <=> \E i \in DOMAIN v: v[i] = d
    OBVIOUS
  <2>1. CASE d = e
    <3>1. Len(w) + 1 \in DOMAIN v
      BY <1>1
    <3> QED BY <1>1, <2>1, <3>1
  <2>2. CASE d # e
    <3>1. d \in Q <=> \E i \in DOMAIN w: w[i] = d
      BY DEF Lists
    <3>2. ASSUME NEW i \in DOMAIN w, w[i] = d PROVE i \in DOMAIN v /\ v[i] = d
      BY <1>1, <3>2
    <3>3. ASSUME NEW i \in DOMAIN v, v[i] = d PROVE i \in DOMAIN w /\ w[i] = d
      BY <1>1, <2>2, <3>3
    <3> QED BY <2>2, <3>1, <3>2, <3>3
  <2> QED BY <2>1, <2>2
<1>5. Lists(v, Q \cup {e})
  BY <1>3, <1>4 DEF Lists
<1> QED BY <1>1, <1>5 DEF v

\* #loadQueue.shift
LEMMA TailLists ==
  ASSUME NEW w \in Seq(Calls), NEW Q, Lists(w, Q), w # <<>>
  PROVE  /\ Head(w) \in Calls /\ Head(w) \in Q
         /\ Tail(w) \in Seq(Calls) /\ Len(Tail(w)) = Len(w) - 1 /\ Len(w) \in Nat
         /\ Lists(Tail(w), Q \ {Head(w)})
<1> DEFINE h == Head(w)
           v == Tail(w)
<1>1. /\ h \in Calls /\ h = w[1] /\ 1 \in DOMAIN w /\ Len(w) \in Nat /\ Len(w) >= 1
      /\ v \in Seq(Calls) /\ Len(v) = Len(w) - 1
      /\ \A i \in DOMAIN v: v[i] = w[i + 1] /\ i + 1 \in DOMAIN w
      /\ DOMAIN v = 1..(Len(w) - 1) /\ DOMAIN w = 1..Len(w)
  OBVIOUS
<1> HIDE DEF h, v
<1>2. \A i, j \in DOMAIN v: v[i] = v[j] => i = j
  <2> SUFFICES ASSUME NEW i \in DOMAIN v, NEW j \in DOMAIN v, v[i] = v[j] PROVE i = j
    OBVIOUS
  <2>1. i + 1 = j + 1
    BY <1>1 DEF Lists
  <2> QED BY <1>1, <2>1
<1>3. \A i \in DOMAIN v: v[i] # h
  <2> SUFFICES ASSUME NEW i \in DOMAIN v, v[i] = h PROVE FALSE
    OBVIOUS
  <2>1. i + 1 = 1
    BY <1>1 DEF Lists
  <2> QED BY <1>1, <2>1
<1>4. \A d \in Calls: d \in Q \ {h} <=> \E i \in DOMAIN v: v[i] = d
  <2> SUFFICES ASSUME NEW d \in Calls
               PROVE  d \in Q \ {h} <=> \E i \in DOMAIN v: v[i] = d
    OBVIOUS
  <2>1. CASE d = h
    BY <1>3, <2>1
  <2>2. CASE d # h
    <3>1. d \in Q <=> \E i \in DOMAIN w: w[i] = d
      BY DEF Lists
    <3>2. ASSUME NEW i \in DOMAIN w, w[i] = d PROVE i - 1 \in DOMAIN v /\ v[i - 1] = d
      <4>1. i \in 2..Len(w)
        BY <1>1, <2>2, <3>2
      <4>2. i - 1 \in DOMAIN v /\ (i - 1) + 1 = i
        BY <1>1, <4>1
      <4> QED BY <1>1, <3>2, <4>2
    <3>3. ASSUME NEW i \in DOMAIN v, v[i] = d PROVE i + 1 \in DOMAIN w /\ w[i + 1] = d
      BY <1>1, <3>3
    <3> QED BY <2>2, <3>1, <3>2, <3>3
  <2> QED BY <2>1, <2>2
<1>5. Lists(v, Q \ {h}) /\ h \in Q
  BY <1>1, <1>2, <1>4 DEF Lists
<1> QED BY <1>1, <1>5 DEF h, v

\* A splice at the index i takes the entry at i out, and no other.
LEMMA RemoveLists ==
  ASSUME NEW w \in Seq(Calls), NEW Q, Lists(w, Q), NEW i \in DOMAIN w
  PROVE  /\ RemoveAt(w, i) \in Seq(Calls) /\ Len(RemoveAt(w, i)) = Len(w) - 1
         /\ Lists(RemoveAt(w, i), Q \ {w[i]})
<1> DEFINE a == SubSeq(w, 1, i - 1)
           b == SubSeq(w, i + 1, Len(w))
           v == RemoveAt(w, i)
           n == Len(w) - 1
<1>1. Len(w) \in Nat /\ i \in 1..Len(w) /\ i \in Nat
  OBVIOUS
<1>2. a \in Seq(Calls) /\ Len(a) = i - 1 /\ \A j \in 1..(i - 1): a[j] = w[j]
  BY <1>1
<1>3. b \in Seq(Calls) /\ Len(b) = Len(w) - i /\ \A j \in 1..(Len(w) - i): b[j] = w[i + j]
  BY <1>1
<1>4. v = a \o b
  BY DEF RemoveAt
<1>0. DOMAIN w = 1..Len(w) /\ n \in Nat
  BY <1>1
<1> HIDE DEF a, b, v, n
<1>5. v \in Seq(Calls) /\ Len(v) = n /\ DOMAIN v = 1..n
  <2>1. a \o b \in Seq(Calls) /\ Len(a \o b) = Len(w) - 1
    BY <1>1, <1>2, <1>3
  <2> QED BY <1>4, <2>1 DEF n
<1>6. ASSUME NEW j \in 1..n PROVE v[j] = IF j < i THEN w[j] ELSE w[j + 1]
  <2>1. CASE j < i
    BY <1>1, <1>2, <1>3, <1>4, <2>1 DEF n
  <2>2. CASE ~(j < i)
    <3>1. (a \o b)[j] = b[j - (i - 1)]
      <4>1. j \in 1..(Len(a) + Len(b)) /\ ~(j <= Len(a)) /\ Len(a) = i - 1
        BY <1>1, <1>2, <1>3, <2>2 DEF n
      <4> QED BY <1>2, <1>3, <4>1
    <3>2. j - (i - 1) \in 1..(Len(w) - i) /\ i + (j - (i - 1)) = j + 1
      BY <1>1, <2>2 DEF n
    <3>3. b[j - (i - 1)] = w[j + 1]
      BY <1>3, <3>2
    <3> QED BY <1>4, <2>2, <3>1, <3>3
  <2> QED BY <2>1, <2>2
<1> DEFINE from(j) == IF j < i THEN j ELSE j + 1
<1>7. \A j \in 1..n: from(j) \in DOMAIN w /\ from(j) # i /\ v[j] = w[from(j)]
  BY <1>0, <1>1, <1>6 DEF n
<1>8. \A j, k \in 1..n: from(j) = from(k) => j = k
  BY <1>1 DEF n
<1>9. \A k \in DOMAIN w: k # i => \E j \in 1..n: from(j) = k
  <2> SUFFICES ASSUME NEW k \in DOMAIN w, k # i PROVE \E j \in 1..n: from(j) = k
    OBVIOUS
  <2>1. CASE k < i
    <3>1. k \in 1..n /\ from(k) = k
      BY <1>0, <1>1, <2>1 DEF n
    <3> QED BY <3>1
  <2>2. CASE k > i
    <3>1. k - 1 \in 1..n /\ from(k - 1) = k
      BY <1>0, <1>1, <2>2 DEF n
    <3> QED BY <3>1
  <2> QED BY <1>0, <1>1, <2>1, <2>2
<1> HIDE DEF from
<1>10. \A j, k \in DOMAIN v: v[j] = v[k] => j = k
  <2> SUFFICES ASSUME NEW j \in 1..n, NEW k \in 1..n, v[j] = v[k] PROVE j = k
    BY <1>5
  <2>1. from(j) = from(k)
    BY <1>7 DEF Lists
  <2> QED BY <1>8, <2>1
<1>11. \A d \in Calls: d \in Q \ {w[i]} <=> \E j \in DOMAIN v: v[j] = d
  <2> SUFFICES ASSUME NEW d \in Calls
               PROVE  d \in Q \ {w[i]} <=> \E j \in DOMAIN v: v[j] = d
    OBVIOUS
  <2>1. d \in Q <=> \E k \in DOMAIN w: w[k] = d
    BY DEF Lists
  <2>2. ASSUME NEW k \in DOMAIN w, w[k] = d, d # w[i] PROVE \E j \in DOMAIN v: v[j] = d
    BY <1>5, <1>7, <1>9, <2>2
  <2>3. ASSUME NEW j \in DOMAIN v, v[j] = d PROVE d # w[i] /\ \E k \in DOMAIN w: w[k] = d
    BY <1>5, <1>7, <2>3 DEF Lists
  <2> QED BY <2>1, <2>2, <2>3
<1>12. Lists(v, Q \ {w[i]})
  BY <1>10, <1>11 DEF Lists
<1> QED BY <1>5, <1>12 DEF v, n

\* #removeQueued finds the entry that it takes out.
LEMMA RemoveQueuedIs ==
  ASSUME NEW c \in Caches, NEW e \in Calls, QueueOK(c), c.entry[e].phase = "queued"
  PROVE  LET d == RemoveQueued(c, e) IN
         /\ Sets(c, d, e, c.entry[e]) /\ d.map = c.map /\ d.activeLoads = c.activeLoads
         /\ d.used = c.used /\ d.reserved = c.reserved
         /\ Len(d.queue) = Len(c.queue) - 1 /\ Lists(d.queue, Waiting(c) \ {e})
<1> DEFINE i == CHOOSE i \in DOMAIN c.queue: c.queue[i] = e
<1>1. i \in DOMAIN c.queue /\ c.queue[i] = e
  <2>1. \E j \in DOMAIN c.queue: c.queue[j] = e
    BY DEF QueueOK
  <2> QED BY <2>1
<1>2. RemoveQueued(c, e) = [c EXCEPT !.queue = RemoveAt(c.queue, i)]
  BY DEF RemoveQueued
<1> HIDE DEF i
<1>3. /\ RemoveAt(c.queue, i) \in Seq(Calls) /\ Len(RemoveAt(c.queue, i)) = Len(c.queue) - 1
      /\ Lists(RemoveAt(c.queue, i), Waiting(c) \ {c.queue[i]})
  <2>1. c.queue \in Seq(Calls) /\ Lists(c.queue, Waiting(c))
    BY QueueLists DEF Caches
  <2> QED BY <1>1, <2>1, RemoveLists
<1> QED BY <1>1, <1>2, <1>3 DEF Sets, Caches

-----------------------------------------------------------------------------
(* The cache keeps its books: one entry at a time, idle datasets that are      *)
(* dropped, and the start of a load.                                           *)

\* A step that changes one entry keeps the books if its counters follow.
LEMMA StepKeeps ==
  ASSUME NEW c, CacheOK(c), NEW d, NEW e \in Calls, NEW new, Sets(c, d, e, new),
         \A k \in Keys: d.map[k] = c.map[k] \/ {c.map[k], d.map[k]} \subseteq {e, None},
         \A k \in Keys: d.map[k] = e => new.key = k,
         EntryOK(d, e),
         d.activeLoads = c.activeLoads + One(new.slot) - One(c.entry[e].slot),
         d.reserved = c.reserved + MaxEntryWeight * One(new.phase = "running")
                                 - MaxEntryWeight * One(c.entry[e].phase = "running"),
         d.used = c.used + Weighs(new) - Weighs(c.entry[e])
  PROVE  d \in Caches /\ EntriesOK(d) /\ Counted(d)
<1>1. c \in Caches /\ d \in Caches /\ EntriesOK(c) /\ Counted(c) /\ d.entry[e] = new
  BY DEF CacheOK, Sets
<1>2. EntriesOK(d)
  BY <1>1, EntriesKept DEF OnlyEntry, Sets
<1>3. c.entry[e].weight <= MaxEntryWeight /\ d.entry[e].weight <= MaxEntryWeight
  BY <1>1 DEF EntriesOK, EntryOK
<1>4. Counted(d)
  BY <1>1, <1>3, CountersFollow DEF Sets
<1> QED BY <1>1, <1>2, <1>4

\* An entry whose key is not in the map can be unmapped in every key.
LEMMA UnmapsAll ==
  ASSUME NEW c, CacheOK(c), NEW d, NEW e \in Calls, Unmaps(c, d, e)
  PROVE  /\ \A k \in Keys: d.map[k] = c.map[k] \/ {c.map[k], d.map[k]} \subseteq {e, None}
         /\ \A k \in Keys: d.map[k] # e
<1> SUFFICES ASSUME NEW k \in Keys
             PROVE  /\ d.map[k] = c.map[k] \/ {c.map[k], d.map[k]} \subseteq {e, None}
                    /\ d.map[k] # e
  OBVIOUS
<1>1. None \notin Calls
  BY CacheOptions
<1>2. c.map[k] = e => c.entry[e].key = k
  BY <1>1 DEF CacheOK, EntriesOK
<1> QED BY <1>1, <1>2 DEF Unmaps

\* What #leastRecentlyUsedUnpinned may choose is in memory and in the map.
LEMMA IdleIsRetained ==
  ASSUME NEW c, CacheOK(c), NEW e \in Idle(c)
  PROVE  e \in Calls /\ c.entry[e].retained /\ ~c.entry[e].evictOnRelease /\ Mapped(c, e)
<1>1. e \in Calls /\ Mapped(c, e) /\ c.entry[e].phase = "ready"
  BY DEF Idle
<1>2. EntryOK(c, e)
  BY <1>1 DEF CacheOK, EntriesOK
<1> QED BY <1>1, <1>2 DEF EntryOK, Loading, Mapped

\* Eviction of idle datasets keeps the books, whichever are chosen.
LEMMA DropIdleKeeps ==
  ASSUME NEW c, CacheOK(c), NEW S \in SUBSET Idle(c)
  PROVE  LET d == Drop(c, S) IN
         /\ CacheOK(d)
         /\ \A x \in Calls: d.entry[x] = IF x \in S THEN [c.entry[x] EXCEPT !.retained = FALSE]
                                         ELSE c.entry[x]
         /\ \A k \in Keys: d.map[k] = IF c.map[k] \in S THEN None ELSE c.map[k]
         /\ d.queue = c.queue /\ d.activeLoads = c.activeLoads /\ d.reserved = c.reserved
         /\ d.used = c.used - Cardinality(Bytes(c.entry, S))
<1> DEFINE d == Drop(c, S)
<1>0. None \notin Calls /\ None \notin Keys
  BY CacheOptions
<1>1. \A e \in S: e \in Calls /\ c.entry[e].retained /\ ~c.entry[e].evictOnRelease /\ Mapped(c, e)
  BY IdleIsRetained
<1>2. S \in SUBSET Retained(c) /\ S \in SUBSET Calls
  BY <1>1 DEF Retained
<1>3. /\ c \in Caches /\ EntriesOK(c) /\ Counted(c) /\ Within(c) /\ QueueOK(c)
  BY DEF CacheOK
<1>4. /\ IsFiniteSet(Bytes(c.entry, S)) /\ Cardinality(Bytes(c.entry, S)) \in Nat
      /\ Cardinality(Bytes(c.entry, S)) <= c.used
  BY <1>2, <1>3, BytesCounted
<1>5. /\ d \in Caches
      /\ \A x \in Calls: d.entry[x] = IF x \in S THEN [c.entry[x] EXCEPT !.retained = FALSE]
                                      ELSE c.entry[x]
      /\ \A k \in Keys: d.map[k] = IF c.map[k] \in S THEN None ELSE c.map[k]
      /\ d.queue = c.queue /\ d.activeLoads = c.activeLoads /\ d.reserved = c.reserved
      /\ d.used = c.used - Cardinality(Bytes(c.entry, S))
  BY <1>2, <1>3, <1>4, DropIs
<1> HIDE DEF d
<1>6. \A x \in Calls: c.entry[x] \in Entries
  BY <1>3 DEF Caches
<1>7. \A x \in Calls: /\ d.entry[x].phase = c.entry[x].phase /\ d.entry[x].key = c.entry[x].key
                      /\ d.entry[x].weight = c.entry[x].weight /\ d.entry[x].slot = c.entry[x].slot
                      /\ x \in S => ~d.entry[x].retained
  BY <1>5, <1>6 DEF Entries
<1>8. ASSUME NEW x \in Calls PROVE EntryOK(d, x)
  <2>1. EntryOK(c, x) /\ c.entry[x].key \in Keys \cup {None} /\ c.entry[x] \in Entries
    BY <1>3, <1>6 DEF EntriesOK, Entries
  <2>2. CASE x \in S
    <3>1. d.entry[x] = [c.entry[x] EXCEPT !.retained = FALSE]
      BY <1>5, <2>2
    <3>2. Mapped(c, x) /\ ~c.entry[x].evictOnRelease /\ c.entry[x].phase = "ready" /\ c.entry[x].pins = 0
      BY <1>1, <2>2 DEF Idle
    <3>3. ~Mapped(d, x)
      BY <1>0, <1>5, <1>7, <2>1, <2>2, <3>2 DEF Mapped
    <3> QED BY <2>1, <3>1, <3>2, <3>3 DEF EntryOK, Loading, Entries
  <2>3. CASE x \notin S
    <3>1. d.entry[x] = c.entry[x]
      BY <1>5, <2>3
    <3>2. Mapped(d, x) <=> Mapped(c, x)
      BY <1>0, <1>5, <2>1, <2>3, <3>1 DEF Mapped
    <3> QED BY <2>1, <3>1, <3>2 DEF EntryOK, Loading
  <2> QED BY <2>2, <2>3
<1>9. EntriesOK(d)
  <2>1. ASSUME NEW k \in Keys, d.map[k] # None PROVE d.entry[d.map[k]].key = k
    <3>1. d.map[k] = c.map[k] /\ c.map[k] \in Calls
      BY <1>3, <1>5, <2>1 DEF Caches
    <3> QED BY <1>3, <1>7, <2>1, <3>1 DEF EntriesOK
  <2> QED BY <1>8, <2>1 DEF EntriesOK
<1>10. Counted(d)
  <2>1. Slots(d) = Slots(c) /\ Running(d) = Running(c)
    BY <1>7 DEF Slots, Running
  <2>2. Retained(d) \cup S = Retained(c) /\ Retained(d) \cap S = {}
    BY <1>2, <1>5, <1>7 DEF Retained
  <2>3. Bytes(d.entry, Retained(d)) = Bytes(c.entry, Retained(d))
    BY <1>7, BytesOfSame DEF Retained
  <2>4. /\ Bytes(c.entry, Retained(c)) = Bytes(c.entry, Retained(d)) \cup Bytes(c.entry, S)
        /\ Bytes(c.entry, Retained(d)) \cap Bytes(c.entry, S) = {}
    <3>1. /\ Bytes(c.entry, Retained(d) \cup S) = Bytes(c.entry, Retained(d)) \cup Bytes(c.entry, S)
          /\ Bytes(c.entry, Retained(d)) \cap Bytes(c.entry, S) = {}
      BY <2>2, BytesOfParts
    <3> QED BY <2>2, <3>1
  <2>5. IsFiniteSet(Bytes(c.entry, Retained(d)))
    BY <1>3, <2>4, FS_Subset DEF Counted
  <2>6. /\ Cardinality(Bytes(c.entry, Retained(d))) \in Nat
        /\ Cardinality(Bytes(c.entry, Retained(c)))
             = Cardinality(Bytes(c.entry, Retained(d))) + Cardinality(Bytes(c.entry, S))
    BY <1>4, <2>4, <2>5, CountParts
  <2>7. d.used = Cardinality(Bytes(c.entry, Retained(d)))
    BY <1>3, <1>4, <1>5, <2>6 DEF Counted
  <2> QED BY <1>3, <1>5, <2>1, <2>3, <2>5, <2>7 DEF Counted
<1>11. Within(d)
  BY <1>3, <1>4, <1>5, CacheOptions DEF Within, Caches
<1>12. QueueOK(d)
  BY <1>3, <1>5, <1>7 DEF QueueOK
<1> QED BY <1>5, <1>9, <1>10, <1>11, <1>12 DEF CacheOK, d

-----------------------------------------------------------------------------
(* #pumpLoads.                                                                 *)

\* What a caller can see of an entry stays, except that its load may start or end.
Mild(c, d) ==
  \A x \in Calls:
    /\ d.entry[x].key = c.entry[x].key
    /\ d.entry[x].waiters = c.entry[x].waiters
    /\ d.entry[x].pins = c.entry[x].pins
    /\ \/ d.entry[x].phase = c.entry[x].phase
       \/ c.entry[x].phase = "queued" /\ d.entry[x].phase = "running"
       \/ Loading(c, x) /\ d.entry[x].phase = "failed"

\* The start of the load at the head of the queue keeps the books: it fits, or fails.
LEMMA StartKeeps ==
  ASSUME NEW c, CacheOK(c), c.activeLoads < MaxConcurrentLoads, c.queue # <<>>
  PROVE  LET d == Start([c EXCEPT !.queue = Tail(@)], Head(c.queue)) IN
         /\ CacheOK(d) /\ Mild(c, d)
         /\ d.queue = Tail(c.queue) /\ d.activeLoads = c.activeLoads + 1
<1> DEFINE h == Head(c.queue)
           a == [c EXCEPT !.queue = Tail(@)]
           b == [a EXCEPT !.activeLoads = @ + 1, !.entry[h].slot = TRUE]
           S == {e \in Idle(b): ~Fits(Drop(b, {x \in Idle(b): <<x, e>> \in b.older}))}
           f == Drop(c, S)
           g == Drop(b, S)
           d == Start(a, h)
<1>0. None \notin Calls /\ None \notin Keys /\ MaxEntryWeight \in Nat
  BY CacheOptions
<1>1. /\ c \in Caches /\ EntriesOK(c) /\ Counted(c) /\ Within(c) /\ Lists(c.queue, Waiting(c))
  BY QueueLists DEF CacheOK
<1>2. /\ h \in Calls /\ h \in Waiting(c) /\ Tail(c.queue) \in Seq(Calls)
      /\ Lists(Tail(c.queue), Waiting(c) \ {h})
  BY <1>1, TailLists DEF Caches
<1>3. c.entry[h].phase = "queued" /\ c.entry[h] \in Entries /\ EntryOK(c, h)
  BY <1>1, <1>2 DEF Waiting, Caches, EntriesOK
<1> DEFINE taken == [c.entry[h] EXCEPT !.slot = TRUE]
<1>4. b = [c EXCEPT !.queue = Tail(c.queue), !.activeLoads = c.activeLoads + 1,
                    !.entry = [c.entry EXCEPT ![h] = taken]]
  BY <1>1 DEF Caches
<1>5. taken \in Entries /\ taken.key = c.entry[h].key /\ taken.phase = "queued"
      /\ taken.pins = c.entry[h].pins /\ taken.weight = c.entry[h].weight
      /\ taken.waiters = c.entry[h].waiters
  BY <1>3 DEF Entries
<1>6. c.activeLoads + 1 \in Nat
  BY <1>1 DEF Caches
<1> HIDE DEF h
<1>7. /\ b \in Caches /\ b.map = c.map /\ b.entry = [c.entry EXCEPT ![h] = taken]
      /\ b.queue = Tail(c.queue) /\ b.activeLoads = c.activeLoads + 1
      /\ b.used = c.used /\ b.reserved = c.reserved
  <2> HIDE DEF taken, b
  <2> QED BY <1>1, <1>2, <1>4, <1>5, <1>6 DEF Caches
<1> HIDE DEF a, b, d, f, g, S, taken
<1> SUFFICES CacheOK(d) /\ Mild(c, d) /\ d.queue = Tail(c.queue) /\ d.activeLoads = c.activeLoads + 1
  BY DEF d, a, h
<1>8. b.entry[h] = taken /\ \A x \in Calls: x # h => b.entry[x] = c.entry[x]
  BY <1>1, <1>2, <1>7 DEF Caches
<1>9. d = IF Fits(g)
          THEN [g EXCEPT !.entry[h].phase = "running", !.entry[h].reservation = MaxEntryWeight,
                         !.reserved = @ + MaxEntryWeight]
          ELSE Fail(g, h)
  BY DEF Start, EvictUntilAvailable, a, b, d, g, S
<1>10. Idle(b) = Idle(c)
  <2>1. \A x \in Calls: b.entry[x].phase = c.entry[x].phase /\ b.entry[x].key = c.entry[x].key
                        /\ b.entry[x].pins = c.entry[x].pins
    BY <1>3, <1>5, <1>8
  <2> QED BY <1>7, <2>1 DEF Idle, Mapped
<1>11. S \in SUBSET Idle(c) /\ S \in SUBSET Calls /\ h \notin S
  BY <1>3, <1>10 DEF Idle, S
<1>12. /\ CacheOK(f)
       /\ \A x \in Calls: f.entry[x] = IF x \in S THEN [c.entry[x] EXCEPT !.retained = FALSE]
                                       ELSE c.entry[x]
       /\ \A k \in Keys: f.map[k] = IF c.map[k] \in S THEN None ELSE c.map[k]
       /\ f.queue = c.queue /\ f.activeLoads = c.activeLoads /\ f.reserved = c.reserved
       /\ f.used = c.used - Cardinality(Bytes(c.entry, S))
  BY <1>11, DropIdleKeeps DEF f
<1>13. /\ Bytes(b.entry, S) = Bytes(c.entry, S)
       /\ IsFiniteSet(Bytes(c.entry, S)) /\ Cardinality(Bytes(c.entry, S)) <= c.used
  <2>1. \A x \in S: b.entry[x].weight = c.entry[x].weight
    BY <1>8, <1>11
  <2>2. S \in SUBSET Retained(c)
    BY <1>11, IdleIsRetained DEF Retained
  <2> QED BY <1>1, <2>1, <2>2, BytesOfSame, BytesCounted
<1>14. /\ g \in Caches
       /\ \A x \in Calls: g.entry[x] = IF x \in S THEN [b.entry[x] EXCEPT !.retained = FALSE]
                                       ELSE b.entry[x]
       /\ \A k \in Keys: g.map[k] = IF b.map[k] \in S THEN None ELSE b.map[k]
       /\ g.queue = b.queue /\ g.activeLoads = b.activeLoads /\ g.reserved = b.reserved
       /\ g.used = b.used - Cardinality(Bytes(b.entry, S))
  <2>1. b \in Caches /\ IsFiniteSet(Bytes(b.entry, S)) /\ Cardinality(Bytes(b.entry, S)) <= b.used
    BY <1>7, <1>13
  <2> QED BY <1>11, <2>1, DropIs DEF g
\* g is f with the slot taken and the head of the queue gone.
<1>15. /\ g.entry[h] = taken /\ f.entry[h] = c.entry[h]
       /\ \A x \in Calls: x # h => g.entry[x] = f.entry[x]
       /\ \A k \in Keys: g.map[k] = f.map[k]
       /\ g.used = f.used /\ g.reserved = f.reserved /\ g.activeLoads = f.activeLoads + 1
       /\ g.queue = Tail(c.queue)
  <2>1. g.entry[h] = taken /\ f.entry[h] = c.entry[h]
    BY <1>2, <1>8, <1>11, <1>12, <1>14
  <2>2. ASSUME NEW x \in Calls, x # h PROVE g.entry[x] = f.entry[x]
    <3>1. b.entry[x] = c.entry[x]
      BY <1>8, <2>2
    <3>2. f.entry[x] = IF x \in S THEN [c.entry[x] EXCEPT !.retained = FALSE] ELSE c.entry[x]
      BY <1>12
    <3>3. g.entry[x] = IF x \in S THEN [b.entry[x] EXCEPT !.retained = FALSE] ELSE b.entry[x]
      BY <1>14
    <3> QED BY <3>1, <3>2, <3>3
  <2>3. \A k \in Keys: g.map[k] = f.map[k]
    BY <1>7, <1>12, <1>14
  <2>4. /\ g.used = f.used /\ g.reserved = f.reserved /\ g.activeLoads = f.activeLoads + 1
        /\ g.queue = Tail(c.queue)
    BY <1>7, <1>12, <1>13, <1>14
  <2> QED BY <2>1, <2>2, <2>3, <2>4
<1>16. /\ f \in Caches /\ EntriesOK(f) /\ EntryOK(f, h) /\ Within(f)
  BY <1>2, <1>12 DEF CacheOK, EntriesOK
<1>17. \A x \in Calls: /\ g.entry[x].key = c.entry[x].key /\ g.entry[x].pins = c.entry[x].pins
                       /\ g.entry[x].waiters = c.entry[x].waiters
                       /\ g.entry[x].phase = c.entry[x].phase
  <2>1. \A x \in Calls: c.entry[x] \in Entries
    BY <1>1 DEF Caches
  <2>2. \A x \in Calls: /\ f.entry[x].key = c.entry[x].key /\ f.entry[x].pins = c.entry[x].pins
                        /\ f.entry[x].waiters = c.entry[x].waiters
                        /\ f.entry[x].phase = c.entry[x].phase
    BY <1>12, <2>1 DEF Entries
  <2> QED BY <1>3, <1>5, <1>15, <2>2
\* The common end of both outcomes.
<1>18. ASSUME NEW new \in Entries, Sets(g, d, h, new), EntryOK(d, h), d.queue = g.queue,
              \/ d.map = g.map
              \/ Unmaps(g, d, h),
              new.key = taken.key, new.pins = taken.pins, new.waiters = taken.waiters, new.slot,
              ~new.retained, new.phase \in {"running", "failed"},
              d.activeLoads = g.activeLoads, d.used = g.used,
              d.reserved = g.reserved + MaxEntryWeight * One(new.phase = "running"),
              d.used + d.reserved <= Capacity
       PROVE  CacheOK(d) /\ Mild(c, d) /\ d.queue = Tail(c.queue) /\ d.activeLoads = c.activeLoads + 1
  <2>1. d \in Caches /\ \A x \in Calls: x # h => d.entry[x] = f.entry[x]
    BY <1>15, <1>18 DEF Sets
  <2>2. d.entry[h] = new
    BY <1>18 DEF Sets
  <2>3. \A k \in Keys: d.map[k] = f.map[k] \/ {f.map[k], d.map[k]} \subseteq {h, None}
    BY <1>15, <1>18 DEF Unmaps
  <2>4. ASSUME NEW k \in Keys, d.map[k] = h PROVE new.key = k
    <3>1. f.map[k] = h
      BY <1>0, <1>2, <1>15, <1>18, <2>4 DEF Unmaps
    <3> QED BY <1>0, <1>2, <1>5, <1>15, <1>16, <1>18, <3>1 DEF EntriesOK
  <2>5. /\ d.activeLoads = f.activeLoads + One(new.slot) - One(f.entry[h].slot)
        /\ d.activeLoads = c.activeLoads + 1 /\ d.activeLoads <= MaxConcurrentLoads
    <3>1. ~f.entry[h].slot
      BY <1>3, <1>15, <1>16 DEF EntryOK
    <3>2. c.activeLoads \in Nat /\ MaxConcurrentLoads \in Nat
      BY <1>1, CacheOptions DEF Caches
    <3> QED BY <1>12, <1>15, <1>18, <3>1, <3>2 DEF One
  <2>6. d.reserved = f.reserved + MaxEntryWeight * One(new.phase = "running")
                                - MaxEntryWeight * One(f.entry[h].phase = "running")
    <3>1. One(f.entry[h].phase = "running") = 0 /\ MaxEntryWeight * 0 = 0
      BY <1>0, <1>3, <1>15 DEF One
    <3>2. d.reserved = f.reserved + MaxEntryWeight * One(new.phase = "running")
      BY <1>15, <1>18
    <3>3. MaxEntryWeight * One(new.phase = "running") \in Nat /\ f.reserved \in Nat
      BY <1>0, <1>16 DEF One, Caches
    <3> QED BY <3>1, <3>2, <3>3
  <2>7. d.used = f.used + Weighs(new) - Weighs(f.entry[h])
    <3>1. ~f.entry[h].retained
      BY <1>3, <1>15, <1>16 DEF EntryOK
    <3> QED BY <1>15, <1>16, <1>18, <3>1 DEF Weighs, Caches
  <2>8. EntriesOK(d) /\ Counted(d)
    <3>1. Sets(f, d, h, new)
      BY <2>1, <2>2 DEF Sets
    <3>2. CacheOK(f)
      BY <1>12
    <3>3. EntryOK(d, h)
      BY <1>18
    <3> QED BY <1>2, <2>3, <2>4, <2>5, <2>6, <2>7, <3>1, <3>2, <3>3, StepKeeps
  <2>9. Within(d)
    BY <1>18, <2>5 DEF Within
  <2>10. QueueOK(d)
    <3>1. \A x \in Calls: x \in Waiting(d) <=> x \in Waiting(c) /\ x # h
      <4>1. \A x \in Calls: x # h => d.entry[x].phase = c.entry[x].phase
        BY <1>15, <1>17, <2>1
      <4> QED BY <1>18, <2>2, <4>1 DEF Waiting
    <3>2. Waiting(d) = Waiting(c) \ {h}
      BY <3>1 DEF Waiting
    <3> QED BY <1>2, <1>15, <1>18, <3>2, QueueLists
  <2>11. Mild(c, d)
    <3> SUFFICES ASSUME NEW x \in Calls
                 PROVE  /\ d.entry[x].key = c.entry[x].key
                        /\ d.entry[x].waiters = c.entry[x].waiters
                        /\ d.entry[x].pins = c.entry[x].pins
                        /\ \/ d.entry[x].phase = c.entry[x].phase
                           \/ c.entry[x].phase = "queued" /\ d.entry[x].phase = "running"
                           \/ Loading(c, x) /\ d.entry[x].phase = "failed"
      BY DEF Mild
    <3>1. CASE x = h
      BY <1>3, <1>5, <1>18, <2>2, <3>1 DEF Loading
    <3>2. CASE x # h
      BY <1>15, <1>17, <2>1, <3>2
    <3> QED BY <3>1, <3>2
  <2> QED BY <1>15, <1>18, <2>1, <2>5, <2>8, <2>9, <2>10, <2>11 DEF CacheOK
<1>19. CASE Fits(g)
  <2> DEFINE new == [taken EXCEPT !.phase = "running", !.reservation = MaxEntryWeight]
  <2>1. d = [g EXCEPT !.entry = [g.entry EXCEPT ![h] = new], !.reserved = g.reserved + MaxEntryWeight]
    BY <1>2, <1>9, <1>14, <1>15, <1>19 DEF Caches, Entries
  <2>2. /\ new \in Entries /\ new.key = taken.key /\ new.pins = taken.pins
        /\ new.waiters = taken.waiters /\ new.slot /\ ~new.retained /\ new.phase = "running"
        /\ new.reservation = MaxEntryWeight /\ new.weight = taken.weight
        /\ new.aborted = taken.aborted /\ new.evictOnRelease = taken.evictOnRelease
    BY <1>0, <1>3, <1>5 DEF taken, Entries, EntryOK
  <2> HIDE DEF new
  <2>3. /\ d \in Caches /\ d.entry = [g.entry EXCEPT ![h] = new] /\ d.map = g.map
        /\ d.queue = g.queue /\ d.activeLoads = g.activeLoads /\ d.used = g.used
        /\ d.reserved = g.reserved + MaxEntryWeight
    <3>0. g.reserved \in Nat /\ g.entry \in [Calls -> Entries]
      BY <1>14 DEF Caches
    <3> DEFINE entry == [g.entry EXCEPT ![h] = new]
    <3>1. new \in Entries
      BY <2>2
    <3>2. entry \in [Calls -> Entries]
      BY <3>0, <3>1
    <3>3. g.reserved + MaxEntryWeight \in Nat
      BY <1>0, <3>0
    <3>4. d = [g EXCEPT !.entry = entry, !.reserved = g.reserved + MaxEntryWeight]
      BY <2>1
    <3> HIDE DEF entry
    <3>5. /\ d \in Caches /\ d.entry = entry /\ d.map = g.map
          /\ d.queue = g.queue /\ d.activeLoads = g.activeLoads /\ d.used = g.used
          /\ d.reserved = g.reserved + MaxEntryWeight
      BY <1>14, <3>2, <3>3, <3>4 DEF Caches
    <3> QED BY <3>5 DEF entry
  <2>4. Sets(g, d, h, new)
    BY <1>2, <1>14, <2>3 DEF Sets, Caches
  <2>5. d.used + d.reserved <= Capacity
    BY <1>0, <1>14, <1>19, <2>3, CacheOptions DEF Fits, Caches
  <2>6. EntryOK(d, h)
    <3>1. d.entry[h] = new
      BY <2>4 DEF Sets
    <3>2. /\ taken.waiters = c.entry[h].waiters /\ taken.aborted = c.entry[h].aborted
          /\ taken.evictOnRelease = c.entry[h].evictOnRelease
          /\ taken.waiters \in Nat
      BY <1>3 DEF taken, Entries
    <3>3. /\ ~new.aborted /\ new.waiters > 0 /\ ~new.evictOnRelease /\ new.pins = 0
          /\ new.weight <= MaxEntryWeight
      BY <1>3, <1>5, <2>2, <3>2 DEF EntryOK
    <3>4. new.key # None => Mapped(d, h)
      <4>1. c.entry[h].key # None => Mapped(f, h)
        BY <1>3, <1>15, <1>16 DEF EntryOK, Loading
      <4>2. c.entry[h].key \in Keys \cup {None}
        BY <1>3 DEF Entries
      <4> QED BY <1>5, <1>15, <2>2, <2>3, <3>1, <4>1, <4>2 DEF Mapped
    <3> QED BY <1>0, <2>2, <3>1, <3>2, <3>3, <3>4 DEF EntryOK, Loading
  <2>7. d.reserved = g.reserved + MaxEntryWeight * One(new.phase = "running")
    BY <1>0, <2>2, <2>3 DEF One
  <2> QED BY <1>18, <2>2, <2>3, <2>4, <2>5, <2>6, <2>7
<1>20. CASE ~Fits(g)
  <2> DEFINE new == [taken EXCEPT !.reservation = 0, !.phase = "failed"]
  <2>1. taken.reservation = 0
    BY <1>3 DEF taken, Entries, EntryOK
  <2>2. /\ Sets(g, d, h, new) /\ Unmaps(g, d, h)
        /\ d.queue = g.queue /\ d.activeLoads = g.activeLoads
        /\ d.used = g.used /\ d.reserved = g.reserved
    <3>1. g.entry[h].reservation <= g.reserved
      BY <1>14, <1>15, <2>1 DEF Caches
    <3>2. g.reserved - g.entry[h].reservation = g.reserved
      BY <1>14, <1>15, <2>1 DEF Caches
    <3> QED BY <1>2, <1>9, <1>14, <1>15, <1>20, <3>1, <3>2, FailIs
  <2>3. /\ new \in Entries /\ new.key = taken.key /\ new.pins = taken.pins
        /\ new.waiters = taken.waiters /\ new.slot /\ ~new.retained /\ new.phase = "failed"
        /\ new.reservation = 0 /\ new.weight = taken.weight
        /\ new.evictOnRelease = c.entry[h].evictOnRelease
    BY <1>3, <1>5 DEF taken, Entries, EntryOK
  <2> HIDE DEF new
  <2>4. d.used + d.reserved <= Capacity
    BY <1>15, <1>16, <2>2 DEF Within
  <2>5. EntryOK(d, h)
    <3>1. d.entry[h] = new
      BY <2>2 DEF Sets
    <3>2. ~new.evictOnRelease /\ new.pins = 0 /\ new.weight <= MaxEntryWeight
      BY <1>3, <1>5, <2>3 DEF EntryOK
    <3>3. ~Mapped(d, h)
      <4>1. new.key # None => new.key \in Keys
        BY <2>3 DEF Entries
      <4> QED BY <1>0, <1>2, <1>15, <2>2, <2>3, <3>1, <4>1 DEF Mapped, Unmaps
    <3> QED BY <2>3, <3>1, <3>2, <3>3 DEF EntryOK, Loading
  <2>6. d.reserved = g.reserved + MaxEntryWeight * One(new.phase = "running")
    <3>1. g.reserved \in Nat /\ One(new.phase = "running") = 0 /\ MaxEntryWeight * 0 = 0
      BY <1>0, <1>14, <2>3 DEF One, Caches
    <3> QED BY <2>2, <3>1
  <2> QED BY <1>18, <2>2, <2>3, <2>4, <2>5, <2>6
<1> QED BY <1>19, <1>20

\* #pumpLoads leaves no entry beside a free slot, if one place was free at most.
LEMMA PumpKeeps ==
  ASSUME NEW c, CacheOK(c),
         c.activeLoads < MaxConcurrentLoads =>
           Len(c.queue) <= 1 \/ c.activeLoads = MaxConcurrentLoads - 1,
         Len(c.queue) <= IF c.activeLoads < MaxConcurrentLoads
                         THEN MaxPendingLoads + 1 ELSE MaxPendingLoads
  PROVE  LET d == PumpLoads(c) IN CacheOK(d) /\ NoneIdle(d) /\ Mild(c, d)
<1>0. /\ c \in Caches /\ c.queue \in Seq(Calls) /\ c.activeLoads \in Nat
      /\ c.activeLoads <= MaxConcurrentLoads
      /\ MaxConcurrentLoads \in Nat \ {0} /\ MaxPendingLoads \in Nat \ {0}
  BY CacheOptions DEF CacheOK, Caches, Within
<1>1. CASE c.activeLoads < MaxConcurrentLoads /\ c.queue # <<>>
  <2> DEFINE d == PumpLoads(c)
  <2>1. /\ CacheOK(d) /\ Mild(c, d)
        /\ d.queue = Tail(c.queue) /\ d.activeLoads = c.activeLoads + 1
    BY <1>1, StartKeeps DEF PumpLoads
  <2> HIDE DEF d
  <2>2. Len(c.queue) \in Nat /\ Len(Tail(c.queue)) = Len(c.queue) - 1
    BY <1>0, <1>1
  <2>3. Tail(c.queue) # <<>> => Len(c.queue) > 1
    BY <1>0, <1>1, <2>2
  <2>4. NoneIdle(d)
    BY <1>0, <1>1, <2>1, <2>2, <2>3 DEF NoneIdle
  <2> QED BY <2>1, <2>4 DEF d
<1>2. CASE ~(c.activeLoads < MaxConcurrentLoads /\ c.queue # <<>>)
  <2>1. PumpLoads(c) = c
    BY <1>2 DEF PumpLoads
  <2>2. c.queue = <<>> => Len(c.queue) = 0
    OBVIOUS
  <2> QED BY <1>0, <1>2, <2>1, <2>2 DEF NoneIdle, Mild
<1> QED BY <1>1, <1>2

\* A step of one entry keeps the whole cache if it keeps the limits and the queue.
LEMMA EntryStep ==
  ASSUME NEW c, CacheOK(c), NEW d, NEW e \in Calls, NEW new, Sets(c, d, e, new),
         \A k \in Keys: d.map[k] = c.map[k] \/ {c.map[k], d.map[k]} \subseteq {e, None},
         \A k \in Keys: d.map[k] = e => new.key = k,
         EntryOK(d, e),
         d.activeLoads = c.activeLoads + One(new.slot) - One(c.entry[e].slot),
         d.reserved = c.reserved + MaxEntryWeight * One(new.phase = "running")
                                 - MaxEntryWeight * One(c.entry[e].phase = "running"),
         d.used = c.used + Weighs(new) - Weighs(c.entry[e]),
         Within(d),
         \/ Lists(d.queue, Waiting(d))
         \/ d.queue = c.queue /\ (new.phase = "queued" <=> c.entry[e].phase = "queued")
  PROVE  CacheOK(d)
<1>1. d \in Caches /\ EntriesOK(d) /\ Counted(d)
  BY StepKeeps
<1>2. QueueOK(d)
  <2>1. CASE Lists(d.queue, Waiting(d))
    BY <2>1, QueueLists
  <2>2. CASE d.queue = c.queue /\ (new.phase = "queued" <=> c.entry[e].phase = "queued")
    <3>1. \A x \in Calls: d.entry[x].phase = "queued" <=> c.entry[x].phase = "queued"
      BY <2>2 DEF Sets
    <3> QED BY <2>2, <3>1 DEF CacheOK, QueueOK
  <2> QED BY <2>1, <2>2
<1> QED BY <1>1, <1>2 DEF CacheOK

-----------------------------------------------------------------------------
(* The callers keep their entries.                                             *)

\* What the callers of the entry z rely on is still there in d.
Follows(c, d, z) ==
  /\ d.entry[z].phase = "none" <=> c.entry[z].phase = "none"
  /\ d.entry[z].key = c.entry[z].key
  /\ c.entry[z].phase = "ready" => d.entry[z].phase = "ready"

SameCounts(c, d, z) ==
  d.entry[z].key # None =>
    /\ Loading(d, z) => Loading(c, z) /\ d.entry[z].waiters = c.entry[z].waiters
    /\ d.entry[z].phase = "ready" =>
         \/ c.entry[z].phase = "ready" /\ d.entry[z].pins = c.entry[z].pins
         \/ Loading(c, z) /\ d.entry[z].pins = c.entry[z].waiters

\* Callers that did not move still find what they rely on.
LEMMA CallersKept ==
  ASSUME NEW c, NEW d, NEW cl, CallersOK(c, cl),
         \A z \in Calls: Follows(c, d, z) /\ SameCounts(c, d, z)
  PROVE  CallersOK(d, cl)
<1>1. cl \in [Calls -> CallStates]
  BY DEF CallersOK
<1>2. ASSUME NEW x \in Calls PROVE CallerOK(d, cl, x)
  <2>1. CallerOK(c, cl, x) /\ cl[x].entry \in Calls \cup {None} /\ None \notin Calls
    BY <1>1, CacheOptions DEF CallersOK, CallStates
  <2> QED BY <2>1 DEF CallerOK, Follows
<1>3. ASSUME NEW e \in Calls PROVE HeldOK(d, cl, e)
  BY DEF CallersOK, HeldOK, Follows, SameCounts
<1> QED BY <1>1, <1>2, <1>3 DEF CallersOK

\* Neither eviction nor the start of a load takes anything from a caller.
LEMMA MildIsFollowed ==
  ASSUME NEW c, NEW d, NEW cl, CallersOK(c, cl), Mild(c, d)
  PROVE  CallersOK(d, cl)
<1>1. \A z \in Calls: Follows(c, d, z) /\ SameCounts(c, d, z)
  BY DEF Mild, Follows, SameCounts, Loading
<1> QED BY <1>1, CallersKept

\* One caller x, of the entry e, changes its state.
Holds(a, e) == a.entry = e /\ a.state \in {"waiting", "leased"}

CallerMoves(c, d, cl, x, e, new) ==
  /\ cl[x].entry \in {e, None} /\ new \in CallStates /\ new.entry \in {e, None}
  /\ \A z \in Calls: z # e => Follows(c, d, z) /\ SameCounts(c, d, z)
  /\ Follows(c, d, e) \/ (x = e /\ c.entry[e].phase = "none")
  /\ CallerOK(d, [cl EXCEPT ![x] = new], x)
  /\ d.entry[e].key # None =>
       LET n == Cardinality(Holders(cl, e)) + One(Holds(new, e)) - One(Holds(cl[x], e)) IN
       /\ Loading(d, e) => d.entry[e].waiters = n
       /\ d.entry[e].phase = "ready" => d.entry[e].pins = n

\* One caller moves, and the entry it moves to or from counts it.
LEMMA OneCaller ==
  ASSUME NEW c, NEW d, NEW cl, CallersOK(c, cl), NEW x \in Calls, NEW e \in Calls, NEW new,
         CallerMoves(c, d, cl, x, e, new)
  PROVE  CallersOK(d, [cl EXCEPT ![x] = new])
<1> DEFINE dl == [cl EXCEPT ![x] = new]
<1>0. None \notin Calls /\ cl \in [Calls -> CallStates]
  BY CacheOptions DEF CallersOK
<1>1. dl \in [Calls -> CallStates] /\ dl[x] = new /\ \A y \in Calls: y # x => dl[y] = cl[y]
  BY <1>0 DEF CallerMoves
<1> HIDE DEF dl
<1>2. ASSUME NEW y \in Calls, y # x PROVE CallerOK(d, dl, y)
  <2>1. CallerOK(c, cl, y) /\ dl[y] = cl[y] /\ cl[y].entry \in Calls \cup {None}
    BY <1>0, <1>1, <1>2 DEF CallersOK, CallStates
  <2>2. cl[y].entry # None => Follows(c, d, cl[y].entry)
    <3>1. CASE Follows(c, d, e)
      BY <2>1, <3>1 DEF CallerMoves
    <3>2. CASE x = e /\ c.entry[e].phase = "none"
      BY <1>2, <2>1, <3>2 DEF CallerMoves, CallerOK
    <3> QED BY <3>1, <3>2 DEF CallerMoves
  <2>3. cl[y].state = "idle" => d.entry[y].phase = "none"
    BY <1>2, <2>1 DEF CallerMoves, CallerOK, Follows
  <2> QED BY <1>0, <2>1, <2>2, <2>3 DEF CallerOK, Follows
<1>3. CallerOK(d, dl, x)
  BY DEF dl, CallerMoves
<1>4. ASSUME NEW z \in Calls, z # e PROVE HeldOK(d, dl, z)
  <2>1. Holders(dl, z) = Holders(cl, z)
    <3>1. \A y \in Calls: y \in Holders(dl, z) <=> y \in Holders(cl, z)
      BY <1>0, <1>1, <1>4 DEF Holders, CallerMoves
    <3> QED BY <3>1 DEF Holders
  <2> QED BY <1>4, <2>1 DEF CallerMoves, CallersOK, HeldOK, Follows, SameCounts
<1>5. HeldOK(d, dl, e)
  <2> DEFINE S == Holders(cl, e)
             T == Holders(dl, e)
  <2>1. SameBut(S, T, x)
    BY <1>1 DEF Holders, SameBut
  <2>2. IsFiniteSet(S)
    BY DEF CallersOK, HeldOK
  <2>3. (x \in T <=> Holds(new, e)) /\ (x \in S <=> Holds(cl[x], e))
    BY <1>1 DEF Holders, Holds
  <2> HIDE DEF S, T
  <2>4. /\ IsFiniteSet(T) /\ Cardinality(S) \in Nat /\ Cardinality(T) \in Nat
        /\ Cardinality(T) = Cardinality(S) + (IF x \in T THEN 1 ELSE 0) - (IF x \in S THEN 1 ELSE 0)
    BY <2>1, <2>2, CountOne
  <2>5. Cardinality(T) = Cardinality(S) + One(Holds(new, e)) - One(Holds(cl[x], e))
    BY <2>3, <2>4 DEF One
  <2> QED BY <2>4, <2>5 DEF CallerMoves, HeldOK, S, T
<1> QED BY <1>1, <1>2, <1>3, <1>4, <1>5 DEF CallersOK, dl

\* A caller that holds an entry is counted.
LEMMA HolderCounts ==
  ASSUME NEW c, NEW cl, CallersOK(c, cl), NEW x \in Calls, NEW e \in Calls, Holds(cl[x], e)
  PROVE  Cardinality(Holders(cl, e)) \in Nat /\ Cardinality(Holders(cl, e)) > 0
<1>1. IsFiniteSet(Holders(cl, e)) /\ x \in Holders(cl, e)
  BY DEF CallersOK, HeldOK, Holders, Holds
<1>2. Cardinality(Holders(cl, e)) \in Nat /\ Cardinality(Holders(cl, e)) # 0
  BY <1>1, FS_CardinalityType, FS_EmptySet
<1> QED BY <1>2

-----------------------------------------------------------------------------
(* What the operations do to the cache.                                        *)

\* The reservation of a load that runs is part of reserved.
LEMMA RunningIsReserved ==
  ASSUME NEW c, CacheOK(c), NEW e \in Calls, c.entry[e].phase = "running"
  PROVE  c.entry[e].reservation = MaxEntryWeight /\ MaxEntryWeight <= c.reserved
<1> DEFINE n == Cardinality(Running(c))
<1>1. e \in Running(c) /\ IsFiniteSet(Running(c)) /\ c.reserved = MaxEntryWeight * n
  BY DEF Running, CacheOK, Counted
<1>2. n \in Nat /\ n # 0
  BY <1>1, FS_CardinalityType, FS_EmptySet
<1> HIDE DEF n
<1>3. MaxEntryWeight \in Nat
  BY CacheOptions
<1>4. MaxEntryWeight * n = MaxEntryWeight * (n - 1) + MaxEntryWeight * 1 - MaxEntryWeight * 0
  BY <1>2, <1>3, Distribute
<1>5. MaxEntryWeight * (n - 1) \in Nat
  BY <1>2, <1>3
<1>6. c.entry[e].reservation = MaxEntryWeight
  BY DEF CacheOK, EntriesOK, EntryOK
<1> QED BY <1>1, <1>3, <1>4, <1>5, <1>6

\* Nothing but the entry e differs, and the callers find what they rely on.
LEMMA RunningFails ==
  ASSUME NEW c, CacheOK(c), NoneIdle(c), NEW e \in Calls, c.entry[e].phase = "running"
  PROVE  LET d == Fail(c, e) IN
         /\ CacheOK(d) /\ NoneIdle(d)
         /\ \A z \in Calls: Follows(c, d, z) /\ SameCounts(c, d, z)
<1> DEFINE d == Fail(c, e)
           new == [c.entry[e] EXCEPT !.reservation = 0, !.phase = "failed"]
<1>0. MaxEntryWeight \in Nat /\ None \notin Keys /\ None \notin Calls
  BY CacheOptions
<1>1. /\ c \in Caches /\ c.entry[e] \in Entries /\ EntryOK(c, e) /\ Within(c)
      /\ c.activeLoads \in Nat /\ c.used \in Nat /\ c.reserved \in Nat
  BY DEF CacheOK, EntriesOK, Caches
<1>2. c.entry[e].reservation = MaxEntryWeight /\ MaxEntryWeight <= c.reserved
  BY RunningIsReserved
<1>3. /\ Sets(c, d, e, new) /\ Unmaps(c, d, e)
      /\ d.queue = c.queue /\ d.activeLoads = c.activeLoads
      /\ d.used = c.used /\ d.reserved = c.reserved - MaxEntryWeight
  BY <1>1, <1>2, FailIs
<1>4. /\ new \in Entries /\ new.phase = "failed" /\ new.reservation = 0
      /\ new.key = c.entry[e].key /\ new.slot = c.entry[e].slot /\ new.retained = c.entry[e].retained
      /\ new.pins = c.entry[e].pins /\ new.weight = c.entry[e].weight
      /\ new.evictOnRelease = c.entry[e].evictOnRelease
  BY <1>1 DEF Entries
<1> HIDE DEF d, new
<1>5. d.entry[e] = new /\ \A z \in Calls: z # e => d.entry[z] = c.entry[z]
  BY <1>3 DEF Sets
<1>6. /\ \A k \in Keys: d.map[k] = c.map[k] \/ {c.map[k], d.map[k]} \subseteq {e, None}
      /\ \A k \in Keys: d.map[k] # e
  BY <1>3, UnmapsAll
<1>7. EntryOK(d, e)
  <2>1. ~Mapped(d, e)
    BY <1>1, <1>4, <1>5, <1>6 DEF Mapped, Entries
  <2> QED BY <1>1, <1>4, <1>5, <2>1 DEF EntryOK, Loading
<1>8. d.reserved = c.reserved + MaxEntryWeight * One(new.phase = "running")
                              - MaxEntryWeight * One(c.entry[e].phase = "running")
  <2>1. One(new.phase = "running") = 0 /\ One(c.entry[e].phase = "running") = 1
    BY <1>4 DEF One
  <2>2. MaxEntryWeight * 0 = 0 /\ MaxEntryWeight * 1 = MaxEntryWeight
    BY <1>0
  <2> QED BY <1>0, <1>1, <1>3, <2>1, <2>2
<1>9. /\ d.activeLoads = c.activeLoads + One(new.slot) - One(c.entry[e].slot)
      /\ d.used = c.used + Weighs(new) - Weighs(c.entry[e])
  <2>1. One(new.slot) = One(c.entry[e].slot) /\ Weighs(new) = Weighs(c.entry[e])
    BY <1>4 DEF Weighs
  <2>2. One(c.entry[e].slot) \in Nat /\ Weighs(c.entry[e]) \in Nat
    BY <1>1 DEF One, Weighs, Entries
  <2> QED BY <1>1, <1>3, <2>1, <2>2
<1>10. Within(d)
  BY <1>0, <1>1, <1>3, CacheOptions DEF Within
<1>11. CacheOK(d)
  BY <1>3, <1>4, <1>6, <1>7, <1>8, <1>9, <1>10, EntryStep
<1>12. \A z \in Calls: Follows(c, d, z) /\ SameCounts(c, d, z)
  BY <1>4, <1>5 DEF Follows, SameCounts, Loading
<1> QED BY <1>3, <1>11, <1>12 DEF NoneIdle, d

\* #releaseReadyPin of a dataset that is pinned.
LEMMA UnpinKeeps ==
  ASSUME NEW c, CacheOK(c), NoneIdle(c), NEW e \in Calls,
         c.entry[e].phase = "ready", c.entry[e].pins > 0
  PROVE  LET d == Unpin(c, e) IN
         /\ CacheOK(d) /\ NoneIdle(d)
         /\ \A z \in Calls: Follows(c, d, z)
         /\ \A z \in Calls: z # e => d.entry[z] = c.entry[z]
         /\ d.entry[e].pins = c.entry[e].pins - 1
<1> DEFINE d == Unpin(c, e)
           kept == [c.entry[e] EXCEPT !.pins = c.entry[e].pins - 1]
           b == [c EXCEPT !.entry[e].pins = @ - 1]
<1>0. None \notin Keys /\ None \notin Calls /\ MaxEntryWeight \in Nat
  BY CacheOptions
<1>1. /\ c \in Caches /\ c.entry[e] \in Entries /\ EntryOK(c, e) /\ Within(c) /\ Counted(c)
      /\ c.activeLoads \in Nat /\ c.used \in Nat /\ c.reserved \in Nat
  BY DEF CacheOK, EntriesOK, Caches
<1>2. /\ c.entry[e].pins \in Nat /\ c.entry[e].pins # 0 /\ c.entry[e].pins - 1 \in Nat
      /\ c.entry[e].retained
  BY <1>1 DEF Entries, EntryOK
<1>3. /\ kept \in Entries /\ kept.phase = "ready" /\ kept.pins = c.entry[e].pins - 1 /\ kept.retained
      /\ kept.key = c.entry[e].key /\ kept.slot = c.entry[e].slot
      /\ kept.weight = c.entry[e].weight /\ kept.reservation = c.entry[e].reservation
      /\ kept.evictOnRelease = c.entry[e].evictOnRelease /\ kept.waiters = c.entry[e].waiters
  BY <1>1, <1>2 DEF Entries
<1>4. b = [c EXCEPT !.entry = [c.entry EXCEPT ![e] = kept]]
  BY <1>1 DEF Caches, Entries
<1> HIDE DEF kept, b
<1>5. /\ Sets(c, b, e, kept) /\ b.map = c.map /\ b.queue = c.queue
      /\ b.activeLoads = c.activeLoads /\ b.used = c.used /\ b.reserved = c.reserved
  <2> DEFINE entry == [c.entry EXCEPT ![e] = kept]
  <2>1. /\ entry \in [Calls -> Entries] /\ entry[e] = kept
        /\ \A z \in Calls: z # e => entry[z] = c.entry[z]
    BY <1>1, <1>3 DEF Caches
  <2>2. b = [c EXCEPT !.entry = entry]
    BY <1>4
  <2> HIDE DEF entry
  <2> QED BY <1>1, <2>1, <2>2 DEF Sets, Caches
<1>6. d = IF b.entry[e].pins = 0 /\ b.entry[e].evictOnRelease /\ b.entry[e].retained
          THEN Drop(b, {e}) ELSE b
  BY <1>2 DEF Unpin, b
<1> HIDE DEF d
<1> SUFFICES /\ CacheOK(d) /\ NoneIdle(d)
             /\ \A z \in Calls: Follows(c, d, z)
             /\ \A z \in Calls: z # e => d.entry[z] = c.entry[z]
             /\ d.entry[e].pins = c.entry[e].pins - 1
  BY DEF d
<1>7. b \in Caches /\ b.entry[e] = kept
  BY <1>5 DEF Sets
\* The common end of both outcomes.
<1>8. ASSUME NEW new \in Entries, Sets(c, d, e, new), d.map = c.map, d.queue = c.queue,
             d.activeLoads = c.activeLoads, d.reserved = c.reserved,
             d.used = c.used + Weighs(new) - Weighs(c.entry[e]), d.used <= c.used,
             new.phase = "ready", new.pins = c.entry[e].pins - 1,
             new.key = c.entry[e].key, new.slot = c.entry[e].slot, EntryOK(d, e)
      PROVE  /\ CacheOK(d) /\ NoneIdle(d)
             /\ \A z \in Calls: Follows(c, d, z)
             /\ \A z \in Calls: z # e => d.entry[z] = c.entry[z]
             /\ d.entry[e].pins = c.entry[e].pins - 1
  <2>1. \A k \in Keys: d.map[k] = e => new.key = k
    BY <1>0, <1>8 DEF CacheOK, EntriesOK
  <2>2. d.reserved = c.reserved + MaxEntryWeight * One(new.phase = "running")
                                - MaxEntryWeight * One(c.entry[e].phase = "running")
    <3>1. One(new.phase = "running") = 0 /\ One(c.entry[e].phase = "running") = 0
      BY <1>8 DEF One
    <3>2. MaxEntryWeight * 0 = 0
      BY <1>0
    <3> QED BY <1>1, <1>8, <3>1, <3>2
  <2>3. d.activeLoads = c.activeLoads + One(new.slot) - One(c.entry[e].slot)
    BY <1>1, <1>8 DEF One
  <2>4. Within(d)
    <3>1. d.used \in Nat /\ Capacity \in Nat
      BY <1>8, CacheOptions DEF Sets, Caches
    <3> QED BY <1>1, <1>8, <3>1 DEF Within
  <2>5. CacheOK(d)
    BY <1>8, <2>1, <2>2, <2>3, <2>4, EntryStep
  <2>6. d.entry[e] = new /\ \A z \in Calls: z # e => d.entry[z] = c.entry[z]
    BY <1>8 DEF Sets
  <2>7. \A z \in Calls: Follows(c, d, z)
    BY <1>8, <2>6 DEF Follows
  <2> QED BY <1>8, <2>5, <2>6, <2>7 DEF NoneIdle
<1>9. CASE kept.pins = 0 /\ kept.evictOnRelease
  <2> DEFINE new == [kept EXCEPT !.retained = FALSE]
  <2>1. d = Drop(b, {e})
    BY <1>3, <1>6, <1>7, <1>9
  <2>2. new \in Entries /\ new.phase = "ready" /\ ~new.retained /\ new.pins = kept.pins
        /\ new.key = kept.key /\ new.slot = kept.slot /\ new.weight = kept.weight
        /\ new.reservation = kept.reservation /\ new.evictOnRelease = kept.evictOnRelease
    BY <1>3 DEF Entries
  <2>3. Bytes(b.entry, {e}) = Bytes(c.entry, {e})
    BY <1>3, <1>7, BytesOfSame
  <2>4. /\ IsFiniteSet(Bytes(c.entry, {e}))
        /\ Cardinality(Bytes(c.entry, {e})) = c.entry[e].weight /\ c.entry[e].weight \in Nat
    BY <1>1, BytesOfOne DEF Caches, Entries, EntryOK
  <2>5. c.entry[e].weight <= c.used
    <3>1. {e} \in SUBSET Retained(c)
      BY <1>2 DEF Retained
    <3> QED BY <1>1, <2>4, <3>1, BytesCounted
  <2>6. /\ d \in Caches
        /\ \A x \in Calls: d.entry[x] = IF x \in {e} THEN [b.entry[x] EXCEPT !.retained = FALSE]
                                        ELSE b.entry[x]
        /\ \A k \in Keys: d.map[k] = IF b.map[k] \in {e} THEN None ELSE b.map[k]
        /\ d.queue = b.queue /\ d.activeLoads = b.activeLoads /\ d.reserved = b.reserved
        /\ d.used = b.used - Cardinality(Bytes(b.entry, {e}))
    <3> DEFINE S == {e}
    <3>1. S \in SUBSET Calls /\ d = Drop(b, S)
      BY <2>1
    <3>2. IsFiniteSet(Bytes(b.entry, S)) /\ Cardinality(Bytes(b.entry, S)) <= b.used
      BY <1>5, <2>3, <2>4, <2>5
    <3> HIDE DEF S
    <3>3. /\ d \in Caches
          /\ \A x \in Calls: d.entry[x] = IF x \in S THEN [b.entry[x] EXCEPT !.retained = FALSE]
                                          ELSE b.entry[x]
          /\ \A k \in Keys: d.map[k] = IF b.map[k] \in S THEN None ELSE b.map[k]
          /\ d.queue = b.queue /\ d.activeLoads = b.activeLoads /\ d.reserved = b.reserved
          /\ d.used = b.used - Cardinality(Bytes(b.entry, S))
      BY <1>7, <3>1, <3>2, DropIs
    <3> QED BY <3>3 DEF S
  <2> HIDE DEF new
  <2>7. Sets(c, d, e, new)
    BY <1>5, <1>7, <2>6 DEF Sets, new
  <2>8. c.map \in [Keys -> Calls \cup {None}] /\ d.map \in [Keys -> Calls \cup {None}]
    BY <1>1, <2>6 DEF Caches
  <2>9. \A k \in Keys: c.map[k] # e
    <3>1. c.entry[e].key # None => ~Mapped(c, e)
      BY <1>1, <1>2, <1>3, <1>9 DEF EntryOK, Loading
    <3> QED BY <1>0, <3>1 DEF Mapped, CacheOK, EntriesOK
  <2>10. d.map = c.map
    <3>1. \A k \in Keys: d.map[k] = c.map[k]
      BY <1>5, <2>6, <2>9
    <3> QED BY <2>8, <3>1
  <2>11. /\ d.used = c.used + Weighs(new) - Weighs(c.entry[e]) /\ d.used <= c.used
         /\ d.queue = c.queue /\ d.activeLoads = c.activeLoads /\ d.reserved = c.reserved
    BY <1>1, <1>2, <1>5, <2>2, <2>3, <2>4, <2>6 DEF Weighs
  <2>12. EntryOK(d, e)
    <3>1. d.entry[e] = new
      BY <2>7 DEF Sets
    <3>2. new.key # None => ~Mapped(d, e)
      BY <1>1, <1>3, <2>2, <2>9, <2>10, <3>1 DEF Mapped, Entries
    <3> QED BY <1>1, <1>3, <1>9, <2>2, <3>1, <3>2 DEF EntryOK, Loading
  <2> QED BY <1>3, <1>8, <2>2, <2>7, <2>10, <2>11, <2>12
<1>10. CASE ~(kept.pins = 0 /\ kept.evictOnRelease)
  <2>1. d = b
    BY <1>3, <1>6, <1>7, <1>10
  <2>2. EntryOK(b, e)
    <3>1. Mapped(b, e) <=> Mapped(c, e)
      BY <1>3, <1>5, <1>7 DEF Mapped
    <3>2. kept.pins \in Nat
      BY <1>2, <1>3
    <3> QED BY <1>1, <1>2, <1>3, <1>7, <1>10, <3>1, <3>2 DEF EntryOK, Loading
  <2>3. c.used = c.used + Weighs(kept) - Weighs(c.entry[e])
    <3>1. c.entry[e].weight \in Nat
      BY <1>1 DEF Entries
    <3> QED BY <1>1, <1>2, <1>3, <3>1 DEF Weighs
  <2> QED BY <1>1, <1>3, <1>5, <1>8, <2>1, <2>2, <2>3
<1> QED BY <1>9, <1>10

\* The end of the interest in a load: what is unmapped and, if it has not
\* started, leaves the queue.
LEMMA AbortKeeps ==
  ASSUME NEW c, CacheOK(c), NoneIdle(c), NEW e \in Calls, Loading(c, e),
         NEW b, NEW n \in Nat, Sets(c, b, e, [c.entry[e] EXCEPT !.waiters = n]), Unmaps(c, b, e),
         b.queue = c.queue, b.activeLoads = c.activeLoads, b.used = c.used, b.reserved = c.reserved
  PROVE  LET d == AbortEntry(b, e) IN
         /\ CacheOK(d) /\ NoneIdle(d)
         /\ \A z \in Calls: z # e => d.entry[z] = c.entry[z]
         /\ d.entry[e].key = c.entry[e].key /\ d.entry[e].waiters = n
         /\ d.entry[e].phase = IF c.entry[e].phase = "queued" THEN "failed" ELSE "running"
<1> DEFINE old == c.entry[e]
           mid == [old EXCEPT !.waiters = n, !.aborted = TRUE]
           a == [b EXCEPT !.entry[e].aborted = TRUE]
           d == AbortEntry(b, e)
<1>0. None \notin Keys /\ None \notin Calls /\ MaxEntryWeight \in Nat
  BY CacheOptions
<1>1. /\ c \in Caches /\ old \in Entries /\ EntryOK(c, e) /\ Within(c) /\ QueueOK(c)
      /\ c.activeLoads \in Nat /\ c.used \in Nat /\ c.reserved \in Nat
      /\ old.phase \in {"queued", "running"}
  BY DEF CacheOK, EntriesOK, Caches, Loading
<1>2. b \in Caches /\ b.entry[e] = [old EXCEPT !.waiters = n]
      /\ \A z \in Calls: z # e => b.entry[z] = c.entry[z]
  BY DEF Sets
<1>3. /\ mid \in Entries /\ mid.phase = old.phase /\ mid.key = old.key /\ mid.slot = old.slot
      /\ mid.weight = old.weight /\ mid.pins = old.pins /\ mid.retained = old.retained
      /\ mid.reservation = old.reservation /\ mid.evictOnRelease = old.evictOnRelease
      /\ mid.waiters = n /\ mid.aborted
  BY <1>1 DEF Entries
<1>4. a = [b EXCEPT !.entry = [b.entry EXCEPT ![e] = mid]]
  BY <1>1, <1>2 DEF Caches, Entries
<1>5. d = IF old.phase = "queued" THEN Fail(RemoveQueued(a, e), e) ELSE a
  BY <1>1, <1>2 DEF AbortEntry, Entries
<1> HIDE DEF mid, a, d
<1> SUFFICES /\ CacheOK(d) /\ NoneIdle(d)
             /\ \A z \in Calls: z # e => d.entry[z] = c.entry[z]
             /\ d.entry[e].key = old.key /\ d.entry[e].waiters = n
             /\ d.entry[e].phase = IF old.phase = "queued" THEN "failed" ELSE "running"
  BY DEF d
<1>6. /\ a \in Caches /\ a.entry[e] = mid /\ \A z \in Calls: z # e => a.entry[z] = c.entry[z]
      /\ a.map = b.map /\ a.queue = c.queue /\ a.activeLoads = c.activeLoads
      /\ a.used = c.used /\ a.reserved = c.reserved
  <2> DEFINE entry == [b.entry EXCEPT ![e] = mid]
  <2>1. /\ entry \in [Calls -> Entries] /\ entry[e] = mid
        /\ \A z \in Calls: z # e => entry[z] = c.entry[z]
    BY <1>2, <1>3 DEF Caches
  <2>2. a = [b EXCEPT !.entry = entry]
    BY <1>4
  <2> HIDE DEF entry
  <2> QED BY <1>2, <2>1, <2>2 DEF Caches
<1>7. /\ \A k \in Keys: b.map[k] = c.map[k] \/ {c.map[k], b.map[k]} \subseteq {e, None}
      /\ \A k \in Keys: b.map[k] # e
  BY UnmapsAll
\* The common end of both outcomes.
<1>8. ASSUME NEW new \in Entries, Sets(c, d, e, new),
             \A k \in Keys: d.map[k] = c.map[k] \/ {c.map[k], d.map[k]} \subseteq {e, None},
             \A k \in Keys: d.map[k] # e,
             new.key = old.key, new.waiters = n, new.slot = old.slot, new.aborted,
             new.retained = old.retained, new.pins = old.pins, new.weight = old.weight,
             new.evictOnRelease = old.evictOnRelease,
             new.phase = IF old.phase = "queued" THEN "failed" ELSE "running",
             new.reservation = old.reservation,
             d.activeLoads = c.activeLoads, d.reserved = c.reserved, d.used = c.used,
             Lists(d.queue, Waiting(d)), Len(d.queue) <= Len(c.queue),
             d.queue # <<>> => c.queue # <<>>
      PROVE  /\ CacheOK(d) /\ NoneIdle(d)
             /\ \A z \in Calls: z # e => d.entry[z] = c.entry[z]
             /\ d.entry[e].key = old.key /\ d.entry[e].waiters = n
             /\ d.entry[e].phase = IF old.phase = "queued" THEN "failed" ELSE "running"
  <2>1. d.entry[e] = new /\ \A z \in Calls: z # e => d.entry[z] = c.entry[z]
    BY <1>8 DEF Sets
  <2>2. ~Mapped(d, e)
    BY <1>8, <2>1 DEF Mapped, Entries
  <2>3. EntryOK(d, e)
    BY <1>1, <1>8, <2>1, <2>2 DEF EntryOK, Loading
  <2>4. One(new.phase = "running") = One(old.phase = "running") /\ One(new.slot) = One(old.slot)
        /\ Weighs(new) = Weighs(old)
    BY <1>1, <1>8 DEF Weighs, One
  <2>5. One(old.slot) \in Nat /\ Weighs(old) \in Nat /\ MaxEntryWeight * One(old.phase = "running") \in Nat
    BY <1>0, <1>1 DEF One, Weighs, Entries
  <2>6. /\ d.activeLoads = c.activeLoads + One(new.slot) - One(c.entry[e].slot)
        /\ d.reserved = c.reserved + MaxEntryWeight * One(new.phase = "running")
                                   - MaxEntryWeight * One(c.entry[e].phase = "running")
        /\ d.used = c.used + Weighs(new) - Weighs(c.entry[e])
    BY <1>1, <1>8, <2>4, <2>5
  <2>7. Within(d)
    BY <1>1, <1>8 DEF Within
  <2>8. CacheOK(d)
    BY <1>8, <2>3, <2>6, <2>7, EntryStep
  <2>9. NoneIdle(d)
    <3>1. Len(c.queue) \in Nat /\ Len(d.queue) \in Nat /\ Len(c.queue) <= MaxPendingLoads
      BY <1>1, <1>8, CacheOptions DEF Sets, Caches, NoneIdle
    <3> QED BY <1>8, <3>1, CacheOptions DEF NoneIdle
  <2> QED BY <1>8, <2>1, <2>8, <2>9
<1>9. CASE old.phase = "running"
  <2>1. d = a
    BY <1>5, <1>9
  <2>2. Sets(c, d, e, mid)
    BY <1>6, <2>1 DEF Sets
  <2>3. Lists(d.queue, Waiting(d))
    <3>1. \A z \in Calls: d.entry[z].phase = c.entry[z].phase
      BY <1>3, <1>6, <2>1
    <3>2. Waiting(d) = Waiting(c)
      BY <3>1 DEF Waiting
    <3> QED BY <1>1, <1>6, <2>1, <3>2, QueueLists
  <2>4. Len(d.queue) <= Len(c.queue)
    <3>1. Len(c.queue) \in Nat
      BY <1>1 DEF Caches
    <3> QED BY <1>6, <2>1, <3>1
  <2> QED BY <1>3, <1>6, <1>7, <1>8, <1>9, <2>1, <2>2, <2>3, <2>4
<1>10. CASE old.phase = "queued"
  <2> DEFINE r == RemoveQueued(a, e)
             new == [mid EXCEPT !.reservation = 0, !.phase = "failed"]
  <2>1. \A z \in Calls: a.entry[z].phase = c.entry[z].phase
    BY <1>3, <1>6
  <2>2. QueueOK(a) /\ Waiting(a) = Waiting(c)
    BY <1>1, <1>6, <2>1 DEF QueueOK, Waiting
  <2>3. /\ Sets(a, r, e, mid) /\ r.map = a.map /\ r.activeLoads = a.activeLoads
        /\ r.used = a.used /\ r.reserved = a.reserved
        /\ Len(r.queue) = Len(a.queue) - 1 /\ Lists(r.queue, Waiting(a) \ {e})
    BY <1>3, <1>6, <1>10, <2>2, RemoveQueuedIs
  <2> HIDE DEF r
  <2>4. r \in Caches /\ r.entry[e] = mid /\ \A z \in Calls: z # e => r.entry[z] = c.entry[z]
    BY <1>6, <2>3 DEF Sets
  <2>5. old.reservation = 0 /\ mid.reservation = 0
    BY <1>1, <1>3, <1>10 DEF EntryOK
  <2>6. /\ Sets(r, d, e, new) /\ Unmaps(r, d, e)
        /\ d.queue = r.queue /\ d.activeLoads = r.activeLoads
        /\ d.used = r.used /\ d.reserved = r.reserved
    <3>1. r.entry[e].reservation <= r.reserved /\ r.reserved - r.entry[e].reservation = r.reserved
      BY <2>4, <2>5 DEF Caches
    <3>2. d = Fail(r, e)
      BY <1>5, <1>10 DEF r
    <3> QED BY <2>4, <3>1, <3>2, FailIs
  <2>7. /\ new \in Entries /\ new.phase = "failed" /\ new.key = old.key /\ new.slot = old.slot
        /\ new.weight = old.weight /\ new.pins = old.pins /\ new.retained = old.retained
        /\ new.reservation = old.reservation /\ new.evictOnRelease = old.evictOnRelease
        /\ new.waiters = n /\ new.aborted
    BY <1>3, <2>5 DEF Entries
  <2> HIDE DEF new
  <2>8. Sets(c, d, e, new)
    BY <2>4, <2>6 DEF Sets
  <2>9. \A k \in Keys: d.map[k] = b.map[k]
    BY <1>6, <1>7, <2>3, <2>6 DEF Unmaps
  <2>10. Lists(d.queue, Waiting(d))
    <3>1. d.entry[e] = new /\ \A z \in Calls: z # e => d.entry[z] = c.entry[z]
      BY <2>8 DEF Sets
    <3>2. Waiting(d) = Waiting(a) \ {e}
      BY <1>6, <2>7, <3>1 DEF Waiting
    <3> QED BY <2>3, <2>6, <3>2
  <2>11. Len(d.queue) <= Len(c.queue) /\ (d.queue # <<>> => c.queue # <<>>)
    <3>1. /\ c.queue \in Seq(Calls) /\ d.queue \in Seq(Calls)
          /\ Len(d.queue) = Len(c.queue) - 1
      BY <1>1, <1>6, <2>3, <2>4, <2>6 DEF Caches
    <3>2. Len(c.queue) \in Nat /\ Len(d.queue) \in Nat /\ (c.queue = <<>> => Len(c.queue) = 0)
      BY <3>1
    <3> QED BY <3>1, <3>2
  <2> QED BY <1>6, <1>7, <1>8, <1>10, <2>3, <2>6, <2>7, <2>8, <2>9, <2>10, <2>11
<1> QED BY <1>1, <1>9, <1>10

-----------------------------------------------------------------------------
(* The actions.                                                                *)

\* A caller that has not called is nobody's holder and has no entry.
LEMMA IdleCaller ==
  ASSUME IInv, NEW x \in Calls, call[x].state = "idle"
  PROVE  /\ call[x].entry = None /\ cache.entry[x].phase = "none" /\ cache.entry[x].key = None
         /\ Holders(call, x) = {} /\ Cardinality(Holders(call, x)) = 0
<1>1. call[x].entry = None /\ cache.entry[x].phase = "none"
  BY DEF IInv, CallersOK, CallerOK
<1>2. cache.entry[x].key = None
  BY <1>1 DEF IInv, CacheOK, EntriesOK, EntryOK
<1>3. Holders(call, x) = {}
  <2>1. ASSUME NEW y \in Calls, call[y].entry = x PROVE FALSE
    BY <1>1, <2>1, CacheOptions DEF IInv, CallersOK, CallerOK
  <2> QED BY <2>1 DEF Holders
<1> QED BY <1>1, <1>2, <1>3, FS_EmptySet

\* From c to b the map gains the entry x, for the key k, and the queue too.
Enqueues(c, b, k, x) ==
  /\ Sets(c, b, x, NewEntry(k))
  /\ \A j \in Keys: b.map[j] = IF j = k THEN x ELSE c.map[j]
  /\ b.queue = Append(c.queue, x)
  /\ b.activeLoads = c.activeLoads /\ b.used = c.used /\ b.reserved = c.reserved

\* A new entry at the end of the queue.
LEMMA NewEntryKeeps ==
  ASSUME NEW c, CacheOK(c), NEW x \in Calls, NEW k \in Keys \cup {None},
         k # None => c.map[k] = None, c.entry[x].phase = "none",
         NEW b, Enqueues(c, b, k, x)
  PROVE  CacheOK(b)
<1> DEFINE new == NewEntry(k)
<1>0. None \notin Keys /\ None \notin Calls /\ MaxEntryWeight \in Nat
  BY CacheOptions
<1>1. /\ c \in Caches /\ c.entry[x] \in Entries /\ EntryOK(c, x) /\ Within(c)
      /\ c.activeLoads \in Nat /\ c.used \in Nat /\ c.reserved \in Nat /\ c.queue \in Seq(Calls)
  BY DEF CacheOK, EntriesOK, Caches
<1>2. c.entry[x].key = None
  BY <1>1 DEF EntryOK
<1>3. /\ new.phase = "queued" /\ new.key = k /\ new.waiters = 1 /\ ~new.aborted /\ ~new.slot
      /\ new.reservation = 0 /\ new.weight = 0 /\ new.pins = 0 /\ ~new.evictOnRelease /\ ~new.retained
  BY DEF NewEntry, NoEntry
<1> HIDE DEF new
<1>4. /\ b \in Caches /\ b.entry[x] = new /\ \A z \in Calls: z # x => b.entry[z] = c.entry[z]
      /\ \A j \in Keys: b.map[j] = IF j = k THEN x ELSE c.map[j]
      /\ b.queue = Append(c.queue, x)
      /\ b.activeLoads = c.activeLoads /\ b.used = c.used /\ b.reserved = c.reserved
  BY DEF Enqueues, Sets, new
<1>5. EntryOK(b, x)
  <2>1. new.key # None => Mapped(b, x)
    BY <1>3, <1>4 DEF Mapped
  <2> QED BY <1>0, <1>3, <1>4, <2>1 DEF EntryOK, Loading
<1>6. \A j \in Keys: b.map[j] = x => new.key = j
  <2>1. \A j \in Keys: c.map[j] # x
    BY <1>0, <1>1, <1>2 DEF CacheOK, EntriesOK
  <2> QED BY <1>3, <1>4, <2>1
<1>7. /\ Sets(c, b, x, new) /\ Within(b) /\ Lists(b.queue, Waiting(b))
      /\ \A j \in Keys: b.map[j] = c.map[j] \/ {c.map[j], b.map[j]} \subseteq {x, None}
      /\ b.activeLoads = c.activeLoads + One(new.slot) - One(c.entry[x].slot)
      /\ b.reserved = c.reserved + MaxEntryWeight * One(new.phase = "running")
                                 - MaxEntryWeight * One(c.entry[x].phase = "running")
      /\ b.used = c.used + Weighs(new) - Weighs(c.entry[x])
  <2>1. One(new.phase = "running") = 0 /\ One(c.entry[x].phase = "running") = 0
        /\ One(new.slot) = 0 /\ One(c.entry[x].slot) = 0
        /\ Weighs(new) = 0 /\ Weighs(c.entry[x]) = 0 /\ MaxEntryWeight * 0 = 0
    BY <1>0, <1>1, <1>2, <1>3 DEF One, Weighs, EntryOK
  <2>2. /\ b.activeLoads = c.activeLoads + One(new.slot) - One(c.entry[x].slot)
        /\ b.reserved = c.reserved + MaxEntryWeight * One(new.phase = "running")
                                   - MaxEntryWeight * One(c.entry[x].phase = "running")
        /\ b.used = c.used + Weighs(new) - Weighs(c.entry[x])
    BY <1>1, <1>4, <2>1
  <2>3. Lists(b.queue, Waiting(b))
    <3>1. x \notin Waiting(c) /\ Lists(c.queue, Waiting(c))
      BY <1>1, <1>2, QueueLists DEF Waiting, CacheOK
    <3>2. Waiting(b) = Waiting(c) \cup {x}
      BY <1>3, <1>4 DEF Waiting
    <3> QED BY <1>1, <1>4, <3>1, <3>2, AppendLists
  <2>4. Within(b)
    BY <1>1, <1>4 DEF Within
  <2>5. \A j \in Keys: b.map[j] = c.map[j] \/ {c.map[j], b.map[j]} \subseteq {x, None}
    BY <1>0, <1>4
  <2>6. Sets(c, b, x, new)
    BY DEF Enqueues, new
  <2> QED BY <2>2, <2>3, <2>4, <2>5, <2>6
<1> QED BY <1>5, <1>6, <1>7, EntryStep

\* A call that finds room in the queue: a new entry, and #pumpLoads.
LEMMA EnqueueKeeps ==
  ASSUME IInv, NEW x \in Calls, NEW k \in Keys \cup {None}, k # None => cache.map[k] = None,
         call[x].state = "idle", ~Full(cache),
         NEW b, Enqueues(cache, b, k, x),
         cache' = PumpLoads(b), Waits(x, x)
  PROVE  IInv'
<1> DEFINE new == NewEntry(k)
           w == [state |-> "waiting", entry |-> x]
           cl == [call EXCEPT ![x] = w]
<1>0. None \notin Keys /\ None \notin Calls /\ MaxEntryWeight \in Nat
  BY CacheOptions
<1>1. /\ CacheOK(cache) /\ cache \in Caches /\ Within(cache)
      /\ cache.activeLoads \in Nat /\ cache.used \in Nat /\ cache.reserved \in Nat /\ cache.queue \in Seq(Calls)
      /\ NoneIdle(cache) /\ CallersOK(cache, call)
  BY DEF IInv, CacheOK, EntriesOK, Caches
<1>2. /\ call[x].entry = None /\ cache.entry[x].phase = "none" /\ cache.entry[x].key = None
      /\ Cardinality(Holders(call, x)) = 0
  BY IdleCaller
<1>3. /\ new.phase = "queued" /\ new.key = k /\ new.waiters = 1 /\ ~new.aborted /\ ~new.slot
      /\ new.reservation = 0 /\ new.weight = 0 /\ new.pins = 0 /\ ~new.evictOnRelease /\ ~new.retained
  BY DEF NewEntry, NoEntry
<1> HIDE DEF new
<1>4. /\ b \in Caches /\ b.entry[x] = new /\ \A z \in Calls: z # x => b.entry[z] = cache.entry[z]
      /\ b.queue = Append(cache.queue, x) /\ b.activeLoads = cache.activeLoads
  BY DEF Enqueues, Sets, new
<1>5. CacheOK(b)
  BY <1>1, <1>2, NewEntryKeeps
<1>6. CacheOK(cache') /\ NoneIdle(cache') /\ Mild(b, cache')
  <2>1. /\ Len(cache.queue) \in Nat /\ Len(b.queue) = Len(cache.queue) + 1
        /\ cache.queue # <<>> => cache.activeLoads = MaxConcurrentLoads
        /\ cache.queue = <<>> => Len(cache.queue) = 0
    BY <1>1, <1>4 DEF NoneIdle
  <2>2. cache.activeLoads < MaxConcurrentLoads \/ Len(cache.queue) < MaxPendingLoads
    BY <1>1, <2>1, CacheOptions DEF Full
  <2>3. /\ b.activeLoads < MaxConcurrentLoads => Len(b.queue) <= 1
        /\ Len(b.queue) <= IF b.activeLoads < MaxConcurrentLoads
                           THEN MaxPendingLoads + 1 ELSE MaxPendingLoads
    BY <1>1, <1>4, <2>1, <2>2, CacheOptions
  <2> QED BY <1>5, <2>3, PumpKeeps
<1>7. CallersOK(b, cl)
  <2>1. w \in CallStates /\ w.entry = x /\ w.state = "waiting"
    BY DEF CallStates
  <2> HIDE DEF w
  <2>2. cl[x] = w
    BY <1>1 DEF CallersOK
  <2>3. CallerOK(b, cl, x)
    BY <1>0, <1>3, <1>4, <2>1, <2>2 DEF CallerOK
  <2>4. \A z \in Calls: z # x => Follows(cache, b, z) /\ SameCounts(cache, b, z)
    BY <1>4 DEF Follows, SameCounts, Loading
  <2>5. One(Holds(w, x)) = 1 /\ One(Holds(call[x], x)) = 0
    BY <1>0, <1>2, <2>1 DEF Holds, One
  <2>6. LET n == Cardinality(Holders(call, x)) + One(Holds(w, x)) - One(Holds(call[x], x)) IN
        /\ Loading(b, x) => b.entry[x].waiters = n
        /\ b.entry[x].phase = "ready" => b.entry[x].pins = n
    BY <1>2, <1>3, <1>4, <2>5
  <2>7. CallerMoves(cache, b, call, x, x, w)
    BY <1>2, <2>1, <2>3, <2>4, <2>6 DEF CallerMoves
  <2> QED BY <1>1, <2>7, OneCaller
<1>8. CallersOK(cache', call')
  BY <1>6, <1>7, MildIsFollowed DEF Waits
<1> QED BY <1>6, <1>8 DEF IInv

\* #assertQueueCapacity rejects the call.
LEMMA FullKeeps ==
  ASSUME IInv, NEW x \in Calls, call[x].state = "idle", Goes(x, "rejected"), UNCHANGED cache
  PROVE  IInv'
<1> DEFINE w == [call[x] EXCEPT !.state = "rejected"]
<1>1. CallersOK(cache, call) /\ call \in [Calls -> CallStates]
  BY DEF IInv, CallersOK
<1>2. call[x].entry = None /\ cache.entry[x].phase = "none" /\ cache.entry[x].key = None
  BY IdleCaller
<1>3. call' = [call EXCEPT ![x] = w]
  BY <1>1 DEF Goes
<1>4. w \in CallStates /\ w.entry = None /\ w.state = "rejected"
  BY <1>1, <1>2 DEF CallStates
<1> HIDE DEF w
<1>5. CallerOK(cache, [call EXCEPT ![x] = w], x)
  BY <1>1, <1>4 DEF CallerOK
<1>6. \A z \in Calls: Follows(cache, cache, z) /\ SameCounts(cache, cache, z)
  BY DEF Follows, SameCounts
<1>7. CallerMoves(cache, cache, call, x, x, w)
  BY <1>2, <1>4, <1>5, <1>6 DEF CallerMoves
<1>8. CallersOK(cache, call')
  BY <1>1, <1>3, <1>7, OneCaller
<1> QED BY <1>8 DEF IInv

\* acquire() of a dataset that is not there.
LEMMA AcquireColdKeeps ==
  ASSUME IInv, NEW x \in Calls, NEW k \in Keys, AcquireCold(x, k)
  PROVE  IInv'
<1>1. CASE Full(cache)
  BY <1>1, FullKeeps DEF AcquireCold
<1>2. CASE ~Full(cache)
  <2> DEFINE new == NewEntry(k)
             entry == [cache.entry EXCEPT ![x] = new]
             map == [cache.map EXCEPT ![k] = x]
             queue == Append(cache.queue, x)
             b == [cache EXCEPT !.map[k] = x, !.entry[x] = NewEntry(k), !.queue = Append(@, x)]
  <2>1. /\ call[x].state = "idle" /\ cache.map[k] = None
        /\ cache' = PumpLoads(b) /\ Waits(x, x)
    BY <1>2 DEF AcquireCold
  <2>2. cache \in Caches /\ new \in Entries
    BY DEF IInv, CacheOK, NewEntry, NoEntry, Entries
  <2>3. b = [cache EXCEPT !.map = map, !.entry = entry, !.queue = queue]
    BY <2>2 DEF Caches
  <2> HIDE DEF new
  <2>4. /\ entry \in [Calls -> Entries] /\ entry[x] = new
        /\ \A z \in Calls: z # x => entry[z] = cache.entry[z]
    BY <2>2 DEF Caches
  <2>5. /\ map \in [Keys -> Calls \cup {None}]
        /\ \A j \in Keys: map[j] = IF j = k THEN x ELSE cache.map[j]
    BY <2>2 DEF Caches
  <2>6. queue \in Seq(Calls)
    BY <2>2 DEF Caches
  <2> HIDE DEF entry, map, queue, b
  <2>7. /\ b \in Caches /\ b.entry = entry /\ b.map = map /\ b.queue = queue
        /\ b.activeLoads = cache.activeLoads /\ b.used = cache.used /\ b.reserved = cache.reserved
    BY <2>2, <2>3, <2>4, <2>5, <2>6 DEF Caches
  <2>8. Enqueues(cache, b, k, x)
    BY <2>4, <2>5, <2>7 DEF Enqueues, Sets, new, queue
  <2> QED BY <1>2, <2>1, <2>8, EnqueueKeeps
<1> QED BY <1>1, <1>2

\* runUncached().
LEMMA RunUncachedKeeps ==
  ASSUME IInv, NEW x \in Calls, RunUncached(x)
  PROVE  IInv'
<1>1. CASE Full(cache)
  BY <1>1, FullKeeps DEF RunUncached
<1>2. CASE ~Full(cache)
  <2> DEFINE new == NewEntry(None)
             entry == [cache.entry EXCEPT ![x] = new]
             queue == Append(cache.queue, x)
             b == [cache EXCEPT !.entry[x] = NewEntry(None), !.queue = Append(@, x)]
  <2>1. call[x].state = "idle" /\ cache' = PumpLoads(b) /\ Waits(x, x)
    BY <1>2 DEF RunUncached
  <2>2. cache \in Caches /\ new \in Entries
    BY DEF IInv, CacheOK, NewEntry, NoEntry, Entries
  <2>3. b = [cache EXCEPT !.entry = entry, !.queue = queue]
    BY <2>2 DEF Caches
  <2> HIDE DEF new
  <2>4. /\ entry \in [Calls -> Entries] /\ entry[x] = new
        /\ \A z \in Calls: z # x => entry[z] = cache.entry[z]
    BY <2>2 DEF Caches
  <2>5. queue \in Seq(Calls)
    BY <2>2 DEF Caches
  <2> HIDE DEF entry, queue, b
  <2>6. /\ b \in Caches /\ b.entry = entry /\ b.map = cache.map /\ b.queue = queue
        /\ b.activeLoads = cache.activeLoads /\ b.used = cache.used /\ b.reserved = cache.reserved
    BY <2>2, <2>3, <2>4, <2>5 DEF Caches
  <2>7. Enqueues(cache, b, None, x)
    BY <2>4, <2>6, CacheOptions DEF Enqueues, Sets, new, queue
  <2> QED BY <1>2, <2>1, <2>7, EnqueueKeeps
<1> QED BY <1>1, <1>2

\* What the map offers.
LEMMA Offered ==
  ASSUME NEW c, CacheOK(c), NEW k \in Keys, c.map[k] # None
  PROVE  LET e == c.map[k] IN
         /\ e \in Calls /\ c.entry[e] \in Entries /\ EntryOK(c, e)
         /\ c.entry[e].key = k /\ Mapped(c, e)
         /\ \/ Loading(c, e) /\ ~c.entry[e].aborted
            \/ c.entry[e].phase = "ready" /\ c.entry[e].retained /\ ~c.entry[e].evictOnRelease
<1>1. c.map[k] \in Calls /\ None \notin Keys
  BY CacheOptions DEF CacheOK, Caches
<1>2. /\ c.entry[c.map[k]] \in Entries /\ EntryOK(c, c.map[k]) /\ c.entry[c.map[k]].key = k
  BY <1>1 DEF CacheOK, Caches, EntriesOK
<1>3. Mapped(c, c.map[k])
  BY <1>1, <1>2 DEF Mapped
<1> QED BY <1>1, <1>2, <1>3 DEF EntryOK

\* A pin or a waiter is added to, or taken from, an entry that stays what it is.
Recounts(c, d, e, new) ==
  /\ Sets(c, d, e, new) /\ d.map = c.map /\ d.queue = c.queue
  /\ d.activeLoads = c.activeLoads /\ d.used = c.used /\ d.reserved = c.reserved
  /\ new.key = c.entry[e].key /\ new.phase = c.entry[e].phase /\ new.slot = c.entry[e].slot
  /\ new.retained = c.entry[e].retained /\ new.weight = c.entry[e].weight
  /\ new.reservation = c.entry[e].reservation /\ new.aborted = c.entry[e].aborted
  /\ new.evictOnRelease = c.entry[e].evictOnRelease
  /\ \/ new.pins = c.entry[e].pins /\ new.waiters > 0 /\ Loading(c, e)
     \/ new.waiters = c.entry[e].waiters /\ new.pins > 0 /\ c.entry[e].retained

\* One more waiter or one more pin on an entry that lives.
LEMMA CountStep ==
  ASSUME NEW c, CacheOK(c), NoneIdle(c), NEW d, NEW e \in Calls, NEW new, Recounts(c, d, e, new)
  PROVE  /\ CacheOK(d) /\ NoneIdle(d)
         /\ \A z \in Calls: Follows(c, d, z)
         /\ \A z \in Calls: z # e => d.entry[z] = c.entry[z]
         /\ d.entry[e] = new
<1> DEFINE old == c.entry[e]
<1>0. None \notin Keys /\ None \notin Calls /\ MaxEntryWeight \in Nat
  BY CacheOptions
<1>1. /\ c \in Caches /\ old \in Entries /\ EntryOK(c, e) /\ Within(c)
      /\ c.activeLoads \in Nat /\ c.used \in Nat /\ c.reserved \in Nat
  BY DEF CacheOK, EntriesOK, Caches
<1>2. d.entry[e] = new /\ \A z \in Calls: z # e => d.entry[z] = c.entry[z]
  BY DEF Recounts, Sets
<1>3. EntryOK(d, e)
  <2>1. Mapped(d, e) <=> Mapped(c, e)
    BY <1>2 DEF Recounts, Mapped
  <2>2. Loading(d, e) <=> Loading(c, e)
    BY <1>2 DEF Recounts, Loading
  <2>3. CASE new.pins = old.pins /\ new.waiters > 0 /\ Loading(c, e)
    BY <1>1, <1>2, <2>1, <2>2, <2>3 DEF Recounts, EntryOK
  <2>4. CASE new.waiters = old.waiters /\ new.pins > 0 /\ old.retained
    BY <1>1, <1>2, <2>1, <2>2, <2>4 DEF Recounts, EntryOK
  <2> QED BY <2>3, <2>4 DEF Recounts
<1>4. /\ d.activeLoads = c.activeLoads + One(new.slot) - One(old.slot)
      /\ d.reserved = c.reserved + MaxEntryWeight * One(new.phase = "running")
                                 - MaxEntryWeight * One(old.phase = "running")
      /\ d.used = c.used + Weighs(new) - Weighs(old)
  <2>1. One(new.slot) = One(old.slot) /\ Weighs(new) = Weighs(old)
        /\ One(new.phase = "running") = One(old.phase = "running")
    BY DEF Recounts, Weighs
  <2>2. One(old.slot) \in Nat /\ Weighs(old) \in Nat /\ MaxEntryWeight * One(old.phase = "running") \in Nat
    BY <1>0, <1>1 DEF One, Weighs, Entries
  <2> QED BY <1>1, <2>1, <2>2 DEF Recounts
<1>5. \A k \in Keys: d.map[k] = e => new.key = k
  BY <1>0 DEF Recounts, CacheOK, EntriesOK
<1>6. Within(d)
  BY <1>1 DEF Recounts, Within
<1>7. CacheOK(d)
  <2>1. /\ Sets(c, d, e, new)
        /\ \A k \in Keys: d.map[k] = c.map[k] \/ {c.map[k], d.map[k]} \subseteq {e, None}
        /\ d.queue = c.queue /\ (new.phase = "queued" <=> c.entry[e].phase = "queued")
    BY DEF Recounts
  <2> QED BY <1>3, <1>4, <1>5, <1>6, <2>1, EntryStep
<1>8. \A z \in Calls: Follows(c, d, z)
  BY <1>2 DEF Recounts, Follows
<1> QED BY <1>2, <1>7, <1>8 DEF Recounts, NoneIdle

\* A new holder of a shared entry.
Gains(c, d, e, state) ==
  /\ c.entry[e].key # None
  /\ \A z \in Calls: Follows(c, d, z)
  /\ \A z \in Calls: z # e => d.entry[z] = c.entry[z]
  /\ \/ /\ state = "leased" /\ c.entry[e].phase = "ready"
        /\ d.entry[e].pins = c.entry[e].pins + 1
     \/ /\ state = "waiting" /\ Loading(c, e) /\ d.entry[e].phase = c.entry[e].phase
        /\ d.entry[e].waiters = c.entry[e].waiters + 1

\* The caller that asks is the one that is counted.
LEMMA HolderJoins ==
  ASSUME IInv, NEW x \in Calls, NEW e \in Calls, NEW d, NEW w \in CallStates,
         call[x].state = "idle", w.entry = e, Gains(cache, d, e, w.state)
  PROVE  CallersOK(d, [call EXCEPT ![x] = w])
<1>1. CallersOK(cache, call) /\ call \in [Calls -> CallStates] /\ HeldOK(cache, call, e)
      /\ None \notin Calls
  BY CacheOptions DEF IInv, CallersOK
<1>2. call[x].entry = None
  BY IdleCaller
<1>3. w.state \in {"waiting", "leased"}
  BY DEF Gains
<1>4. CallerOK(d, [call EXCEPT ![x] = w], x)
  <2>1. [call EXCEPT ![x] = w][x] = w
    BY <1>1
  <2> QED BY <1>1, <1>3, <2>1 DEF Gains, CallerOK, Follows, Loading
<1>5. \A z \in Calls: z # e => Follows(cache, d, z) /\ SameCounts(cache, d, z)
  BY DEF Gains, SameCounts, Loading
<1>6. One(Holds(w, e)) = 1 /\ One(Holds(call[x], e)) = 0
  BY <1>1, <1>2, <1>3 DEF Holds, One
<1>7. Cardinality(Holders(call, e)) \in Nat
  BY <1>1, FS_CardinalityType DEF HeldOK
<1>8. LET n == Cardinality(Holders(call, e)) + One(Holds(w, e)) - One(Holds(call[x], e)) IN
      /\ Loading(d, e) => d.entry[e].waiters = n
      /\ d.entry[e].phase = "ready" => d.entry[e].pins = n
  BY <1>1, <1>6, <1>7 DEF Gains, HeldOK, Loading, Follows
<1>9. Follows(cache, d, e) /\ call[x].entry \in {e, None} /\ w.entry \in {e, None}
  BY <1>2, <1>3 DEF Gains
<1>10. CallerMoves(cache, d, call, x, e, w)
  BY <1>3, <1>4, <1>5, <1>8, <1>9 DEF CallerMoves
<1>11. CallersOK(d, [call EXCEPT ![x] = w])
  BY <1>1, <1>10, OneCaller
<1> QED BY <1>11

\* acquire() of a ready dataset.
LEMMA AcquireHitKeeps ==
  ASSUME IInv, NEW x \in Calls, NEW k \in Keys, AcquireHit(x, k)
  PROVE  IInv'
<1> DEFINE e == cache.map[k]
           old == cache.entry[e]
           new == [old EXCEPT !.pins = old.pins + 1]
           entry == [cache.entry EXCEPT ![e] = new]
           b == [cache EXCEPT !.entry[e].pins = @ + 1]
<1>1. /\ call[x].state = "idle" /\ e # None /\ old.phase = "ready"
      /\ cache' = Touch(b, e)
      /\ call' = [call EXCEPT ![x].state = "leased", ![x].entry = e]
  BY DEF AcquireHit
<1>2. CacheOK(cache) /\ NoneIdle(cache) /\ cache \in Caches
  BY DEF IInv, CacheOK
<1>3. e \in Calls /\ old \in Entries /\ old.key = k /\ old.retained /\ old.key # None
  BY <1>1, <1>2, Offered, CacheOptions DEF Loading
<1> HIDE DEF old
<1>4. /\ new \in Entries /\ new.pins = old.pins + 1 /\ old.pins \in Nat
      /\ new.key = old.key /\ new.phase = old.phase /\ new.slot = old.slot
      /\ new.retained = old.retained /\ new.weight = old.weight
      /\ new.reservation = old.reservation /\ new.aborted = old.aborted
      /\ new.evictOnRelease = old.evictOnRelease /\ new.waiters = old.waiters
  <2>1. old \in Entries /\ old.pins \in Nat /\ old.pins + 1 \in Nat
    BY <1>3 DEF Entries
  <2> HIDE DEF entry, b, e
  <2> QED BY <2>1 DEF Entries
<1>5. b = [cache EXCEPT !.entry = entry]
  BY <1>2, <1>3 DEF Caches, Entries, old
<1> HIDE DEF new, e, b
<1>6. /\ entry \in [Calls -> Entries] /\ entry[e] = new
      /\ \A z \in Calls: z # e => entry[z] = cache.entry[z]
  BY <1>2, <1>3, <1>4 DEF Caches
<1> HIDE DEF entry
<1>7. /\ b \in Caches /\ b.entry = entry /\ b.map = cache.map /\ b.queue = cache.queue
      /\ b.activeLoads = cache.activeLoads /\ b.used = cache.used /\ b.reserved = cache.reserved
  BY <1>2, <1>5, <1>6 DEF Caches
<1>8. /\ Sets(b, cache', e, b.entry[e]) /\ cache'.map = b.map
      /\ cache'.queue = b.queue /\ cache'.activeLoads = b.activeLoads
      /\ cache'.used = b.used /\ cache'.reserved = b.reserved
  BY <1>1, <1>3, <1>7, TouchIs
<1>9. Sets(cache, cache', e, new)
  BY <1>6, <1>7, <1>8 DEF Sets
<1>10. Recounts(cache, cache', e, new)
  BY <1>3, <1>4, <1>7, <1>8, <1>9 DEF Recounts, old
<1>11. /\ CacheOK(cache') /\ NoneIdle(cache')
       /\ \A z \in Calls: Follows(cache, cache', z)
       /\ \A z \in Calls: z # e => cache'.entry[z] = cache.entry[z]
       /\ cache'.entry[e] = new
  BY <1>2, <1>3, <1>10, CountStep
<1> DEFINE w == [call[x] EXCEPT !.state = "leased", !.entry = e]
<1>12. call' = [call EXCEPT ![x] = w] /\ w \in CallStates /\ w.state = "leased" /\ w.entry = e
  <2>1. call \in [Calls -> CallStates]
    BY DEF IInv, CallersOK
  <2>2. call' = [call EXCEPT ![x] = w]
    BY <1>1, <2>1 DEF CallStates
  <2>3. call[x] \in CallStates
    BY <2>1
  <2> QED BY <1>3, <2>2, <2>3 DEF CallStates
<1> HIDE DEF w, b, old
<1>13. CallersOK(cache', call')
  <2>1. Gains(cache, cache', e, w.state)
    BY <1>1, <1>3, <1>4, <1>11, <1>12 DEF Gains, old
  <2>2. call[x].state = "idle" /\ e \in Calls /\ w \in CallStates /\ w.entry = e
    BY <1>1, <1>3, <1>12
  <2>3. CallersOK(cache', [call EXCEPT ![x] = w])
    BY <2>1, <2>2, HolderJoins
  <2> QED BY <1>12, <2>3
<1> QED BY <1>11, <1>13 DEF IInv

\* acquire() of a dataset that is being loaded.
LEMMA AcquireJoinKeeps ==
  ASSUME IInv, NEW x \in Calls, NEW k \in Keys, AcquireJoin(x, k)
  PROVE  IInv'
<1> DEFINE e == cache.map[k]
           old == cache.entry[e]
           new == [old EXCEPT !.waiters = old.waiters + 1]
           entry == [cache.entry EXCEPT ![e] = new]
<1>1. /\ call[x].state = "idle" /\ e # None /\ Loading(cache, e)
      /\ cache' = [cache EXCEPT !.entry[e].waiters = @ + 1] /\ Waits(x, e)
  BY DEF AcquireJoin
<1>2. CacheOK(cache) /\ NoneIdle(cache) /\ cache \in Caches
  BY DEF IInv, CacheOK
<1>3. e \in Calls /\ old \in Entries /\ old.key = k /\ old.key # None
  BY <1>1, <1>2, Offered, CacheOptions
<1>4. /\ new \in Entries /\ new.waiters = old.waiters + 1 /\ old.waiters \in Nat
      /\ new.key = old.key /\ new.phase = old.phase /\ new.slot = old.slot
      /\ new.retained = old.retained /\ new.weight = old.weight
      /\ new.reservation = old.reservation /\ new.aborted = old.aborted
      /\ new.evictOnRelease = old.evictOnRelease /\ new.pins = old.pins
  BY <1>3 DEF Entries
<1>5. cache' = [cache EXCEPT !.entry = entry]
  BY <1>1, <1>2, <1>3 DEF Caches, Entries
<1> HIDE DEF new, e
<1>6. /\ entry \in [Calls -> Entries] /\ entry[e] = new
      /\ \A z \in Calls: z # e => entry[z] = cache.entry[z]
  BY <1>2, <1>3, <1>4 DEF Caches
<1> HIDE DEF entry
<1>7. /\ Sets(cache, cache', e, new) /\ cache'.map = cache.map /\ cache'.queue = cache.queue
      /\ cache'.activeLoads = cache.activeLoads
      /\ cache'.used = cache.used /\ cache'.reserved = cache.reserved
  BY <1>2, <1>5, <1>6 DEF Sets, Caches
<1>8. Recounts(cache, cache', e, new)
  BY <1>1, <1>4, <1>7 DEF Recounts
<1>9. /\ CacheOK(cache') /\ NoneIdle(cache')
      /\ \A z \in Calls: Follows(cache, cache', z)
      /\ \A z \in Calls: z # e => cache'.entry[z] = cache.entry[z]
      /\ cache'.entry[e] = new
  BY <1>2, <1>3, <1>8, CountStep
<1> DEFINE w == [state |-> "waiting", entry |-> e]
<1>10. w \in CallStates /\ w.state = "waiting" /\ w.entry = e /\ call' = [call EXCEPT ![x] = w]
  BY <1>1, <1>3 DEF CallStates, Waits
<1> HIDE DEF w
<1>11. CallersOK(cache', call')
  <2>1. Gains(cache, cache', e, w.state)
    BY <1>1, <1>3, <1>4, <1>9, <1>10 DEF Gains
  <2> QED BY <1>1, <1>3, <1>10, <2>1, HolderJoins
<1> QED BY <1>9, <1>11 DEF IInv

\* A load that is still wanted ends: the reservation becomes a dataset.
LEMMA LoadEnds ==
  ASSUME NEW c, CacheOK(c), NoneIdle(c), NEW e \in Calls, c.entry[e].phase = "running",
         NEW w \in Nat, w <= MaxEntryWeight, c.entry[e].key # None, ~c.entry[e].aborted,
         NEW d, Sets(c, d, e, [c.entry[e] EXCEPT !.reservation = 0, !.phase = "ready", !.weight = w,
                                                 !.pins = c.entry[e].waiters, !.retained = TRUE]),
         d.map = c.map, d.queue = c.queue, d.activeLoads = c.activeLoads,
         d.used = c.used + w, d.reserved = c.reserved - MaxEntryWeight
  PROVE  /\ CacheOK(d) /\ NoneIdle(d)
         /\ \A z \in Calls: Follows(c, d, z) /\ SameCounts(c, d, z)
<1> DEFINE old == c.entry[e]
           new == [old EXCEPT !.reservation = 0, !.phase = "ready", !.weight = w,
                              !.pins = old.waiters, !.retained = TRUE]
<1>0. None \notin Keys /\ None \notin Calls /\ MaxEntryWeight \in Nat /\ Capacity \in Nat
  BY CacheOptions
<1>1. /\ c \in Caches /\ old \in Entries /\ EntryOK(c, e) /\ Within(c)
      /\ c.activeLoads \in Nat /\ c.used \in Nat /\ c.reserved \in Nat
  BY DEF CacheOK, EntriesOK, Caches
<1>2. MaxEntryWeight <= c.reserved
  BY RunningIsReserved
<1>3. /\ new.phase = "ready" /\ new.reservation = 0 /\ new.weight = w /\ new.retained
      /\ new.pins = old.waiters /\ new.key = old.key /\ new.slot = old.slot
      /\ new.evictOnRelease = old.evictOnRelease /\ new.aborted = old.aborted
  BY <1>1 DEF Entries
<1>4. Sets(c, d, e, new)
  OBVIOUS
<1> HIDE DEF new
<1>5. d.entry[e] = new /\ \A z \in Calls: z # e => d.entry[z] = c.entry[z]
  BY <1>4 DEF Sets
<1>6. EntryOK(d, e)
  <2>1. Mapped(d, e) <=> Mapped(c, e)
    BY <1>3, <1>5 DEF Mapped
  <2>2. Mapped(c, e) /\ ~old.evictOnRelease
    BY <1>1 DEF EntryOK, Loading
  <2> QED BY <1>0, <1>1, <1>3, <1>5, <2>1, <2>2 DEF EntryOK, Loading
<1>7. /\ d.activeLoads = c.activeLoads + One(new.slot) - One(c.entry[e].slot)
      /\ d.used = c.used + Weighs(new) - Weighs(c.entry[e])
      /\ d.reserved = c.reserved + MaxEntryWeight * One(new.phase = "running")
                                 - MaxEntryWeight * One(c.entry[e].phase = "running")
  <2>1. One(new.slot) = One(old.slot) /\ One(old.slot) \in Nat /\ Weighs(new) = w /\ Weighs(old) = 0
        /\ One(new.phase = "running") = 0 /\ One(old.phase = "running") = 1
    BY <1>1, <1>3 DEF One, Weighs, EntryOK
  <2>2. MaxEntryWeight * 0 = 0 /\ MaxEntryWeight * 1 = MaxEntryWeight
    BY <1>0
  <2> QED BY <1>0, <1>1, <2>1, <2>2
<1>8. \A k \in Keys: d.map[k] = e => new.key = k
  BY <1>0, <1>3 DEF CacheOK, EntriesOK
<1>9. Within(d)
  BY <1>0, <1>1, <1>2 DEF Within
<1>10. CacheOK(d)
  <2>1. \A k \in Keys: d.map[k] = c.map[k] \/ {c.map[k], d.map[k]} \subseteq {e, None}
    OBVIOUS
  <2>2. d.queue = c.queue /\ (new.phase = "queued" <=> c.entry[e].phase = "queued")
    BY <1>3
  <2> QED BY <1>4, <1>6, <1>7, <1>8, <1>9, <2>1, <2>2, EntryStep
<1>11. \A z \in Calls: Follows(c, d, z) /\ SameCounts(c, d, z)
  BY <1>3, <1>5 DEF Follows, SameCounts, Loading
<1> QED BY <1>10, <1>11 DEF NoneIdle

\* An uncached operation ends: nothing is kept.
LEMMA OperationEnds ==
  ASSUME NEW c, CacheOK(c), NoneIdle(c), NEW e \in Calls, c.entry[e].phase = "running",
         c.entry[e].key = None,
         NEW d, Sets(c, d, e, [c.entry[e] EXCEPT !.reservation = 0, !.phase = "ready"]),
         d.map = c.map, d.queue = c.queue, d.activeLoads = c.activeLoads,
         d.used = c.used, d.reserved = c.reserved - MaxEntryWeight
  PROVE  /\ CacheOK(d) /\ NoneIdle(d)
         /\ \A z \in Calls: Follows(c, d, z) /\ SameCounts(c, d, z)
<1> DEFINE old == c.entry[e]
           new == [old EXCEPT !.reservation = 0, !.phase = "ready"]
<1>0. None \notin Keys /\ None \notin Calls /\ MaxEntryWeight \in Nat /\ Capacity \in Nat
  BY CacheOptions
<1>1. /\ c \in Caches /\ old \in Entries /\ EntryOK(c, e) /\ Within(c)
      /\ c.activeLoads \in Nat /\ c.used \in Nat /\ c.reserved \in Nat
  BY DEF CacheOK, EntriesOK, Caches
<1>2. MaxEntryWeight <= c.reserved
  BY RunningIsReserved
<1>3. /\ new.phase = "ready" /\ new.reservation = 0 /\ new.weight = old.weight
      /\ new.retained = old.retained
      /\ new.pins = old.pins /\ new.key = old.key /\ new.slot = old.slot
      /\ new.evictOnRelease = old.evictOnRelease /\ new.aborted = old.aborted
  BY <1>1 DEF Entries
<1>4. Sets(c, d, e, new)
  OBVIOUS
<1> HIDE DEF new
<1>5. d.entry[e] = new /\ \A z \in Calls: z # e => d.entry[z] = c.entry[z]
  BY <1>4 DEF Sets
<1>6. EntryOK(d, e)
  BY <1>0, <1>1, <1>3, <1>5 DEF EntryOK, Loading
<1>7. /\ d.activeLoads = c.activeLoads + One(new.slot) - One(c.entry[e].slot)
      /\ d.used = c.used + Weighs(new) - Weighs(c.entry[e])
      /\ d.reserved = c.reserved + MaxEntryWeight * One(new.phase = "running")
                                 - MaxEntryWeight * One(c.entry[e].phase = "running")
  <2>1. One(new.slot) = One(old.slot) /\ One(old.slot) \in Nat /\ Weighs(new) = 0 /\ Weighs(old) = 0
        /\ One(new.phase = "running") = 0 /\ One(old.phase = "running") = 1
    BY <1>1, <1>3 DEF One, Weighs, EntryOK
  <2>2. MaxEntryWeight * 0 = 0 /\ MaxEntryWeight * 1 = MaxEntryWeight
    BY <1>0
  <2> QED BY <1>0, <1>1, <2>1, <2>2
<1>8. \A k \in Keys: d.map[k] = e => new.key = k
  BY <1>0, <1>3 DEF CacheOK, EntriesOK
<1>9. Within(d)
  BY <1>0, <1>1, <1>2 DEF Within
<1>10. CacheOK(d)
  <2>1. \A k \in Keys: d.map[k] = c.map[k] \/ {c.map[k], d.map[k]} \subseteq {e, None}
    OBVIOUS
  <2>2. d.queue = c.queue /\ (new.phase = "queued" <=> c.entry[e].phase = "queued")
    BY <1>3
  <2> QED BY <1>4, <1>6, <1>7, <1>8, <1>9, <2>1, <2>2, EntryStep
<1>11. \A z \in Calls: Follows(c, d, z) /\ SameCounts(c, d, z)
  BY <1>3, <1>5 DEF Follows, SameCounts, Loading
<1> QED BY <1>10, <1>11 DEF NoneIdle

\* Steps that no caller notices.
LEMMA Unnoticed ==
  ASSUME IInv, UNCHANGED call, CacheOK(cache'), NoneIdle(cache'),
         \A z \in Calls: Follows(cache, cache', z) /\ SameCounts(cache, cache', z)
  PROVE  IInv'
<1>1. CallersOK(cache', call)
  BY CallersKept DEF IInv
<1> QED BY <1>1 DEF IInv

\* The loader fails.
LEMMA LoadFailsKeeps ==
  ASSUME IInv, NEW e \in Calls, LoadFails(e)
  PROVE  IInv'
<1>1. cache.entry[e].phase = "running" /\ cache' = Fail(cache, e) /\ UNCHANGED call
  BY DEF LoadFails
<1>2. CacheOK(cache) /\ NoneIdle(cache)
  BY DEF IInv
<1>3. /\ CacheOK(cache') /\ NoneIdle(cache')
      /\ \A z \in Calls: Follows(cache, cache', z) /\ SameCounts(cache, cache', z)
  BY <1>1, <1>2, RunningFails
<1> QED BY <1>1, <1>3, Unnoticed

\* The loader returns a dataset: it is kept, or forgotten.
LEMMA LoadedKeeps ==
  ASSUME IInv, NEW e \in Calls, NEW w \in Weights, Loaded(e, w)
  PROVE  IInv'
<1> DEFINE c == cache
           old == c.entry[e]
           d == Unreserve(c, e)
<1>0. w \in Nat /\ MaxEntryWeight \in Nat
  BY CacheOptions
<1>1. CacheOK(c) /\ NoneIdle(c) /\ c \in Caches /\ old \in Entries /\ EntryOK(c, e)
  BY DEF IInv, CacheOK, Caches, EntriesOK
<1>2. old.phase = "running" /\ UNCHANGED call
  BY DEF Loaded
<1>3. old.reservation = MaxEntryWeight /\ MaxEntryWeight <= c.reserved
  BY <1>1, <1>2, RunningIsReserved
<1>4. c.reserved - MaxEntryWeight \in Nat
  BY <1>0, <1>1, <1>3 DEF Caches
<1>5. CASE cache' = Fail(c, e)
  <2>1. /\ CacheOK(cache') /\ NoneIdle(cache')
        /\ \A z \in Calls: Follows(cache, cache', z) /\ SameCounts(cache, cache', z)
    BY <1>1, <1>2, <1>5, RunningFails
  <2> QED BY <1>2, <2>1, Unnoticed
<1>6. CASE old.key = None /\ cache' = [d EXCEPT !.entry[e].phase = "ready"]
  <2> DEFINE new == [old EXCEPT !.reservation = 0, !.phase = "ready"]
             entry == [c.entry EXCEPT ![e] = new]
  <2>1. new \in Entries
    BY <1>1 DEF Entries
  <2>2. cache' = [c EXCEPT !.entry = entry, !.reserved = c.reserved - MaxEntryWeight]
    BY <1>1, <1>3, <1>6 DEF Unreserve, Caches, Entries
  <2> HIDE DEF new
  <2>3. /\ entry \in [Calls -> Entries] /\ entry[e] = new
        /\ \A z \in Calls: z # e => entry[z] = c.entry[z]
    BY <1>1, <2>1 DEF Caches
  <2> HIDE DEF entry
  <2>4. /\ Sets(c, cache', e, new) /\ cache'.map = c.map /\ cache'.queue = c.queue
        /\ cache'.activeLoads = c.activeLoads
        /\ cache'.used = c.used /\ cache'.reserved = c.reserved - MaxEntryWeight
    BY <1>1, <1>4, <2>2, <2>3 DEF Sets, Caches
  <2>5. /\ CacheOK(cache') /\ NoneIdle(cache')
        /\ \A z \in Calls: Follows(cache, cache', z) /\ SameCounts(cache, cache', z)
    BY <1>1, <1>2, <1>6, <2>4, OperationEnds DEF new
  <2> QED BY <1>2, <2>5, Unnoticed
<1> DEFINE new == [old EXCEPT !.reservation = 0, !.phase = "ready", !.weight = w,
                              !.pins = old.waiters, !.retained = TRUE]
           entry == [c.entry EXCEPT ![e] = new]
           b == [d EXCEPT !.used = @ + w,
                          !.entry[e] = [@ EXCEPT !.phase = "ready", !.weight = w,
                                                 !.pins = old.waiters, !.retained = TRUE]]
<1>7. CASE /\ ~old.aborted /\ old.key # None /\ ~(w > old.reservation)
           /\ cache' = Touch(b, e)
  <2>1. new \in Entries
    BY <1>0, <1>1 DEF Entries
  <2>2. b = [c EXCEPT !.entry = entry, !.reserved = c.reserved - MaxEntryWeight, !.used = c.used + w]
    <3> DEFINE left == [old EXCEPT !.reservation = 0]
    <3>1. Unreserve(c, e) = [c EXCEPT !.entry = [c.entry EXCEPT ![e] = left],
                                      !.reserved = c.reserved - MaxEntryWeight]
      BY <1>1, <1>3 DEF Unreserve, Caches, left
    <3>2. [c.entry EXCEPT ![e] = left][e] = left
      BY <1>1 DEF Caches
    <3>3. [[c.entry EXCEPT ![e] = left] EXCEPT ![e] = [left EXCEPT !.phase = "ready", !.weight = w,
                                                     !.pins = old.waiters, !.retained = TRUE]] = entry
      <4>1. [left EXCEPT !.phase = "ready", !.weight = w,
                         !.pins = old.waiters, !.retained = TRUE] = new
        BY <1>1 DEF left, Entries
      <4> HIDE DEF new, left
      <4> QED BY <1>1, <4>1 DEF Caches
    <3> HIDE DEF left, entry
    <3> QED BY <1>1, <3>1, <3>2, <3>3 DEF Caches
  <2> HIDE DEF new, b
  <2>3. /\ entry \in [Calls -> Entries] /\ entry[e] = new
        /\ \A z \in Calls: z # e => entry[z] = c.entry[z]
    BY <1>1, <2>1 DEF Caches
  <2>4. c.used + w \in Nat
    BY <1>0, <1>1 DEF Caches
  <2> HIDE DEF entry
  <2>5. /\ b \in Caches /\ b.entry = entry /\ b.map = c.map /\ b.queue = c.queue
        /\ b.activeLoads = c.activeLoads
        /\ b.used = c.used + w /\ b.reserved = c.reserved - MaxEntryWeight
    BY <1>1, <1>4, <2>2, <2>3, <2>4 DEF Caches
  <2>6. /\ Sets(b, cache', e, b.entry[e]) /\ cache'.map = b.map
        /\ cache'.queue = b.queue /\ cache'.activeLoads = b.activeLoads
        /\ cache'.used = b.used /\ cache'.reserved = b.reserved
    BY <1>7, <2>5, TouchIs
  <2>7. Sets(c, cache', e, new)
    BY <2>3, <2>5, <2>6 DEF Sets
  <2>8. w <= MaxEntryWeight
    BY <1>0, <1>3, <1>7
  <2>9. /\ CacheOK(cache') /\ NoneIdle(cache')
        /\ \A z \in Calls: Follows(cache, cache', z) /\ SameCounts(cache, cache', z)
    BY <1>0, <1>1, <1>2, <1>7, <2>5, <2>6, <2>7, <2>8, LoadEnds DEF new
  <2> QED BY <1>2, <2>9, Unnoticed
<1> QED BY <1>5, <1>6, <1>7 DEF Loaded

\* The slot of an execution that has ended is free for the next one.
LEMMA FreeSlotKeeps ==
  ASSUME IInv, NEW e \in Calls, FreeSlot(e)
  PROVE  IInv'
<1> DEFINE old == cache.entry[e]
           new == [old EXCEPT !.slot = FALSE]
           entry == [cache.entry EXCEPT ![e] = new]
           b == [cache EXCEPT !.entry[e].slot = FALSE, !.activeLoads = @ - 1]
<1>0. None \notin Keys /\ None \notin Calls /\ MaxEntryWeight \in Nat /\ MaxConcurrentLoads \in Nat \ {0}
  BY CacheOptions
<1>1. /\ CacheOK(cache) /\ NoneIdle(cache) /\ cache \in Caches /\ old \in Entries /\ EntryOK(cache, e)
      /\ Within(cache) /\ cache.activeLoads \in Nat /\ cache.used \in Nat /\ cache.reserved \in Nat
  BY DEF IInv, CacheOK, Caches, EntriesOK
<1>2. old.slot /\ ~Loading(cache, e) /\ cache' = PumpLoads(b) /\ UNCHANGED call
  BY DEF FreeSlot
<1>3. cache.activeLoads - 1 \in Nat
  <2>1. e \in Slots(cache) /\ IsFiniteSet(Slots(cache)) /\ cache.activeLoads = Cardinality(Slots(cache))
    BY <1>1, <1>2 DEF Slots, CacheOK, Counted
  <2>2. Cardinality(Slots(cache)) \in Nat /\ Cardinality(Slots(cache)) # 0
    BY <2>1, FS_CardinalityType, FS_EmptySet
  <2> QED BY <2>1, <2>2
<1>4. /\ new \in Entries /\ ~new.slot /\ new.phase = old.phase /\ new.key = old.key
      /\ new.weight = old.weight /\ new.retained = old.retained /\ new.pins = old.pins
      /\ new.reservation = old.reservation /\ new.evictOnRelease = old.evictOnRelease
      /\ new.aborted = old.aborted /\ new.waiters = old.waiters
  BY <1>1 DEF Entries
<1>5. b = [cache EXCEPT !.entry = entry, !.activeLoads = cache.activeLoads - 1]
  BY <1>1 DEF Caches
<1> HIDE DEF new, b
<1>6. /\ entry \in [Calls -> Entries] /\ entry[e] = new
      /\ \A z \in Calls: z # e => entry[z] = cache.entry[z]
  BY <1>1, <1>4 DEF Caches
<1> HIDE DEF entry
<1>7. /\ b \in Caches /\ b.entry = entry /\ b.map = cache.map /\ b.queue = cache.queue
      /\ b.activeLoads = cache.activeLoads - 1
      /\ b.used = cache.used /\ b.reserved = cache.reserved
  BY <1>1, <1>3, <1>5, <1>6 DEF Caches
<1>8. /\ Sets(cache, b, e, new) /\ b.entry[e] = new
      /\ \A z \in Calls: z # e => b.entry[z] = cache.entry[z]
  BY <1>6, <1>7 DEF Sets
<1>9. CacheOK(b)
  <2>1. EntryOK(b, e)
    <3>1. Mapped(b, e) <=> Mapped(cache, e)
      BY <1>4, <1>7, <1>8 DEF Mapped
    <3> QED BY <1>1, <1>2, <1>4, <1>8, <3>1 DEF EntryOK, Loading
  <2>2. \A k \in Keys: b.map[k] = e => new.key = k
    BY <1>0, <1>1, <1>4, <1>7 DEF CacheOK, EntriesOK
  <2>3. /\ b.activeLoads = cache.activeLoads + One(new.slot) - One(cache.entry[e].slot)
        /\ b.used = cache.used + Weighs(new) - Weighs(cache.entry[e])
        /\ b.reserved = cache.reserved + MaxEntryWeight * One(new.phase = "running")
                                       - MaxEntryWeight * One(cache.entry[e].phase = "running")
    <3>1. /\ One(new.slot) = 0 /\ One(old.slot) = 1
          /\ Weighs(new) = Weighs(old) /\ Weighs(old) \in Nat
          /\ One(new.phase = "running") = 0 /\ One(old.phase = "running") = 0
      BY <1>1, <1>2, <1>4 DEF One, Weighs, Loading, Entries
    <3>2. MaxEntryWeight * 0 = 0
      BY <1>0
    <3> QED BY <1>1, <1>3, <1>7, <3>1, <3>2
  <2>4. Within(b)
    BY <1>0, <1>1, <1>3, <1>7 DEF Within
  <2>5. /\ \A k \in Keys: b.map[k] = cache.map[k] \/ {cache.map[k], b.map[k]} \subseteq {e, None}
        /\ b.queue = cache.queue /\ (new.phase = "queued" <=> cache.entry[e].phase = "queued")
    BY <1>4, <1>7
  <2>6. CacheOK(cache) /\ Sets(cache, b, e, new)
    BY <1>1, <1>8
  <2> QED BY <2>1, <2>2, <2>3, <2>4, <2>5, <2>6, EntryStep
<1>10. CacheOK(cache') /\ NoneIdle(cache') /\ Mild(b, cache')
  <2>1. /\ Len(cache.queue) \in Nat /\ Len(cache.queue) <= MaxPendingLoads
        /\ cache.queue # <<>> => cache.activeLoads = MaxConcurrentLoads
        /\ cache.queue = <<>> => Len(cache.queue) = 0
    BY <1>1 DEF NoneIdle, Caches
  <2>2. /\ b.activeLoads < MaxConcurrentLoads =>
             Len(b.queue) <= 1 \/ b.activeLoads = MaxConcurrentLoads - 1
        /\ Len(b.queue) <= IF b.activeLoads < MaxConcurrentLoads
                           THEN MaxPendingLoads + 1 ELSE MaxPendingLoads
    BY <1>1, <1>7, <2>1, CacheOptions
  <2> QED BY <1>2, <1>9, <2>2, PumpKeeps
<1>11. CallersOK(cache', call')
  <2>1. \A z \in Calls: Follows(cache, b, z) /\ SameCounts(cache, b, z)
    BY <1>4, <1>8 DEF Follows, SameCounts, Loading
  <2>2. CallersOK(b, call)
    BY <2>1, CallersKept DEF IInv
  <2>3. CallersOK(cache', call)
    BY <1>10, <2>2, MildIsFollowed
  <2> QED BY <1>2, <2>3
<1> QED BY <1>10, <1>11 DEF IInv

\* A holder of an entry leaves it.
Loses(c, d, e) ==
  /\ \A z \in Calls: Follows(c, d, z)
  /\ \A z \in Calls: z # e => d.entry[z] = c.entry[z]
  /\ d.entry[e].key # None =>
       /\ Loading(d, e) => Loading(c, e) /\ d.entry[e].waiters = c.entry[e].waiters - 1
       /\ d.entry[e].phase = "ready" =>
            c.entry[e].phase = "ready" /\ d.entry[e].pins = c.entry[e].pins - 1

\* What Goes() assigns.
LEMMA GoesIs ==
  ASSUME IInv, NEW x \in Calls,
         NEW state \in {"settling", "leased", "done", "rejected", "released"}, Goes(x, state)
  PROVE  \E w \in CallStates:
           call' = [call EXCEPT ![x] = w] /\ w.state = state /\ w.entry = call[x].entry
<1> DEFINE w == [call[x] EXCEPT !.state = state]
<1>1. call \in [Calls -> CallStates]
  BY DEF IInv, CallersOK
<1>2. call[x] \in CallStates
  BY <1>1
<1>3. call' = [call EXCEPT ![x] = w]
  BY <1>1 DEF Goes
<1>4. w \in CallStates /\ w.state = state /\ w.entry = call[x].entry
  BY <1>2 DEF CallStates
<1> QED BY <1>3, <1>4

\* The caller that leaves is the one that is no longer counted.
LEMMA HolderLeaves ==
  ASSUME IInv, NEW x \in Calls, call[x].state \in {"waiting", "leased"},
         NEW d, Loses(cache, d, call[x].entry),
         NEW w \in CallStates, w.entry = call[x].entry, w.state \in {"settling", "rejected", "released"}
  PROVE  CallersOK(d, [call EXCEPT ![x] = w])
<1> DEFINE e == call[x].entry
<1>1. CallersOK(cache, call) /\ call \in [Calls -> CallStates] /\ None \notin Calls
  BY CacheOptions DEF IInv, CallersOK
<1>2. e \in Calls /\ cache.entry[e].phase # "none"
  BY <1>1 DEF CallersOK, CallerOK
<1> HIDE DEF e
<1>3. CallerOK(d, [call EXCEPT ![x] = w], x)
  <2>1. [call EXCEPT ![x] = w][x] = w
    BY <1>1
  <2>2. Follows(cache, d, e) /\ w.entry = e
    BY <1>2 DEF Loses, e
  <2> QED BY <1>1, <1>2, <2>1, <2>2 DEF CallerOK, Follows
<1>4. \A z \in Calls: z # e => Follows(cache, d, z) /\ SameCounts(cache, d, z)
  BY DEF Loses, SameCounts, Loading, e
<1>5. One(Holds(w, e)) = 0 /\ One(Holds(call[x], e)) = 1
  BY DEF Holds, One, e
<1>6. HeldOK(cache, call, e) /\ Follows(cache, d, e)
  BY <1>1, <1>2 DEF CallersOK, Loses, e
<1>7. Cardinality(Holders(call, e)) \in Nat
  BY <1>6, FS_CardinalityType DEF HeldOK
<1>8. d.entry[e].key # None =>
        LET n == Cardinality(Holders(call, e)) + One(Holds(w, e)) - One(Holds(call[x], e)) IN
        /\ Loading(d, e) => d.entry[e].waiters = n
        /\ d.entry[e].phase = "ready" => d.entry[e].pins = n
  BY <1>5, <1>6, <1>7 DEF Loses, HeldOK, Follows, e
<1>9. CallerMoves(cache, d, call, x, e, w)
  <2>1. call[x].entry = e /\ w.entry = e
    BY DEF e
  <2> QED BY <1>3, <1>4, <1>6, <1>8, <2>1 DEF CallerMoves
<1> QED BY <1>1, <1>2, <1>9, OneCaller

\* The answer reaches a waiter.
LEMMA DeliverKeeps ==
  ASSUME IInv, NEW x \in Calls, Deliver(x)
  PROVE  IInv'
<1> DEFINE e == call[x].entry
           state == IF cache.entry[e].phase = "failed" \/ call[x].state = "settling" THEN "rejected"
                    ELSE IF cache.entry[e].key = None THEN "done" ELSE "leased"
<1>1. /\ call[x].state \in {"waiting", "settling"} /\ ~Loading(cache, e)
      /\ Goes(x, state) /\ UNCHANGED cache
  BY DEF Deliver
<1>2. CallersOK(cache, call) /\ call \in [Calls -> CallStates] /\ None \notin Calls
      /\ cache \in Caches
  BY CacheOptions DEF IInv, CallersOK, CacheOK
<1>3. e \in Calls /\ cache.entry[e].phase # "none" /\ cache.entry[e] \in Entries
  BY <1>1, <1>2 DEF CallersOK, CallerOK, Caches
<1>4. cache.entry[e].phase \in {"ready", "failed"}
  BY <1>1, <1>3 DEF Loading, Entries
<1>5. state \in {"done", "rejected", "leased"}
  OBVIOUS
<1> HIDE DEF state
<1>6. PICK w \in CallStates: call' = [call EXCEPT ![x] = w] /\ w.state = state /\ w.entry = e
  BY <1>1, <1>5, GoesIs
<1> HIDE DEF e
<1>7. CallerOK(cache, [call EXCEPT ![x] = w], x)
  <2>1. [call EXCEPT ![x] = w][x] = w
    BY <1>2
  <2> QED BY <1>2, <1>3, <1>4, <1>6, <2>1 DEF CallerOK, state
<1>8. \A z \in Calls: Follows(cache, cache, z) /\ SameCounts(cache, cache, z)
  BY DEF Follows, SameCounts
<1>9. HeldOK(cache, call, e) /\ Cardinality(Holders(call, e)) \in Nat
  BY <1>2, <1>3, FS_CardinalityType DEF CallersOK, HeldOK
<1>10. cache.entry[e].key # None /\ cache.entry[e].phase = "ready" =>
         One(Holds(w, e)) = One(Holds(call[x], e))
  BY <1>1, <1>6 DEF Holds, One, state, e
<1>11. cache.entry[e].key # None =>
         LET n == Cardinality(Holders(call, e)) + One(Holds(w, e)) - One(Holds(call[x], e)) IN
         /\ Loading(cache, e) => cache.entry[e].waiters = n
         /\ cache.entry[e].phase = "ready" => cache.entry[e].pins = n
  <2>1. One(Holds(w, e)) \in Nat /\ One(Holds(call[x], e)) \in Nat /\ ~Loading(cache, e)
    BY <1>1 DEF One, e
  <2> QED BY <1>9, <1>10, <2>1 DEF HeldOK
<1>12. CallerMoves(cache, cache, call, x, e, w)
  <2>1. call[x].entry = e
    BY DEF e
  <2> QED BY <1>3, <1>6, <1>7, <1>8, <1>11, <2>1 DEF CallerMoves
<1>13. CallersOK(cache, call')
  BY <1>2, <1>3, <1>6, <1>12, OneCaller
<1> QED BY <1>1, <1>13 DEF IInv

\* #releaseReadyPin for a caller that holds the dataset.
LEMMA UnpinHeld ==
  ASSUME IInv, NEW x \in Calls, call[x].state \in {"waiting", "leased"},
         cache.entry[call[x].entry].phase = "ready", cache.entry[call[x].entry].key # None,
         cache' = Unpin(cache, call[x].entry),
         NEW state \in {"rejected", "released"}, Goes(x, state)
  PROVE  IInv'
<1> DEFINE e == call[x].entry
<1>1. /\ CacheOK(cache) /\ NoneIdle(cache) /\ CallersOK(cache, call) /\ e \in Calls
  BY DEF IInv, CallersOK, CallerOK
<1>2. cache.entry[e].pins = Cardinality(Holders(call, e)) /\ Holds(call[x], e)
  BY <1>1 DEF CallersOK, HeldOK, Holds
<1>3. cache.entry[e].pins > 0 /\ cache.entry[e].phase = "ready" /\ cache' = Unpin(cache, e)
  BY <1>1, <1>2, HolderCounts
<1> HIDE DEF e
<1>4. /\ CacheOK(cache') /\ NoneIdle(cache')
      /\ \A z \in Calls: Follows(cache, cache', z)
      /\ \A z \in Calls: z # e => cache'.entry[z] = cache.entry[z]
      /\ cache'.entry[e].pins = cache.entry[e].pins - 1
  BY <1>1, <1>3, UnpinKeeps
<1>5. Loses(cache, cache', e)
  BY <1>1, <1>3, <1>4 DEF Loses, Follows, Loading
<1>6. PICK w \in CallStates: call' = [call EXCEPT ![x] = w] /\ w.state = state /\ w.entry = e
  BY GoesIs DEF e
<1>7. CallersOK(cache', call')
  BY <1>5, <1>6, HolderLeaves DEF e
<1> QED BY <1>4, <1>7 DEF IInv

\* release(), the first time and later.
LEMMA ReleaseKeeps ==
  ASSUME IInv, NEW x \in Calls, Release(x)
  PROVE  IInv'
<1>1. CASE call[x].state = "leased"
  <2>1. cache.entry[call[x].entry].phase = "ready" /\ cache.entry[call[x].entry].key # None
    BY <1>1 DEF IInv, CallersOK, CallerOK
  <2> QED BY <1>1, <2>1, UnpinHeld DEF Release
<1>2. CASE call[x].state = "released"
  <2>1. call \in [Calls -> CallStates] /\ call[x] \in CallStates
    BY DEF IInv, CallersOK
  <2>2. [call[x] EXCEPT !.state = "released"] = call[x]
    BY <1>2, <2>1 DEF CallStates
  <2>3. call' = [call EXCEPT ![x] = [call[x] EXCEPT !.state = "released"]] /\ UNCHANGED cache
    BY <1>2, <2>1 DEF Release, Goes
  <2>4. call' = call
    BY <2>1, <2>2, <2>3
  <2> QED BY <2>3, <2>4 DEF IInv
<1> QED BY <1>1, <1>2 DEF Release

\* The caller of acquire() aborts: before, during or after the load.
LEMMA AbortAcquireKeeps ==
  ASSUME IInv, NEW x \in Calls, AbortAcquire(x)
  PROVE  IInv'
<1> DEFINE c == cache
           e == call[x].entry
           old == c.entry[e]
           state == IF x \in SettleCalls /\ old.phase = "running" THEN "settling" ELSE "rejected"
           n == old.waiters - 1
           new == [old EXCEPT !.waiters = n]
           entry == [c.entry EXCEPT ![e] = new]
           d == [c EXCEPT !.entry[e].waiters = @ - 1]
<1>1. /\ call[x].state = "waiting" /\ old.key # None /\ Goes(x, state)
      /\ cache' = IF Loading(c, e)
                  THEN IF d.entry[e].waiters = 0 THEN AbortEntry(Unmap(d, e), e) ELSE d
                  ELSE IF old.phase = "ready" THEN Unpin(c, e) ELSE c
  BY DEF AbortAcquire
<1>2. /\ CacheOK(c) /\ NoneIdle(c) /\ CallersOK(c, call) /\ c \in Caches
      /\ e \in Calls /\ old \in Entries /\ None \notin Calls
  BY <1>1, CacheOptions DEF IInv, CallersOK, CallerOK, CacheOK, Caches
<1>3. HeldOK(c, call, e) /\ Cardinality(Holders(call, e)) \in Nat /\ Cardinality(Holders(call, e)) > 0
  <2>1. Holds(call[x], e)
    BY <1>1 DEF Holds
  <2> QED BY <1>2, <2>1, HolderCounts DEF CallersOK
<1>4. state \in {"settling", "rejected"}
  OBVIOUS
<1> HIDE DEF state
<1>5. PICK w \in CallStates: call' = [call EXCEPT ![x] = w] /\ w.state = state /\ w.entry = e
  BY <1>1, <1>4, GoesIs
\* The common end: the caller has left.
<1>6. ASSUME CacheOK(cache'), NoneIdle(cache'), Loses(c, cache', e)
      PROVE  IInv'
  <2>1. CallersOK(cache', call')
    BY <1>1, <1>4, <1>5, <1>6, HolderLeaves
  <2> QED BY <1>6, <2>1 DEF IInv
<1>7. CASE Loading(c, e)
  <2>1. old.waiters \in Nat /\ old.waiters > 0 /\ n \in Nat
    BY <1>1, <1>2, <1>3, <1>7 DEF HeldOK, Entries
  <2>2. /\ new \in Entries /\ new.waiters = n
        /\ new.key = old.key /\ new.phase = old.phase /\ new.slot = old.slot
        /\ new.retained = old.retained /\ new.weight = old.weight
        /\ new.reservation = old.reservation /\ new.aborted = old.aborted
        /\ new.evictOnRelease = old.evictOnRelease /\ new.pins = old.pins
    BY <1>2, <2>1 DEF Entries
  <2>3. d = [c EXCEPT !.entry = entry]
    BY <1>2 DEF Caches, Entries
  <2> HIDE DEF new, d
  <2>4. /\ entry \in [Calls -> Entries] /\ entry[e] = new
        /\ \A z \in Calls: z # e => entry[z] = c.entry[z]
    BY <1>2, <2>2 DEF Caches
  <2> HIDE DEF entry
  <2>5. /\ d \in Caches /\ d.entry = entry /\ d.map = c.map /\ d.queue = c.queue
        /\ d.activeLoads = c.activeLoads /\ d.used = c.used /\ d.reserved = c.reserved
    BY <1>2, <2>3, <2>4 DEF Caches
  <2>6. Sets(c, d, e, new) /\ d.entry[e] = new
    BY <2>4, <2>5 DEF Sets
  <2>7. CASE n = 0
    <3> DEFINE b == Unmap(d, e)
    <3>1. cache' = AbortEntry(b, e)
      BY <1>1, <1>7, <2>2, <2>6, <2>7
    <3>2. /\ Sets(d, b, e, d.entry[e]) /\ Unmaps(d, b, e)
          /\ b.queue = d.queue /\ b.activeLoads = d.activeLoads
          /\ b.used = d.used /\ b.reserved = d.reserved
      BY <1>2, <2>5, UnmapIs
    <3> HIDE DEF b
    <3>3. Sets(c, b, e, new)
      BY <2>6, <3>2 DEF Sets
    <3>4. Unmaps(c, b, e)
      BY <2>2, <2>5, <2>6, <3>2 DEF Unmaps
    <3>5. /\ CacheOK(cache') /\ NoneIdle(cache')
          /\ \A z \in Calls: z # e => cache'.entry[z] = c.entry[z]
          /\ cache'.entry[e].key = old.key /\ cache'.entry[e].waiters = n
          /\ cache'.entry[e].phase = IF old.phase = "queued" THEN "failed" ELSE "running"
      BY <1>2, <1>7, <2>1, <2>5, <3>1, <3>2, <3>3, <3>4, AbortKeeps DEF new
    <3>6. Loses(c, cache', e)
      BY <1>7, <2>1, <3>5 DEF Loses, Follows, Loading
    <3> QED BY <1>6, <3>5, <3>6
  <2>8. CASE n # 0
    <3>1. cache' = d
      BY <1>1, <1>7, <2>2, <2>6, <2>8
    <3>2. Recounts(c, cache', e, new)
      BY <1>7, <2>1, <2>2, <2>5, <2>6, <2>8, <3>1 DEF Recounts
    <3>3. /\ CacheOK(cache') /\ NoneIdle(cache')
          /\ \A z \in Calls: Follows(c, cache', z)
          /\ \A z \in Calls: z # e => cache'.entry[z] = c.entry[z]
          /\ cache'.entry[e] = new
      BY <1>2, <3>2, CountStep
    <3>4. Loses(c, cache', e)
      BY <1>7, <2>2, <3>3 DEF Loses, Loading
    <3> QED BY <1>6, <3>3, <3>4
  <2> QED BY <2>7, <2>8
<1>8. CASE ~Loading(c, e) /\ old.phase = "ready"
  <2>1. Goes(x, "rejected")
    BY <1>1, <1>8 DEF state
  <2>2. cache' = Unpin(cache, call[x].entry)
    BY <1>1, <1>8
  <2> QED BY <1>1, <1>8, <2>1, <2>2, UnpinHeld
<1>9. CASE ~Loading(c, e) /\ old.phase # "ready"
  <2>1. cache' = c
    BY <1>1, <1>9
  <2>2. Loses(c, cache', e)
    BY <1>9, <2>1 DEF Loses, Follows
  <2> QED BY <1>2, <1>6, <2>1, <2>2
<1> QED BY <1>7, <1>8, <1>9

\* The caller of runUncached() aborts.
LEMMA AbortUncachedKeeps ==
  ASSUME IInv, NEW x \in Calls, AbortUncached(x)
  PROVE  IInv'
<1> DEFINE e == call[x].entry
           old == cache.entry[e]
           new == [old EXCEPT !.waiters = old.waiters]
<1>1. /\ call[x].state = "waiting" /\ old.key = None /\ Loading(cache, e)
      /\ cache' = AbortEntry(cache, e) /\ Goes(x, "rejected")
  BY DEF AbortUncached
<1>2. /\ CacheOK(cache) /\ NoneIdle(cache) /\ CallersOK(cache, call) /\ cache \in Caches
      /\ e \in Calls /\ old \in Entries /\ None \notin Keys
  BY <1>1, CacheOptions DEF IInv, CallersOK, CallerOK, CacheOK, Caches
<1>3. Sets(cache, cache, e, new) /\ Unmaps(cache, cache, e) /\ old.waiters \in Nat
  BY <1>1, <1>2 DEF Sets, Unmaps, Entries
<1>4. /\ CacheOK(cache') /\ NoneIdle(cache')
      /\ \A z \in Calls: z # e => cache'.entry[z] = cache.entry[z]
      /\ cache'.entry[e].key = old.key
      /\ cache'.entry[e].phase = IF old.phase = "queued" THEN "failed" ELSE "running"
  <2> HIDE DEF e
  <2> QED BY <1>1, <1>2, <1>3, AbortKeeps
<1>5. Loses(cache, cache', e)
  BY <1>1, <1>4 DEF Loses, Follows, Loading
<1>6. PICK w \in CallStates: call' = [call EXCEPT ![x] = w] /\ w.state = "rejected" /\ w.entry = e
  BY <1>1, GoesIs
<1>7. CallersOK(cache', call')
  BY <1>1, <1>5, <1>6, HolderLeaves
<1> QED BY <1>4, <1>7 DEF IInv

\* evict(): a load, an idle dataset or a pinned one.
LEMMA EvictKeeps ==
  ASSUME IInv, NEW k \in Keys, Evict(k)
  PROVE  IInv'
<1> DEFINE c == cache
           e == c.map[k]
           old == c.entry[e]
           b == Unmap(c, e)
<1>1. /\ e # None /\ UNCHANGED call
      /\ cache' = IF Loading(c, e) THEN AbortEntry(b, e)
                  ELSE IF old.pins = 0 THEN Drop(c, {e})
                  ELSE [b EXCEPT !.entry[e].evictOnRelease = TRUE, !.older = Unrelated(@, {e})]
  BY DEF Evict
<1>2. CacheOK(c) /\ NoneIdle(c) /\ c \in Caches
  BY DEF IInv, CacheOK
<1>3. /\ e \in Calls /\ old \in Entries /\ EntryOK(c, e) /\ old.key = k /\ Mapped(c, e)
      /\ \/ Loading(c, e) /\ ~old.aborted
         \/ old.phase = "ready" /\ old.retained /\ ~old.evictOnRelease
  BY <1>1, <1>2, Offered
<1>4. /\ Sets(c, b, e, old) /\ Unmaps(c, b, e)
      /\ b.queue = c.queue /\ b.activeLoads = c.activeLoads
      /\ b.used = c.used /\ b.reserved = c.reserved
  BY <1>2, <1>3, UnmapIs
<1> HIDE DEF b, e
<1>5. CASE Loading(c, e)
  <2>1. Sets(c, b, e, [old EXCEPT !.waiters = old.waiters]) /\ old.waiters \in Nat
    BY <1>3, <1>4 DEF Entries
  <2>2. cache' = AbortEntry(b, e)
    BY <1>1, <1>5
  <2>3. /\ CacheOK(cache') /\ NoneIdle(cache')
        /\ \A z \in Calls: z # e => cache'.entry[z] = c.entry[z]
        /\ cache'.entry[e].key = old.key /\ cache'.entry[e].waiters = old.waiters
        /\ cache'.entry[e].phase = IF old.phase = "queued" THEN "failed" ELSE "running"
    BY <1>2, <1>3, <1>4, <1>5, <2>1, <2>2, AbortKeeps
  <2>4. \A z \in Calls: Follows(c, cache', z) /\ SameCounts(c, cache', z)
    BY <1>5, <2>3 DEF Follows, SameCounts, Loading
  <2> QED BY <1>1, <2>3, <2>4, Unnoticed
<1>6. CASE ~Loading(c, e) /\ old.pins = 0
  <2> DEFINE S == {e}
  <2>1. S \in SUBSET Idle(c) /\ cache' = Drop(c, S)
    BY <1>1, <1>3, <1>6 DEF Idle
  <2> HIDE DEF S
  <2>2. /\ CacheOK(cache')
        /\ \A x \in Calls: cache'.entry[x] = IF x \in S THEN [c.entry[x] EXCEPT !.retained = FALSE]
                                             ELSE c.entry[x]
        /\ cache'.queue = c.queue /\ cache'.activeLoads = c.activeLoads
    BY <1>2, <2>1, DropIdleKeeps
  <2>3. \A z \in Calls: Follows(c, cache', z) /\ SameCounts(c, cache', z)
    <3>1. \A z \in Calls: c.entry[z] \in Entries
      BY <1>2 DEF Caches
    <3>2. \A z \in Calls: /\ cache'.entry[z].phase = c.entry[z].phase
                          /\ cache'.entry[z].key = c.entry[z].key
                          /\ cache'.entry[z].pins = c.entry[z].pins
                          /\ cache'.entry[z].waiters = c.entry[z].waiters
      BY <2>2, <3>1 DEF Entries
    <3> QED BY <3>2 DEF Follows, SameCounts, Loading
  <2>4. NoneIdle(cache')
    BY <1>2, <2>2 DEF NoneIdle
  <2> QED BY <1>1, <2>2, <2>3, <2>4, Unnoticed
<1>7. CASE ~Loading(c, e) /\ old.pins # 0
  <2> DEFINE new == [old EXCEPT !.evictOnRelease = TRUE]
             entry == [b.entry EXCEPT ![e] = new]
             o == Unrelated(b.older, {e})
  <2>1. /\ new \in Entries /\ new.evictOnRelease /\ new.phase = old.phase /\ new.key = old.key
        /\ new.slot = old.slot /\ new.retained = old.retained /\ new.weight = old.weight
        /\ new.reservation = old.reservation /\ new.pins = old.pins /\ new.waiters = old.waiters
        /\ old.pins \in Nat
    BY <1>3 DEF Entries
  <2>2. b \in Caches /\ b.entry[e] = old /\ \A z \in Calls: z # e => b.entry[z] = c.entry[z]
    BY <1>4 DEF Sets
  <2>3. cache' = [b EXCEPT !.entry = entry, !.older = o]
    BY <1>1, <1>7, <2>2 DEF Caches
  <2>4. o \in SUBSET (Calls \X Calls)
    BY <2>2 DEF Unrelated, Caches
  <2> HIDE DEF new, o
  <2>5. /\ entry \in [Calls -> Entries] /\ entry[e] = new
        /\ \A z \in Calls: z # e => entry[z] = c.entry[z]
    BY <1>3, <2>1, <2>2 DEF Caches
  <2> HIDE DEF entry
  <2>6. /\ Sets(c, cache', e, new) /\ cache'.map = b.map /\ cache'.queue = c.queue
        /\ cache'.activeLoads = c.activeLoads /\ cache'.used = c.used /\ cache'.reserved = c.reserved
    BY <1>4, <2>2, <2>3, <2>4, <2>5 DEF Sets, Caches
  <2>7. cache'.entry[e] = new /\ \A z \in Calls: z # e => cache'.entry[z] = c.entry[z]
    BY <2>6 DEF Sets
  <2>8. /\ \A j \in Keys: cache'.map[j] = c.map[j] \/ {c.map[j], cache'.map[j]} \subseteq {e, None}
        /\ \A j \in Keys: cache'.map[j] # e
    BY <1>2, <1>3, <1>4, <2>6, UnmapsAll
  <2>9. EntryOK(cache', e)
    <3>1. ~Mapped(cache', e)
      BY <1>3, <2>1, <2>7, <2>8 DEF Mapped
    <3>2. old.phase = "ready" /\ old.pins > 0
      BY <1>3, <1>7, <2>1
    <3> QED BY <1>3, <2>1, <2>7, <3>1, <3>2 DEF EntryOK, Loading
  <2>10. /\ cache'.activeLoads = c.activeLoads + One(new.slot) - One(c.entry[e].slot)
         /\ cache'.used = c.used + Weighs(new) - Weighs(c.entry[e])
         /\ cache'.reserved = c.reserved + MaxEntryWeight * One(new.phase = "running")
                                         - MaxEntryWeight * One(c.entry[e].phase = "running")
    <3>1. /\ One(new.slot) = One(old.slot) /\ Weighs(new) = Weighs(old)
          /\ One(new.phase = "running") = One(old.phase = "running")
      BY <2>1 DEF Weighs
    <3>2. /\ One(old.slot) \in Nat /\ Weighs(old) \in Nat
          /\ MaxEntryWeight * One(old.phase = "running") \in Nat
      BY <1>3, CacheOptions DEF One, Weighs, Entries
    <3>3. c.activeLoads \in Nat /\ c.used \in Nat /\ c.reserved \in Nat
      BY <1>2 DEF Caches
    <3> QED BY <2>6, <3>1, <3>2, <3>3
  <2>11. Within(cache')
    BY <1>2, <2>6 DEF CacheOK, Within
  <2>12. cache'.queue = c.queue /\ (new.phase = "queued" <=> c.entry[e].phase = "queued")
    BY <2>1, <2>6
  <2>13. \A j \in Keys: cache'.map[j] = e => new.key = j
    BY <2>8
  <2>14. CacheOK(cache')
    BY <1>2, <1>3, <2>6, <2>8, <2>9, <2>10, <2>11, <2>12, <2>13, EntryStep
  <2>15. NoneIdle(cache')
    BY <1>2, <2>6 DEF NoneIdle
  <2>16. \A z \in Calls: Follows(c, cache', z) /\ SameCounts(c, cache', z)
    BY <2>1, <2>7 DEF Follows, SameCounts, Loading
  <2> QED BY <1>1, <2>14, <2>15, <2>16, Unnoticed
<1> QED BY <1>5, <1>6, <1>7

-----------------------------------------------------------------------------
(* The theorems.                                                               *)

\* An empty cache is in order.
LEMMA InitHolds == Init => IInv
<1> SUFFICES ASSUME Init PROVE IInv
  OBVIOUS
<1>0. None \notin Keys /\ None \notin Calls /\ MaxEntryWeight \in Nat /\ Capacity \in Nat
      /\ MaxConcurrentLoads \in Nat \ {0} /\ MaxPendingLoads \in Nat \ {0}
  BY CacheOptions
<1>1. /\ cache.map = [k \in Keys |-> None] /\ cache.entry = [e \in Calls |-> NoEntry]
      /\ cache.queue = <<>> /\ cache.activeLoads = 0 /\ cache.used = 0 /\ cache.reserved = 0
      /\ call = [c \in Calls |-> [state |-> "idle", entry |-> None]]
  BY DEF Init
<1>2. NoEntry \in Entries
  BY DEF NoEntry, Entries
<1>3. cache \in Caches
  <2>1. /\ [k \in Keys |-> None] \in [Keys -> Calls \cup {None}]
        /\ [e \in Calls |-> NoEntry] \in [Calls -> Entries]
    BY <1>2
  <2> QED BY <2>1 DEF Init, Caches
<1>4. \A e \in Calls: cache.entry[e] = NoEntry
  BY <1>1
<1>5. EntriesOK(cache)
  <2>1. \A e \in Calls: EntryOK(cache, e)
    BY <1>0, <1>4 DEF EntryOK, NoEntry, Loading
  <2> QED BY <1>1, <2>1 DEF EntriesOK
<1>6. Counted(cache)
  <2>1. Slots(cache) = {} /\ Running(cache) = {} /\ Retained(cache) = {}
    BY <1>4 DEF Slots, Running, Retained, NoEntry
  <2>2. Bytes(cache.entry, {}) = {}
    BY DEF Bytes
  <2>3. IsFiniteSet({}) /\ Cardinality({}) = 0 /\ MaxEntryWeight * 0 = 0
    BY <1>0, FS_EmptySet
  <2> QED BY <1>1, <2>1, <2>2, <2>3 DEF Counted
<1>7. Within(cache) /\ NoneIdle(cache)
  BY <1>0, <1>1 DEF Within, NoneIdle
<1>8. QueueOK(cache)
  BY <1>1, <1>4 DEF QueueOK, NoEntry
<1>9. CallersOK(cache, call)
  <2>1. call \in [Calls -> CallStates]
    BY <1>1 DEF CallStates
  <2>2. \A x \in Calls: call[x].state = "idle" /\ call[x].entry = None
    BY <1>1
  <2>3. \A x \in Calls: CallerOK(cache, call, x)
    BY <1>4, <2>2 DEF CallerOK, NoEntry
  <2>4. \A e \in Calls: HeldOK(cache, call, e)
    <3>1. \A e \in Calls: Holders(call, e) = {}
      BY <2>2 DEF Holders
    <3>2. \A e \in Calls: cache.entry[e].key = None
      BY <1>4 DEF NoEntry
    <3> QED BY <3>1, <3>2, FS_EmptySet DEF HeldOK
  <2> QED BY <2>1, <2>3, <2>4 DEF CallersOK
<1> QED BY <1>3, <1>5, <1>6, <1>7, <1>8, <1>9 DEF IInv, CacheOK

\* Every action keeps the invariant.
LEMMA NextHolds == IInv /\ [Next]_vars => IInv'
<1> SUFFICES ASSUME IInv, [Next]_vars PROVE IInv'
  OBVIOUS
<1>1. ASSUME NEW c \in Calls, NEW k \in Keys, AcquireHit(c, k) PROVE IInv'
  BY <1>1, AcquireHitKeeps
<1>2. ASSUME NEW c \in Calls, NEW k \in Keys, AcquireJoin(c, k) PROVE IInv'
  BY <1>2, AcquireJoinKeeps
<1>3. ASSUME NEW c \in Calls, NEW k \in Keys, AcquireCold(c, k) PROVE IInv'
  BY <1>3, AcquireColdKeeps
<1>4. ASSUME NEW c \in Calls, RunUncached(c) PROVE IInv'
  BY <1>4, RunUncachedKeeps
<1>5. ASSUME NEW e \in Calls, NEW w \in Weights, Loaded(e, w) PROVE IInv'
  BY <1>5, LoadedKeeps
<1>6. ASSUME NEW e \in Calls, LoadFails(e) PROVE IInv'
  BY <1>6, LoadFailsKeeps
<1>7. ASSUME NEW e \in Calls, FreeSlot(e) PROVE IInv'
  BY <1>7, FreeSlotKeeps
<1>8. ASSUME NEW c \in Calls, Deliver(c) PROVE IInv'
  BY <1>8, DeliverKeeps
<1>9. ASSUME NEW c \in Calls, AbortAcquire(c) PROVE IInv'
  BY <1>9, AbortAcquireKeeps
<1>10. ASSUME NEW c \in Calls, AbortUncached(c) PROVE IInv'
  BY <1>10, AbortUncachedKeeps
<1>11. ASSUME NEW c \in Calls, Release(c) PROVE IInv'
  BY <1>11, ReleaseKeeps
<1>12. ASSUME NEW k \in Keys, Evict(k) PROVE IInv'
  BY <1>12, EvictKeeps
<1>13. CASE UNCHANGED vars
  BY <1>13 DEF vars, IInv
<1> QED BY <1>1, <1>2, <1>3, <1>4, <1>5, <1>6, <1>7, <1>8, <1>9, <1>10, <1>11, <1>12, <1>13 DEF Next

\* IInv holds in every reachable state.
LEMMA Invariant == Spec => []IInv
BY InitHolds, NextHolds, PTL DEF Spec

\* The two byte counters are exactly the bytes held, and together they never
\* exceed the capacity, whatever is aborted, evicted or started at the same time
\* (#usedBytes, #reservedBytes, #evictUntilAvailable).
THEOREM BudgetHolds == Spec => []BudgetIsExact
<1>1. IInv => BudgetIsExact
  BY DEF IInv, CacheOK, Counted, Within, Retained, Running, BudgetIsExact, TypeOK,
         CallersOK, CallStates
<1> QED BY <1>1, Invariant, PTL

\* Every pin and every waiter belongs to a caller, and every such caller is
\* counted (#releaseLoadingWaiter, #releaseReadyPin).
THEOREM PinsHold == Spec => []PinsAreHolders
<1>1. IInv => PinsAreHolders
  <2> SUFFICES ASSUME IInv, NEW e \in Calls, cache.entry[e].key # None
               PROVE  /\ Loading(cache, e) => cache.entry[e].waiters = Cardinality(Holders(call, e))
                      /\ cache.entry[e].phase = "ready" =>
                           cache.entry[e].pins = Cardinality(Holders(call, e))
                      /\ cache.entry[e].pins > 0 => cache.entry[e].retained
    BY DEF PinsAreHolders, Holders
  <2>1. HeldOK(cache, call, e) /\ EntryOK(cache, e)
    BY DEF IInv, CallersOK, CacheOK, EntriesOK
  <2> QED BY <2>1 DEF HeldOK, EntryOK
<1> QED BY <1>1, Invariant, PTL

\* The map offers an entry exactly as long as it can still be used (#deleteEntry,
\* #removeReady, evict()).
THEOREM MapHolds == Spec => []MapOffersTheLiving
<1>1. IInv => MapOffersTheLiving
  BY DEF IInv, CacheOK, EntriesOK, EntryOK, MapOffersTheLiving
<1> QED BY <1>1, Invariant, PTL

\* The load slots are the executions that have not settled, at most the limit,
\* and nothing waits beside a free one (#pumpLoads, #removeQueued).
THEOREM SlotsHold == Spec => []SlotsAndQueue
<1>1. IInv => SlotsAndQueue
  <2> SUFFICES ASSUME IInv PROVE SlotsAndQueue
    OBVIOUS
  <2>1. /\ Counted(cache) /\ Within(cache) /\ QueueOK(cache) /\ EntriesOK(cache)
        /\ NoneIdle(cache) /\ cache.queue \in Seq(Calls)
    BY DEF IInv, CacheOK, Caches
  <2>2. /\ cache.activeLoads = Cardinality({e \in Calls: cache.entry[e].slot})
        /\ cache.activeLoads <= MaxConcurrentLoads
    BY <2>1 DEF Counted, Slots, Within
  <2>3. \A e \in Calls: cache.entry[e].phase = "running" => cache.entry[e].slot
    BY <2>1 DEF EntriesOK, EntryOK
  <2>4. IsInjective(cache.queue)
    BY <2>1 DEF QueueOK, IsInjective
  <2>5. ToSet(cache.queue) = {e \in Calls: cache.entry[e].phase = "queued"}
    <3>1. \A i \in DOMAIN cache.queue: cache.queue[i] \in Calls
      BY <2>1
    <3> QED BY <2>1, <3>1 DEF QueueOK, ToSet
  <2> QED BY <2>1, <2>2, <2>3, <2>4, <2>5 DEF NoneIdle, SlotsAndQueue
<1> QED BY <1>1, Invariant, PTL

\* A caller that asked to wait for the load it aborts is not answered while the
\* load runs (settleOnAbort).
THEOREM SettleHolds == Spec => SettleOnAbort
<1> DEFINE Settled(c) ==
      call[c].state \in {"waiting", "settling"} /\ call'[c].state = "rejected" =>
        \/ c \notin SettleCalls
        \/ cache.entry[call[c].entry].key = None
        \/ cache.entry[call[c].entry].phase # "running"
<1>1. IInv /\ [Next]_vars => [\A c \in Calls: Settled(c)]_vars
  <2> SUFFICES ASSUME IInv, Next, NEW c \in Calls, call[c].state \in {"waiting", "settling"},
                      call'[c].state = "rejected"
               PROVE  \/ c \notin SettleCalls
                      \/ cache.entry[call[c].entry].key = None
                      \/ cache.entry[call[c].entry].phase # "running"
    BY DEF vars
  <2>1. call \in [Calls -> CallStates]
    BY DEF IInv, CallersOK
  \* Only a step of c itself changes what c knows.
  <2>2. ASSUME NEW x \in Calls, NEW w, call' = [call EXCEPT ![x] = w] PROVE x = c
    <3>1. x # c => call'[c] = call[c]
      BY <2>1, <2>2
    <3> QED BY <3>1
  <2>3. ASSUME NEW x \in Calls, NEW state, Goes(x, state) PROVE x = c /\ state = "rejected"
    <3>1. call' = [call EXCEPT ![x] = [call[x] EXCEPT !.state = state]] /\ call[x] \in CallStates
      BY <2>1, <2>3 DEF Goes
    <3>2. x = c
      BY <2>2, <3>1
    <3>3. call'[c] = [call[c] EXCEPT !.state = state] /\ call[c] \in CallStates
      BY <2>1, <3>1, <3>2
    <3> QED BY <3>2, <3>3 DEF CallStates
  <2>4. ASSUME NEW x \in Calls, NEW e, Waits(x, e) PROVE FALSE
    <3>1. call' = [call EXCEPT ![x] = [state |-> "waiting", entry |-> e]]
      BY <2>4 DEF Waits
    <3>2. x = c
      BY <2>2, <3>1
    <3>3. call'[c] = [state |-> "waiting", entry |-> e]
      BY <2>1, <3>1, <3>2
    <3> QED BY <3>3
  <2>5. ASSUME NEW x \in Calls, NEW k \in Keys, AcquireHit(x, k) PROVE FALSE
    <3>1. /\ call[x].state = "idle"
          /\ call' = [call EXCEPT ![x].state = "leased", ![x].entry = cache.map[k]]
      BY <2>5 DEF AcquireHit
    <3>2. call' = [call EXCEPT ![x] = [call[x] EXCEPT !.state = "leased", !.entry = cache.map[k]]]
      BY <2>1, <3>1 DEF CallStates
    <3> QED BY <2>2, <3>1, <3>2
  <2>6. ASSUME NEW x \in Calls, NEW k \in Keys, AcquireJoin(x, k) PROVE FALSE
    BY <2>4, <2>6 DEF AcquireJoin
  <2>7. ASSUME NEW x \in Calls, NEW k \in Keys, AcquireCold(x, k) PROVE FALSE
    BY <2>3, <2>4, <2>7 DEF AcquireCold
  <2>8. ASSUME NEW x \in Calls, RunUncached(x) PROVE FALSE
    BY <2>3, <2>4, <2>8 DEF RunUncached
  <2>9. ASSUME call' = call PROVE FALSE
    BY <2>9
  <2>10. ASSUME NEW x \in Calls, Deliver(x)
         PROVE  cache.entry[call[c].entry].phase # "running"
    <3>1. ~Loading(cache, call[x].entry) /\ \E state: Goes(x, state)
      BY <2>10 DEF Deliver
    <3> QED BY <2>3, <3>1 DEF Loading
  <2>11. ASSUME NEW x \in Calls, AbortAcquire(x)
         PROVE  c \notin SettleCalls \/ cache.entry[call[c].entry].phase # "running"
    <3> DEFINE state == IF x \in SettleCalls /\ cache.entry[call[x].entry].phase = "running"
                        THEN "settling" ELSE "rejected"
    <3>1. Goes(x, state)
      BY <2>11 DEF AbortAcquire
    <3>2. x = c /\ state = "rejected"
      <4> HIDE DEF state
      <4> QED BY <2>3, <3>1
    <3> QED BY <3>2
  <2>12. ASSUME NEW x \in Calls, AbortUncached(x)
         PROVE  cache.entry[call[c].entry].key = None
    BY <2>3, <2>12 DEF AbortUncached
  <2>13. ASSUME NEW x \in Calls, Release(x) PROVE FALSE
    BY <2>3, <2>13 DEF Release
  <2> QED BY <2>5, <2>6, <2>7, <2>8, <2>9, <2>10, <2>11, <2>12, <2>13
          DEF Next, Loaded, LoadFails, FreeSlot, Evict
<1> QED BY <1>1, Invariant, PTL DEF Spec, SettleOnAbort
=============================================================================
