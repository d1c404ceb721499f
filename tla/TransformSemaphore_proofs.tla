---------------------- MODULE TransformSemaphore_proofs ----------------------
(* For any set of calls and any limits: the gate counts its slots, never       *)
(* passes its limit and never leaves a slot idle while a call waits.           *)
EXTENDS TransformSemaphore, FiniteSetTheorems, SequenceTheorems, TLAPS

(* The bookkeeping of the gate as a relation between a queue, a count, the     *)
(* takers of slots, the phases and the operations, so that it can be said of   *)
(* the state before a step, after it, and of the arguments of Pump.            *)
Takers(taken) == {c \in Calls: taken[c]}

Booked(w, n, taken, ph, op) ==
  /\ IsFiniteSet(Takers(taken)) /\ n = Cardinality(Takers(taken))
  /\ n <= MaxConcurrentRuns
  /\ \A i, j \in DOMAIN w: w[i] = w[j] => i = j
  /\ \A c \in Calls: ph[c] = "queued" <=> \E i \in DOMAIN w: w[i] = c
  /\ \A c \in Calls: /\ taken[c] => ph[c] \in {"running", "settled"}
                     /\ ph[c] = "running" => taken[c]
                     /\ op[c] = "running" => ph[c] = "running"

NoneIdle(w, n) == (w # <<>> => n = MaxConcurrentRuns) /\ Len(w) <= MaxPendingRuns

IInv == /\ TypeOK
        /\ Booked(queue, activeRuns, slot, phase, operation)
        /\ NoneIdle(queue, activeRuns)

LEMMA TakersCount ==
  ASSUME NEW taken \in [Calls -> BOOLEAN], NEW c \in Calls, IsFiniteSet(Takers(taken))
  PROVE  /\ ~taken[c] =>
              /\ IsFiniteSet(Takers([taken EXCEPT ![c] = TRUE]))
              /\ Cardinality(Takers([taken EXCEPT ![c] = TRUE])) = Cardinality(Takers(taken)) + 1
         /\ taken[c] =>
              /\ IsFiniteSet(Takers([taken EXCEPT ![c] = FALSE]))
              /\ Cardinality(Takers([taken EXCEPT ![c] = FALSE])) = Cardinality(Takers(taken)) - 1
<1>1. ASSUME ~taken[c]
      PROVE  Takers([taken EXCEPT ![c] = TRUE]) = Takers(taken) \cup {c} /\ c \notin Takers(taken)
  BY <1>1 DEF Takers
<1>2. ASSUME taken[c]
      PROVE  Takers([taken EXCEPT ![c] = FALSE]) = Takers(taken) \ {c} /\ c \in Takers(taken)
  BY <1>2 DEF Takers
<1>3. Cardinality(Takers(taken)) \in Nat
  BY FS_CardinalityType
<1>4. CASE taken[c]
  <2>1. Cardinality(Takers(taken) \ {c}) = Cardinality(Takers(taken)) - 1 /\ IsFiniteSet(Takers(taken) \ {c})
    BY <1>2, <1>4, FS_RemoveElement
  <2> QED BY <1>2, <1>4, <2>1
<1>5. CASE ~taken[c]
  <2>1. Cardinality(Takers(taken) \cup {c}) = Cardinality(Takers(taken)) + 1 /\ IsFiniteSet(Takers(taken) \cup {c})
    BY <1>1, <1>5, FS_AddElement
  <2> QED BY <1>1, <1>5, <2>1
<1> QED BY <1>4, <1>5

\* Splicing one entry out of the queue.
LEMMA RemoveAtKeepsOthers ==
  ASSUME NEW w \in Seq(Calls), NEW i \in DOMAIN w
  PROVE  /\ RemoveAt(w, i) \in Seq(Calls)
         /\ Len(RemoveAt(w, i)) = Len(w) - 1
         /\ \A j \in 1..(Len(w) - 1):
              RemoveAt(w, i)[j] = IF j < i THEN w[j] ELSE w[j + 1]
<1> DEFINE a == SubSeq(w, 1, i - 1)
           b == SubSeq(w, i + 1, Len(w))
<1>1. Len(w) \in Nat /\ i \in 1..Len(w) /\ i \in Nat
  OBVIOUS
<1>2. a \in Seq(Calls) /\ Len(a) = i - 1 /\ \A j \in 1..(i - 1): a[j] = w[j]
  BY <1>1
<1>3. b \in Seq(Calls) /\ Len(b) = Len(w) - i /\ \A j \in 1..(Len(w) - i): b[j] = w[i + j]
  BY <1>1
<1> HIDE DEF a, b
<1>4. a \o b \in Seq(Calls) /\ Len(a \o b) = Len(w) - 1
  BY <1>1, <1>2, <1>3
<1>5. ASSUME NEW j \in 1..(Len(w) - 1)
      PROVE  (a \o b)[j] = IF j < i THEN w[j] ELSE w[j + 1]
  <2>1. CASE j < i
    BY <1>1, <1>2, <1>3, <2>1
  <2>2. CASE ~(j < i)
    <3>1. (a \o b)[j] = b[j - (i - 1)]
      BY <1>1, <1>2, <1>3, <2>2, SMTT(30)
    <3>2. j - (i - 1) \in 1..(Len(w) - i) /\ i + (j - (i - 1)) = j + 1
      BY <1>1, <2>2
    <3>3. b[j - (i - 1)] = w[j + 1]
      BY <1>3, <3>2
    <3> QED BY <2>2, <3>1, <3>3
  <2> QED BY <2>1, <2>2
<1>6. RemoveAt(w, i) = a \o b
  BY DEF RemoveAt, a, b
<1> QED BY <1>4, <1>5, <1>6

(* Pump keeps the books, starts a call whenever it may, and makes room.        *)
LEMMA PumpKeepsBooks ==
  ASSUME LimitsArePositive,
         NEW w \in Seq(Calls), NEW n \in Nat,
         NEW taken \in [Calls -> BOOLEAN], NEW ph \in [Calls -> Phases],
         operation \in [Calls -> {"none", "running", "succeeded", "failed"}],
         Booked(w, n, taken, ph, operation),
         n < MaxConcurrentRuns => Len(w) <= 1 \/ n = MaxConcurrentRuns - 1,
         Len(w) <= IF n < MaxConcurrentRuns THEN MaxPendingRuns + 1 ELSE MaxPendingRuns,
         Pump(w, n, taken, ph)
  PROVE  /\ queue' \in Seq(Calls) /\ activeRuns' \in Nat
         /\ slot' \in [Calls -> BOOLEAN] /\ phase' \in [Calls -> Phases]
         /\ operation' \in [Calls -> {"none", "running", "succeeded", "failed"}]
         /\ Booked(queue', activeRuns', slot', phase', operation')
         /\ NoneIdle(queue', activeRuns')
<1>1. CASE n < MaxConcurrentRuns /\ w # <<>>
  <2> DEFINE h == Head(w)
  <2>1. /\ h \in Calls /\ h = w[1] /\ 1 \in DOMAIN w /\ Len(w) \in Nat /\ Len(w) >= 1
        /\ Tail(w) \in Seq(Calls) /\ Len(Tail(w)) = Len(w) - 1
        /\ \A i \in DOMAIN Tail(w): Tail(w)[i] = w[i + 1] /\ i + 1 \in DOMAIN w
    BY <1>1
  <2>2. /\ queue' = Tail(w) /\ activeRuns' = n + 1
        /\ slot' = [taken EXCEPT ![h] = TRUE] /\ phase' = [ph EXCEPT ![h] = "running"]
        /\ operation' = [operation EXCEPT ![h] = "running"]
    BY <1>1 DEF Pump
  <2> HIDE DEF h
  <2>3. ph[h] = "queued" /\ ~taken[h]
    BY <2>1 DEF Booked
  <2>4. /\ IsFiniteSet(Takers(slot')) /\ Cardinality(Takers(slot')) = n + 1
    BY <2>1, <2>2, <2>3, TakersCount DEF Booked
  <2>5. \A i, j \in DOMAIN queue': queue'[i] = queue'[j] => i = j
    BY <2>1, <2>2 DEF Booked
  <2>6. \A c \in Calls: phase'[c] = "queued" <=> \E i \in DOMAIN queue': queue'[i] = c
    <3> SUFFICES ASSUME NEW c \in Calls
                 PROVE  phase'[c] = "queued" <=> \E i \in DOMAIN queue': queue'[i] = c
      OBVIOUS
    <3>1. CASE c = h
      <4>1. \A i \in DOMAIN Tail(w): Tail(w)[i] # h
        BY <2>1 DEF Booked
      <4> QED BY <3>1, <4>1, <2>2
    <3>2. CASE c # h
      <4>1. ph[c] = "queued" <=> \E i \in DOMAIN w: w[i] = c
        BY DEF Booked
      <4>2. ASSUME NEW i \in DOMAIN w, w[i] = c PROVE i - 1 \in DOMAIN Tail(w) /\ Tail(w)[i - 1] = c
        BY <4>2, <3>2, <2>1
      <4>3. phase'[c] = ph[c]
        BY <2>2, <3>2
      <4> QED BY <4>1, <4>2, <4>3, <2>1, <2>2
    <3> QED BY <3>1, <3>2
  <2>7. \A c \in Calls: /\ slot'[c] => phase'[c] \in {"running", "settled"}
                        /\ phase'[c] = "running" => slot'[c]
                        /\ operation'[c] = "running" => phase'[c] = "running"
    BY <2>1, <2>2 DEF Booked
  <2>8. Booked(queue', activeRuns', slot', phase', operation')
    BY <1>1, <2>2, <2>4, <2>5, <2>6, <2>7, LimitsArePositive DEF Booked
  <2>9. NoneIdle(queue', activeRuns')
    BY <1>1, <2>1, <2>2, LimitsArePositive DEF NoneIdle
  <2> QED BY <2>1, <2>2, <2>8, <2>9 DEF Phases
<1>2. CASE ~(n < MaxConcurrentRuns /\ w # <<>>)
  <2>1. queue' = w /\ activeRuns' = n /\ slot' = taken /\ phase' = ph /\ operation' = operation
    BY <1>2 DEF Pump
  <2>2. NoneIdle(w, n)
    BY <1>2, LimitsArePositive DEF NoneIdle, Booked
  <2> QED BY <2>1, <2>2
<1> QED BY <1>1, <1>2

-----------------------------------------------------------------------------
LEMMA InitKeeps == ASSUME Init PROVE IInv
<1>1. Takers(slot) = {}
  BY DEF Init, Takers
<1>2. IsFiniteSet(Takers(slot)) /\ Cardinality(Takers(slot)) = 0
  BY <1>1, FS_EmptySet
<1> QED BY <1>2, LimitsArePositive DEF Init, IInv, TypeOK, Phases, Booked, NoneIdle

\* The steps that touch neither the queue nor the slots.
LEMMA QuietStepKeeps ==
  ASSUME IInv, NEW c \in Calls,
         Lease(c) \/ Refuse(c) \/ OperationEnds(c) \/ Settle(c) \/ Return(c)
  PROVE  IInv'
<1>1. queue' = queue /\ activeRuns' = activeRuns /\ slot' = slot
  BY DEF Lease, Refuse, OperationEnds, Settle, Return
<1>2. TypeOK'
  <2>1. CASE Lease(c)
    BY <2>1 DEF IInv, TypeOK, Phases, Lease
  <2>2. CASE Refuse(c)
    BY <2>2 DEF IInv, TypeOK, Phases, Refuse
  <2>3. CASE OperationEnds(c)
    BY <2>3 DEF IInv, TypeOK, Phases, OperationEnds
  <2>4. CASE Settle(c)
    BY <2>4 DEF IInv, TypeOK, Phases, Settle
  <2>5. CASE Return(c)
    BY <2>5 DEF IInv, TypeOK, Phases, Return
  <2> QED BY <2>1, <2>2, <2>3, <2>4, <2>5
<1>3. \A d \in Calls:
        /\ phase'[d] = "queued" <=> phase[d] = "queued"
        /\ slot'[d] => phase'[d] \in {"running", "settled"}
        /\ phase'[d] = "running" => slot'[d]
        /\ operation'[d] = "running" => phase'[d] = "running"
  BY SMTT(30) DEF IInv, TypeOK, Booked, Lease, Refuse, OperationEnds, Settle, Return
<1> QED BY <1>1, <1>2, <1>3 DEF IInv, Booked, NoneIdle, Takers

LEMMA SubmitKeeps ==
  ASSUME IInv, NEW c \in Calls, Submit(c)
  PROVE  IInv'
<1> DEFINE w == Append(queue, c)
           ph == [phase EXCEPT ![c] = "queued"]
<1>1. /\ w \in Seq(Calls) /\ Len(w) = Len(queue) + 1 /\ w[Len(queue) + 1] = c
      /\ \A i \in 1..Len(queue): w[i] = queue[i]
  BY DEF IInv, TypeOK
<1>2. ph \in [Calls -> Phases] /\ ph[c] = "queued" /\ \A d \in Calls \ {c}: ph[d] = phase[d]
  BY DEF IInv, TypeOK, Phases
<1>3. Pump(w, activeRuns, slot, ph) /\ ~Full /\ phase[c] = "preparing"
  BY DEF Submit
<1> HIDE DEF w, ph
<1>4. \A i \in 1..Len(queue): queue[i] # c
  BY <1>3 DEF IInv, Booked
<1>5. \A i, j \in DOMAIN w: w[i] = w[j] => i = j
  BY <1>1, <1>4 DEF IInv, TypeOK, Booked
<1>6. \A d \in Calls: ph[d] = "queued" <=> \E i \in DOMAIN w: w[i] = d
  <2> SUFFICES ASSUME NEW d \in Calls
               PROVE  ph[d] = "queued" <=> \E i \in DOMAIN w: w[i] = d
    OBVIOUS
  <2>1. Len(queue) \in Nat /\ DOMAIN w = 1..(Len(queue) + 1) /\ DOMAIN queue = 1..Len(queue)
    BY <1>1 DEF IInv, TypeOK
  <2>2. CASE d = c
    BY <1>1, <1>2, <2>1, <2>2
  <2>3. CASE d # c
    <3>1. phase[d] = "queued" <=> \E i \in DOMAIN queue: queue[i] = d
      BY DEF IInv, Booked
    <3> QED BY <1>1, <1>2, <2>1, <2>3, <3>1
  <2> QED BY <2>2, <2>3
<1>7. Booked(w, activeRuns, slot, ph, operation)
  <2>1. \A d \in Calls: /\ slot[d] => ph[d] \in {"running", "settled"}
                        /\ ph[d] = "running" => slot[d]
                        /\ operation[d] = "running" => ph[d] = "running"
    BY <1>2, <1>3 DEF IInv, Booked
  <2> QED BY <1>5, <1>6, <2>1 DEF IInv, Booked
<1>8. /\ activeRuns < MaxConcurrentRuns => Len(w) <= 1
      /\ Len(w) <= IF activeRuns < MaxConcurrentRuns THEN MaxPendingRuns + 1 ELSE MaxPendingRuns
  BY <1>1, <1>3, LimitsArePositive DEF IInv, TypeOK, NoneIdle, Full
<1>9. /\ queue' \in Seq(Calls) /\ activeRuns' \in Nat
      /\ slot' \in [Calls -> BOOLEAN] /\ phase' \in [Calls -> Phases]
      /\ operation' \in [Calls -> {"none", "running", "succeeded", "failed"}]
      /\ Booked(queue', activeRuns', slot', phase', operation')
      /\ NoneIdle(queue', activeRuns')
  BY <1>1, <1>2, <1>3, <1>7, <1>8, PumpKeepsBooks, LimitsArePositive DEF IInv, TypeOK
<1> QED BY <1>9 DEF IInv, TypeOK, Submit, Booked, NoneIdle, Takers

LEMMA ReleaseKeeps ==
  ASSUME IInv, NEW c \in Calls, Release(c)
  PROVE  IInv'
<1> DEFINE taken == [slot EXCEPT ![c] = FALSE]
<1>1. slot[c] /\ phase[c] = "settled" /\ Pump(queue, activeRuns - 1, taken, phase)
  BY DEF Release
<1>2. taken \in [Calls -> BOOLEAN] /\ ~taken[c] /\ \A d \in Calls \ {c}: taken[d] = slot[d]
  BY DEF IInv, TypeOK
<1>3. /\ IsFiniteSet(Takers(taken)) /\ Cardinality(Takers(taken)) = activeRuns - 1
      /\ Cardinality(Takers(taken)) \in Nat
  BY <1>1, TakersCount, FS_CardinalityType DEF IInv, TypeOK, Booked
<1> HIDE DEF taken
<1>4. Booked(queue, activeRuns - 1, taken, phase, operation)
  <2>1. \A d \in Calls: /\ taken[d] => phase[d] \in {"running", "settled"}
                        /\ phase[d] = "running" => taken[d]
                        /\ operation[d] = "running" => phase[d] = "running"
    BY <1>1, <1>2 DEF IInv, Booked
  <2> QED BY <1>3, <2>1, LimitsArePositive DEF IInv, TypeOK, Booked
<1>5. /\ activeRuns - 1 \in Nat
      /\ activeRuns - 1 < MaxConcurrentRuns => Len(queue) <= 1 \/ activeRuns - 1 = MaxConcurrentRuns - 1
      /\ Len(queue) <= IF activeRuns - 1 < MaxConcurrentRuns THEN MaxPendingRuns + 1 ELSE MaxPendingRuns
  <2>1. activeRuns - 1 \in Nat /\ Len(queue) \in Nat
    BY <1>3 DEF IInv, TypeOK
  <2>2. queue = <<>> => Len(queue) = 0
    OBVIOUS
  <2>3. Len(queue) <= MaxPendingRuns /\ (queue # <<>> => activeRuns = MaxConcurrentRuns)
    BY DEF IInv, NoneIdle
  <2>4. activeRuns \in Nat /\ activeRuns <= MaxConcurrentRuns
    BY DEF IInv, TypeOK, Booked
  <2> QED BY <2>1, <2>2, <2>3, <2>4, LimitsArePositive
<1>6. /\ queue' \in Seq(Calls) /\ activeRuns' \in Nat
      /\ slot' \in [Calls -> BOOLEAN] /\ phase' \in [Calls -> Phases]
      /\ operation' \in [Calls -> {"none", "running", "succeeded", "failed"}]
      /\ Booked(queue', activeRuns', slot', phase', operation')
      /\ NoneIdle(queue', activeRuns')
  BY <1>1, <1>2, <1>4, <1>5, PumpKeepsBooks, LimitsArePositive DEF IInv, TypeOK
<1> QED BY <1>6 DEF IInv, TypeOK, Release, Booked, NoneIdle, Takers

LEMMA AbortKeeps ==
  ASSUME IInv, NEW c \in Calls, Abort(c)
  PROVE  IInv'
<1>1. CASE phase[c] # "queued"
  <2>1. queue' = queue /\ activeRuns' = activeRuns /\ slot' = slot /\ phase' = phase /\ operation' = operation
    BY <1>1 DEF Abort
  <2>2. TypeOK'
    BY <2>1 DEF IInv, TypeOK, Abort, Answer
  <2> QED BY <2>1, <2>2 DEF IInv, Booked, NoneIdle, Takers
<1>2. CASE phase[c] = "queued"
  <2>1. PICK i \in DOMAIN queue: queue[i] = c /\ queue' = RemoveAt(queue, i)
    BY <1>2 DEF Abort
  <2>2. /\ activeRuns' = activeRuns /\ slot' = slot /\ operation' = operation
        /\ phase' = [phase EXCEPT ![c] = "settled"]
    BY <1>2 DEF Abort
  <2>3. /\ queue' \in Seq(Calls) /\ Len(queue') = Len(queue) - 1 /\ Len(queue) \in Nat
        /\ i \in 1..Len(queue)
        /\ \A j \in 1..(Len(queue) - 1): queue'[j] = IF j < i THEN queue[j] ELSE queue[j + 1]
    BY <2>1, RemoveAtKeepsOthers DEF IInv, TypeOK
  <2>4. TypeOK'
    BY <1>2, <2>2, <2>3 DEF IInv, TypeOK, Phases, Abort, Answer
  <2>5. \A j, k \in DOMAIN queue': queue'[j] = queue'[k] => j = k
    <3>1. \A j, k \in 1..Len(queue): queue[j] = queue[k] => j = k
      BY <2>3 DEF IInv, Booked
    <3>2. SUFFICES ASSUME NEW j \in 1..(Len(queue) - 1), NEW k \in 1..(Len(queue) - 1),
                          queue'[j] = queue'[k]
                   PROVE  j = k
      BY <2>3
    <3>3. CASE j < i /\ k < i
      BY <2>3, <3>1, <3>2, <3>3
    <3>4. CASE j < i /\ ~(k < i)
      <4>1. queue[j] = queue[k + 1] /\ j \in 1..Len(queue) /\ k + 1 \in 1..Len(queue)
        BY <2>3, <3>2, <3>4
      <4> QED BY <3>1, <3>4, <4>1, <2>3
    <3>5. CASE ~(j < i) /\ k < i
      <4>1. queue[j + 1] = queue[k] /\ j + 1 \in 1..Len(queue) /\ k \in 1..Len(queue)
        BY <2>3, <3>2, <3>5
      <4> QED BY <3>1, <3>5, <4>1, <2>3
    <3>6. CASE ~(j < i) /\ ~(k < i)
      <4>1. queue[j + 1] = queue[k + 1] /\ j + 1 \in 1..Len(queue) /\ k + 1 \in 1..Len(queue)
        BY <2>3, <3>2, <3>6
      <4>2. j + 1 = k + 1
        BY <3>1, <4>1
      <4> QED BY <4>2
    <3> QED BY <3>3, <3>4, <3>5, <3>6
  <2>6. \A d \in Calls: phase'[d] = "queued" <=> \E j \in DOMAIN queue': queue'[j] = d
    <3> SUFFICES ASSUME NEW d \in Calls
                 PROVE  phase'[d] = "queued" <=> \E j \in DOMAIN queue': queue'[j] = d
      OBVIOUS
    <3>0. phase \in [Calls -> Phases] /\ DOMAIN queue' = 1..(Len(queue) - 1) /\ DOMAIN queue = 1..Len(queue)
      BY <2>3 DEF IInv, TypeOK
    <3>1. CASE d = c
      <4>1. \A j \in DOMAIN queue: queue[j] = c => j = i
        BY <2>1 DEF IInv, Booked
      <4>2. \A j \in DOMAIN queue': queue'[j] # c
        BY <2>3, <3>0, <4>1
      <4> QED BY <2>2, <3>0, <3>1, <4>2
    <3>2. CASE d # c
      <4>1. phase[d] = "queued" <=> \E j \in DOMAIN queue: queue[j] = d
        BY DEF IInv, Booked
      <4>2. ASSUME NEW j \in DOMAIN queue, queue[j] = d
            PROVE  \E k \in DOMAIN queue': queue'[k] = d
        <5>1. CASE j < i
          BY <2>3, <3>0, <4>2, <5>1
        <5>2. CASE j > i
          <6>1. j - 1 \in DOMAIN queue' /\ queue'[j - 1] = queue[j]
            BY <2>3, <3>0, <5>2
          <6> QED BY <4>2, <6>1
        <5>3. j # i
          BY <2>1, <3>2, <4>2
        <5> QED BY <2>3, <3>0, <5>1, <5>2, <5>3
      <4>3. ASSUME NEW k \in DOMAIN queue', queue'[k] = d
            PROVE  \E j \in DOMAIN queue: queue[j] = d
        BY <2>3, <3>0, <4>3
      <4>4. phase'[d] = phase[d]
        BY <2>2, <3>0, <3>2
      <4> QED BY <4>1, <4>2, <4>3, <4>4
    <3> QED BY <3>1, <3>2
  <2>7. \A d \in Calls: /\ slot'[d] => phase'[d] \in {"running", "settled"}
                        /\ phase'[d] = "running" => slot'[d]
                        /\ operation'[d] = "running" => phase'[d] = "running"
    BY <1>2, <2>2 DEF IInv, TypeOK, Booked
  <2>8. Booked(queue, activeRuns, slot, phase, operation)'
    BY <2>2, <2>5, <2>6, <2>7 DEF IInv, Booked, Takers
  <2>9. NoneIdle(queue, activeRuns)'
    BY <2>2, <2>3, LimitsArePositive DEF IInv, NoneIdle
  <2> QED BY <2>4, <2>8, <2>9 DEF IInv
<1> QED BY <1>1, <1>2

\* The inductive invariant.
THEOREM GateIsBooked == Spec => []IInv
<1>1. IInv /\ [Next]_vars => IInv'
  <2> SUFFICES ASSUME IInv, [Next]_vars PROVE IInv'
    OBVIOUS
  <2>1. CASE Next
    <3>1. PICK c \in Calls: \/ Lease(c) \/ Refuse(c) \/ Submit(c) \/ Abort(c)
                            \/ OperationEnds(c) \/ Settle(c) \/ Release(c) \/ Return(c)
      BY <2>1 DEF Next
    <3> QED BY <3>1, QuietStepKeeps, SubmitKeeps, AbortKeeps, ReleaseKeeps
  <2>2. CASE UNCHANGED vars
    BY <2>2 DEF vars, IInv, TypeOK, Booked, NoneIdle, Takers
  <2> QED BY <2>1, <2>2
<1> QED BY <1>1, InitKeeps, PTL DEF Spec

\* The count the gate decides on is the number of executions that still hold a
\* slot, and it never passes MaxConcurrentRuns (#pump and its finally callback).
THEOREM SlotLimit == Spec => []SlotsAreCounted
<1>1. IInv => SlotsAreCounted
  BY DEF IInv, Booked, SlotsAreCounted, Holders, Takers
<1> QED BY <1>1, GateIsBooked, PTL

\* No call waits while a slot is free; the queue holds exactly the waiting calls.
THEOREM WorkConserving == Spec => []NoIdleSlot
<1>1. IInv => NoIdleSlot
  BY DEF IInv, Booked, NoneIdle, NoIdleSlot
<1> QED BY <1>1, GateIsBooked, PTL

-----------------------------------------------------------------------------
(* Where a call may hold pins.  The last conjunct is what the release of a     *)
(* slot rests on.                                                              *)
Pinned == \A c \in Calls:
  /\ operation[c] = "running" => leased[c]
  /\ operation[c] \in {"succeeded", "failed"} => ~leased[c]
  /\ leased[c] /\ returned[c] => operation[c] = "running"
  /\ phase[c] \in {"preparing", "queued"} =>
       leased[c] /\ public[c] = "pending" /\ operation[c] = "none"
  /\ phase[c] = "idle" => ~leased[c] /\ public[c] = "pending" /\ operation[c] = "none"
  /\ returned[c] => public[c] # "pending"
  /\ phase[c] = "settled" /\ slot[c] => operation[c] \in {"succeeded", "failed"}

\* Pump changes the phase, the slot and the operation of a waiting call only.
LEMMA PumpStarts ==
  ASSUME NEW w \in Seq(Calls), NEW n, NEW taken \in [Calls -> BOOLEAN],
         NEW ph \in [Calls -> Phases],
         operation \in [Calls -> {"none", "running", "succeeded", "failed"}],
         \A i \in DOMAIN w: ph[w[i]] = "queued",
         Pump(w, n, taken, ph), NEW d \in Calls
  PROVE  \/ slot'[d] = taken[d] /\ phase'[d] = ph[d] /\ operation'[d] = operation[d]
         \/ /\ ph[d] = "queued"
            /\ slot'[d] /\ phase'[d] = "running" /\ operation'[d] = "running"
<1>1. CASE n < MaxConcurrentRuns /\ w # <<>>
  <2>1. Head(w) \in Calls /\ Head(w) = w[1] /\ 1 \in DOMAIN w
    BY <1>1
  <2> QED BY <1>1, <2>1 DEF Pump
<1>2. CASE ~(n < MaxConcurrentRuns /\ w # <<>>)
  BY <1>2 DEF Pump
<1> QED BY <1>1, <1>2

LEMMA PinnedKept ==
  ASSUME IInv, Pinned, NEW c \in Calls,
         \/ Lease(c) \/ Refuse(c) \/ Submit(c) \/ Abort(c)
         \/ OperationEnds(c) \/ Settle(c) \/ Release(c) \/ Return(c)
  PROVE  /\ Pinned'
         /\ \A d \in Calls: slot[d] /\ ~slot'[d] =>
              operation[d] \in {"succeeded", "failed"} /\ ~leased[d]
<1>0. /\ TypeOK
      /\ \A d \in Calls: phase[d] = "queued" <=> \E i \in DOMAIN queue: queue[i] = d
      /\ \A d \in Calls: slot[d] => phase[d] \in {"running", "settled"}
  BY DEF IInv, Booked
<1>1. CASE Lease(c) \/ Refuse(c) \/ OperationEnds(c) \/ Settle(c) \/ Return(c)
  BY <1>0, <1>1 DEF TypeOK, Phases, Pinned, Lease, Refuse, OperationEnds, Settle, Return
<1>2. CASE Abort(c)
  BY <1>0, <1>2 DEF TypeOK, Phases, Pinned, Abort, Answer
<1>3. CASE Submit(c)
  <2> DEFINE w == Append(queue, c)
             ph == [phase EXCEPT ![c] = "queued"]
  <2>1. w \in Seq(Calls) /\ ph \in [Calls -> Phases] /\ \A i \in DOMAIN w: ph[w[i]] = "queued"
    BY <1>0 DEF TypeOK, Phases
  <2>2. /\ ph[c] = "queued" /\ \A d \in Calls \ {c}: ph[d] = phase[d]
        /\ phase[c] = "preparing" /\ Pump(w, activeRuns, slot, ph)
        /\ UNCHANGED <<public, leased, returned>>
    BY <1>0, <1>3 DEF TypeOK, Submit
  <2> HIDE DEF w, ph
  <2>3. \A d \in Calls:
          \/ slot'[d] = slot[d] /\ phase'[d] = ph[d] /\ operation'[d] = operation[d]
          \/ ph[d] = "queued" /\ slot'[d] /\ phase'[d] = "running" /\ operation'[d] = "running"
    BY <1>0, <2>1, <2>2, PumpStarts DEF TypeOK
  <2>4. \A d \in Calls: slot'[d] \/ slot'[d] = slot[d]
    BY <2>3
  <2>5. ~slot[c]
    BY <1>0, <2>2
  <2> QED BY <2>2, <2>3, <2>4, <2>5 DEF Pinned
<1>4. CASE Release(c)
  <2> DEFINE taken == [slot EXCEPT ![c] = FALSE]
  <2>1. /\ taken \in [Calls -> BOOLEAN] /\ \A d \in Calls \ {c}: taken[d] = slot[d]
        /\ slot[c] /\ phase[c] = "settled" /\ Pump(queue, activeRuns - 1, taken, phase)
        /\ ~taken[c] /\ UNCHANGED <<public, leased, returned>>
    BY <1>0, <1>4 DEF TypeOK, Release
  <2> HIDE DEF taken
  <2>2. queue \in Seq(Calls) /\ \A i \in DOMAIN queue: queue[i] \in Calls /\ phase[queue[i]] = "queued"
    BY <1>0 DEF TypeOK
  <2>3. \A d \in Calls:
          \/ slot'[d] = taken[d] /\ phase'[d] = phase[d] /\ operation'[d] = operation[d]
          \/ phase[d] = "queued" /\ slot'[d] /\ phase'[d] = "running" /\ operation'[d] = "running"
    <3> DEFINE n == activeRuns - 1
    <3>1. Pump(queue, n, taken, phase)
      BY <2>1
    <3> HIDE DEF n
    <3>2. /\ phase \in [Calls -> Phases]
          /\ operation \in [Calls -> {"none", "running", "succeeded", "failed"}]
      BY <1>0 DEF TypeOK
    <3> QED BY <2>1, <2>2, <3>1, <3>2, PumpStarts
  <2> QED BY <2>1, <2>3 DEF Pinned
<1> QED BY <1>1, <1>2, <1>3, <1>4

\* The inductive invariant of the pins, with the books it rests on.
THEOREM PinsAreKept == Spec => [](IInv /\ Pinned)
<1>1. Init => Pinned
  BY DEF Init, Pinned
<1>2. IInv /\ Pinned /\ [Next]_vars => Pinned'
  <2>1. ASSUME IInv, Pinned, Next PROVE Pinned'
    BY <2>1, PinnedKept DEF Next
  <2>2. ASSUME Pinned, UNCHANGED vars PROVE Pinned'
    BY <2>2 DEF vars, Pinned
  <2> QED BY <2>1, <2>2
<1> QED BY <1>1, <1>2, GateIsBooked, PTL DEF Spec

\* The inputs of a running operation are pinned until it ends, and nobody else
\* holds a pin once the caller has its answer (runTransform).
THEOREM InputsStayPinned == Spec => []PinsFollowTheOperation
<1>1. Pinned => PinsFollowTheOperation
  BY DEF Pinned, PinsFollowTheOperation
<1> QED BY <1>1, PinsAreKept, PTL

\* No step takes a slot away from an operation that runs or still pins its
\* inputs, abandoned by its caller or not (the class comment of the semaphore).
THEOREM SlotsOutlive == Spec => SlotOutlivesOperation
<1>1. IInv /\ Pinned /\ [Next]_vars =>
        [\A c \in Calls: slot[c] /\ ~slot'[c] =>
           operation[c] \in {"succeeded", "failed"} /\ ~leased[c]]_vars
  BY PinnedKept DEF Next
<1> QED BY <1>1, PinsAreKept, PTL DEF Spec, SlotOutlivesOperation
=============================================================================
