--------------------------- MODULE PublishedData ---------------------------
(* What readers of the workspace are promised                               *)
(* (docs/v2/TECHNICAL-DESIGN.md 12.2-12.3): a dataset version becomes        *)
(* readable once and stays so, a cache key has at most one result, and refs  *)
(* and results only ever name versions that can be read.                     *)
CONSTANTS Versions, Keys, Names, None

VARIABLES
  readable,  \* the versions whose bytes every reader gets
  results,   \* results[k]: the version the transform of cache key k produced
  pointers   \* pointers[n]: the version a ref names, in the trash or not

pvars == <<readable, results, pointers>>

PInit ==
  /\ readable = {}
  /\ results = [k \in Keys |-> None]
  /\ pointers = [n \in Names |-> None]

Publish(v) ==
  /\ readable' = readable \cup {v}
  /\ UNCHANGED <<results, pointers>>

Conclude(k, v) ==
  /\ results[k] = None
  /\ readable' = readable \cup {v}
  /\ results' = [results EXCEPT ![k] = v]
  /\ UNCHANGED pointers

Point(n, v) ==
  /\ v \in readable
  /\ pointers' = [pointers EXCEPT ![n] = v]
  /\ UNCHANGED <<readable, results>>

PNext == \E v \in Versions:
  \/ Publish(v)
  \/ \E k \in Keys: Conclude(k, v)
  \/ \E n \in Names: Point(n, v)

PSpec == PInit /\ [][PNext]_pvars
=============================================================================
