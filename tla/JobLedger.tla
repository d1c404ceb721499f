------------------------------ MODULE JobLedger ------------------------------
(***************************************************************************)
(* What the batch transform service promises its users: a submitted job    *)
(* waits, works alone in the one batch slot, and is done with a result     *)
(* that never changes, or stops.  A stopped job keeps the slot until it is *)
(* released, and may be asked for again only after that.                   *)
(***************************************************************************)
CONSTANTS Jobs, Versions, None

VARIABLES
    phase,   \* phase[j]: where job j stands
    result,  \* result[j]: the dataset version j produced, or None
    slot     \* the job the batch slot belongs to, or None

ledger == <<phase, result, slot>>

Phases == {"absent", "waiting", "working", "done", "stopped"}

Move(j, from, to) == phase[j] \in from /\ phase' = [phase EXCEPT ![j] = to]

Init ==
    /\ phase = [j \in Jobs |-> "absent"]
    /\ result = [j \in Jobs |-> None]
    /\ slot = None

Submit(j) == Move(j, {"absent"}, "waiting") /\ UNCHANGED <<result, slot>>

\* The result is already known: no work is done for it.
Hit(j, v) ==
    /\ Move(j, {"absent", "waiting"}, "done")
    /\ result' = [result EXCEPT ![j] = v]
    /\ slot' = slot

Start(j) ==
    /\ slot = None
    /\ Move(j, {"waiting"}, "working")
    /\ slot' = j
    /\ result' = result

Deliver(j, v) ==
    /\ slot = j
    /\ Move(j, {"working"}, "done")
    /\ result' = [result EXCEPT ![j] = v]
    /\ slot' = None

Stop(j) == Move(j, {"waiting", "working"}, "stopped") /\ UNCHANGED <<result, slot>>

Release(j) ==
    /\ slot = j /\ phase[j] = "stopped"
    /\ slot' = None
    /\ UNCHANGED <<phase, result>>

Again(j) ==
    /\ slot # j
    /\ Move(j, {"stopped"}, "waiting")
    /\ UNCHANGED <<result, slot>>

Next ==
    \E j \in Jobs :
        \/ Submit(j) \/ Start(j) \/ Stop(j) \/ Release(j) \/ Again(j)
        \/ \E v \in Versions : Hit(j, v) \/ Deliver(j, v)

Spec == Init /\ [][Next]_ledger
==============================================================================
