------------------------------ MODULE AtomicFile ------------------------------
(***************************************************************************)
(* What a store of brazen's promises for one file (a credential, a model   *)
(* list, a replay entry): whoever reads it gets a whole value, the one     *)
(* stored when the read began; a put that reports success stored its own   *)
(* value at that moment; one that fails or dies stored nothing; and a      *)
(* power loss undoes stores but tears none.                                *)
(***************************************************************************)
CONSTANTS Procs, Values, Nothing, Closed

VARIABLES
    stored,    \* the value, or Nothing
    durable,   \* the value a power loss may bring back
    putting,   \* per process: the value it is storing, or Nothing
    outcome,   \* per process: how its last put ended
    picked,    \* per process: what its read will return, or Closed
    seen       \* per process: what its last read returned

vars == <<stored, durable, putting, outcome, picked, seen>>

Init ==
    /\ stored = Nothing /\ durable = Nothing
    /\ putting = [p \in Procs |-> Nothing]
    /\ outcome = [p \in Procs |-> "none"]
    /\ picked = [p \in Procs |-> Closed]
    /\ seen = [p \in Procs |-> Nothing]

Begin(p, v) ==
    /\ putting[p] = Nothing
    /\ putting' = [putting EXCEPT ![p] = v]
    /\ outcome' = [outcome EXCEPT ![p] = "pending"]
    /\ UNCHANGED <<stored, durable, picked, seen>>

Store(p) ==
    /\ putting[p] # Nothing
    /\ stored' = putting[p]
    /\ putting' = [putting EXCEPT ![p] = Nothing]
    /\ outcome' = [outcome EXCEPT ![p] = "ok"]
    /\ UNCHANGED <<durable, picked, seen>>

Fail(p) ==
    /\ putting[p] # Nothing
    /\ putting' = [putting EXCEPT ![p] = Nothing]
    /\ \E o \in {"error", "died"} : outcome' = [outcome EXCEPT ![p] = o]
    /\ UNCHANGED <<stored, durable, picked, seen>>

Open(p) ==
    /\ picked[p] = Closed
    /\ picked' = [picked EXCEPT ![p] = stored]
    /\ UNCHANGED <<stored, durable, putting, outcome, seen>>

Return(p) ==
    /\ picked[p] # Closed
    /\ seen' = [seen EXCEPT ![p] = picked[p]]
    /\ picked' = [picked EXCEPT ![p] = Closed]
    /\ UNCHANGED <<stored, durable, putting, outcome>>

\* A read of nothing is over at once.
Miss(p) ==
    /\ picked[p] = Closed /\ stored = Nothing
    /\ seen' = [seen EXCEPT ![p] = Nothing]
    /\ UNCHANGED <<stored, durable, putting, outcome, picked>>

Evict == stored' = Nothing /\ UNCHANGED <<durable, putting, outcome, picked, seen>>

Flush == durable' = stored /\ UNCHANGED <<stored, putting, outcome, picked, seen>>

PowerLoss ==
    /\ stored' \in {stored, durable} /\ durable' = stored'
    /\ putting' = [p \in Procs |-> Nothing]
    /\ outcome' = [p \in Procs |-> IF putting[p] = Nothing THEN outcome[p] ELSE "died"]
    /\ picked' = [p \in Procs |-> Closed]
    /\ UNCHANGED seen

Next ==
    \/ \E p \in Procs :
          \/ \E v \in Values : Begin(p, v)
          \/ Store(p) \/ Fail(p) \/ Open(p) \/ Return(p) \/ Miss(p)
    \/ Evict \/ Flush \/ PowerLoss

Spec == Init /\ [][Next]_vars
==============================================================================
