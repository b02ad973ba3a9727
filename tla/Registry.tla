------------------------------ MODULE Registry ------------------------------
(***************************************************************************)
(* What the operation registry promises (spec.md, Operation Registry and   *)
(* the single-flight drain): one slot per operation key; a slot goes from  *)
(* empty to occupied only when a trigger acquires the single-flight guard, *)
(* and from occupied to empty only when the drain routes the outcome of    *)
(* the task it holds; no other transition exists, a task keeps the client  *)
(* it was spawned on for as long as it holds the slot, and routing one    *)
(* key touches no other slot except through a follow-up trigger.           *)
(***************************************************************************)
EXTENDS Naturals

CONSTANTS
    Keys,     \* operation keys
    Clients   \* the clients a task can capture (0, no client, is not one)

VARIABLES
    holder,    \* holder[k]: the client of the task in slot k, 0 when empty
    spawned,   \* history: tasks spawned per key
    delivered  \* history: outcomes routed per key

rvars == <<holder, spawned, delivered>>

(* The slots of S are empty, so a trigger on each of them spawns.          *)
Free(S) == \A k \in S : holder[k] = 0

(* The slots of S receive a task on client g; the other slots keep theirs. *)
Fill(S, g) == [k \in Keys |-> IF k \in S THEN g ELSE holder[k]]
Bump(c, S) == [k \in Keys |-> IF k \in S THEN c[k] + 1 ELSE c[k]]

Init ==
    /\ holder = [k \in Keys |-> 0]
    /\ spawned = [k \in Keys |-> 0]
    /\ delivered = [k \in Keys |-> 0]

(* Triggers on the empty slots S spawn tasks on client g (connect() fills *)
(* several at once).                                                       *)
Spawn(S, g) ==
    /\ S # {}
    /\ Free(S)
    /\ holder' = Fill(S, g)
    /\ spawned' = Bump(spawned, S)
    /\ UNCHANGED delivered

(* The drain routes the outcome of the task in slot k, clears the slot,    *)
(* and the handler may trigger the empty slots S on client g.              *)
Route(k, S, g) ==
    /\ holder[k] # 0
    /\ k \notin S
    /\ Free(S)
    /\ holder' = [Fill(S, g) EXCEPT ![k] = 0]
    /\ spawned' = Bump(spawned, S)
    /\ delivered' = [delivered EXCEPT ![k] = @ + 1]

Next ==
    \E g \in Clients, S \in SUBSET Keys :
        \/ Spawn(S, g)
        \/ \E k \in Keys : Route(k, S, g)

Spec == Init /\ [][Next]_rvars

=============================================================================
