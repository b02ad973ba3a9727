------------------------------- MODULE OneShot -------------------------------
(***************************************************************************)
(* What a task handle promises (the contract of task.rs ChannelTaskHandle  *)
(* on both targets): the task completes at most once with an outcome, and  *)
(* try_take answers None until then, the outcome the first time after     *)
(* that, and None ever after.  One handle per key.                         *)
(***************************************************************************)
CONSTANTS Keys, Outcomes, NoOutcome

VARIABLES
    st,   \* "Pending", "Done" (outcome not yet taken) or "Taken"
    out,  \* the outcome of the task, NoOutcome before it completes
    got   \* the answer of the last try_take: "NoCall", "None" or an outcome

Init ==
    /\ st = [k \in Keys |-> "Pending"]
    /\ out = [k \in Keys |-> NoOutcome]
    /\ got = [k \in Keys |-> "NoCall"]

Complete(k, o) ==
    /\ st[k] = "Pending"
    /\ st' = [st EXCEPT ![k] = "Done"]
    /\ out' = [out EXCEPT ![k] = o]
    /\ UNCHANGED got

TakeNone(k) ==
    /\ st[k] # "Done"
    /\ got' = [got EXCEPT ![k] = "None"]
    /\ UNCHANGED <<st, out>>

Take(k) ==
    /\ st[k] = "Done"
    /\ st' = [st EXCEPT ![k] = "Taken"]
    /\ got' = [got EXCEPT ![k] = out[k]]
    /\ UNCHANGED out

Next == \E k \in Keys : TakeNone(k) \/ Take(k) \/ \E o \in Outcomes : Complete(k, o)

(* The safety part of the contract: only these steps ever happen.        *)
SafetySpec == Init /\ [][Next]_<<st, out, got>>

(* A completed outcome is taken as long as the handle is polled; nothing  *)
(* makes a task complete.                                                 *)
Spec == Init /\ [][Next]_<<st, out, got>> /\ \A k \in Keys : WF_<<st, out, got>>(Take(k))

=============================================================================
