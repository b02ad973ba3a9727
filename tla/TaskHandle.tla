------------------------------ MODULE TaskHandle ------------------------------
(***************************************************************************)
(* The task handles of task.rs, one per key, on either target.  Native:    *)
(* spawn_with_runtime runs the future on a tokio worker, which sends its   *)
(* outcome on an mpsc channel; try_take is try_recv.  Wasm: spawn_local    *)
(* runs the future on the event loop, which stores its outcome in a shared *)
(* Rc<RefCell<Option>>; try_take is take().  A future that panics drops    *)
(* its sender (native) or never writes the cell (wasm).                    *)
(***************************************************************************)
EXTENDS Sequences

CONSTANTS Keys, Outcomes, NoOutcome, Native

ASSUME TaskHandleAssumption ==
    /\ Native \in BOOLEAN
    /\ NoOutcome \notin Outcomes
    /\ "None" \notin Outcomes

VARIABLES
    task,  \* the spawned future: "Running", "Sent" (it published) or "Panicked"
    chan,  \* native: the messages queued in the mpsc channel
    cell,  \* wasm: the content of the shared cell, NoOutcome for None
    got,   \* the answer of the last try_take: "NoCall", "None" or an outcome
    sent   \* history: the outcome the future produced

vars == <<task, chan, cell, got, sent>>

(* spawn_with_runtime / spawn_local: a new channel or an empty cell. *)
Init ==
    /\ task = [k \in Keys |-> "Running"]
    /\ chan = [k \in Keys |-> <<>>]
    /\ cell = [k \in Keys |-> NoOutcome]
    /\ got = [k \in Keys |-> "NoCall"]
    /\ sent = [k \in Keys |-> NoOutcome]

(* The future returns: `let _ = tx.send(res)` or `*cell = Some(res)`. *)
Finish(k, o) ==
    /\ task[k] = "Running"
    /\ task' = [task EXCEPT ![k] = "Sent"]
    /\ sent' = [sent EXCEPT ![k] = o]
    /\ IF Native THEN /\ chan' = [chan EXCEPT ![k] = Append(@, o)]
                      /\ UNCHANGED cell
                 ELSE /\ cell' = [cell EXCEPT ![k] = o]
                      /\ UNCHANGED chan
    /\ UNCHANGED got

(* The future panics before it publishes. *)
Panic(k) ==
    /\ task[k] = "Running"
    /\ task' = [task EXCEPT ![k] = "Panicked"]
    /\ UNCHANGED <<chan, cell, got, sent>>

(* Mutant: a receive that returns the queued message without consuming it. *)
TryRecvPeek(k) ==
    /\ got' = [got EXCEPT ![k] = IF chan[k] # <<>> THEN Head(chan[k]) ELSE "None"]
    /\ UNCHANGED chan

(* Native try_take: try_recv; Err(Empty) and Err(Disconnected) are None. *)
TryRecv(k) ==
    IF chan[k] # <<>>
    THEN /\ got' = [got EXCEPT ![k] = Head(chan[k])]
         /\ chan' = [chan EXCEPT ![k] = Tail(@)]
    ELSE /\ got' = [got EXCEPT ![k] = "None"]
         /\ UNCHANGED chan

(* Mutant: the cell is read with borrow().clone() instead of take(). *)
TakeCellClone(k) ==
    /\ got' = [got EXCEPT ![k] = IF cell[k] = NoOutcome THEN "None" ELSE cell[k]]
    /\ UNCHANGED cell

(* Wasm try_take: self.result.borrow_mut().take(). *)
TakeCell(k) ==
    /\ got' = [got EXCEPT ![k] = IF cell[k] = NoOutcome THEN "None" ELSE cell[k]]
    /\ cell' = [cell EXCEPT ![k] = NoOutcome]

TryTake(k) ==
    /\ IF Native THEN TryRecv(k) /\ UNCHANGED cell
                 ELSE TakeCell(k) /\ UNCHANGED chan
    /\ UNCHANGED <<task, sent>>

Next == \E k \in Keys : TryTake(k) \/ Panic(k) \/ \E o \in Outcomes : Finish(k, o)

(* The UI thread polls every occupied slot (Dispatcher's DrainEventually); *)
(* the futures are not assumed to return.                                 *)
Spec == Init /\ [][Next]_vars /\ \A k \in Keys : WF_vars(TryTake(k))

-----------------------------------------------------------------------------
TypeOK ==
    /\ task \in [Keys -> {"Running", "Sent", "Panicked"}]
    /\ chan \in [Keys -> Seq(Outcomes)]
    /\ cell \in [Keys -> Outcomes \cup {NoOutcome}]
    /\ got \in [Keys -> Outcomes \cup {"NoCall", "None"}]
    /\ sent \in [Keys -> Outcomes \cup {NoOutcome}]

(* The outcome is still held by the channel or the cell. *)
Held(k) == IF Native THEN chan[k] # <<>> ELSE cell[k] # NoOutcome

(* The refinement mapping: a handle whose future published is "Done"     *)
(* while its outcome is held and "Taken" after; a running or panicked     *)
(* future is "Pending".                                                   *)
OS == INSTANCE OneShot WITH
        st <- [k \in Keys |-> IF task[k] = "Sent"
                              THEN IF Held(k) THEN "Done" ELSE "Taken"
                              ELSE "Pending"],
        out <- sent

(* Both implementations keep the one-shot contract: try_take answers None *)
(* until the future publishes, its outcome exactly once, then None, and a *)
(* published outcome is taken while the handle is polled.                 *)
ImplementsOneShot == OS!Spec

=============================================================================
