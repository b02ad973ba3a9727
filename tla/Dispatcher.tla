----------------------------- MODULE Dispatcher -----------------------------
(***************************************************************************)
(* The asynchronous operation dispatcher of ldk-server-gui: the registry   *)
(* of single-flight task slots (state.rs AsyncTasks), the triggers that    *)
(* fill them (app.rs fetch_* / send_* / open_channel ...), the task        *)
(* handles of task.rs, the per-frame drain (app.rs poll_tasks) and the     *)
(* repaint scheduling of App::update, together with the connection         *)
(* lifecycle (connect / disconnect) whose client every task captures.      *)
(*                                                                         *)
(* Data is abstracted: a response is the client generation that produced  *)
(* it and, for the channel list, the number of channel mutations the       *)
(* server had applied when it answered.                                    *)
(***************************************************************************)
EXTENDS Naturals, Sequences, FiniteSets

CONSTANTS
    Keys,           \* operation keys: one field of AsyncTasks each
    PollOrder,      \* the order of the poll_task! calls in poll_tasks
    FetchKeys,      \* keys whose success caches the response (node_info ...)
    ConnectFetches, \* keys connect() fetches right after creating a client
    ChannelsKey,    \* the list_channels key
    RefetchKeys,    \* keys whose success handler calls fetch_channels()
    ValidatedKeys,  \* keys whose trigger may reject the form and return
    Native,         \* TRUE: tokio worker pool; FALSE: wasm single thread
    MaxConnects,    \* bound: number of clients created (connect successes)
    MaxSpawns       \* bound: a user trigger of key k is enabled while
                    \* fewer tasks of k were spawned, by any path

(* Every key is polled, in the order of the poll_task! calls.            *)
ASSUME PollOrderAssumption ==
    /\ PollOrder \in Seq(Keys)
    /\ \A k \in Keys : \E i \in 1..Len(PollOrder) : PollOrder[i] = k

(* The roles of the keys: the fetches, the channel mutations and the      *)
(* validated forms are disjoint kinds of operation.                       *)
ASSUME KeysAssumption ==
    /\ FetchKeys \subseteq Keys
    /\ ConnectFetches \subseteq FetchKeys
    /\ ChannelsKey \in FetchKeys
    /\ RefetchKeys \subseteq Keys \ FetchKeys
    /\ ValidatedKeys \subseteq Keys \ FetchKeys

ASSUME BoundsAssumption ==
    /\ Native \in BOOLEAN
    /\ MaxConnects \in Nat \ {0}
    /\ MaxSpawns \in Nat

VARIABLES
    client,      \* AppState.client: 0 = None, g > 0 = the g-th client created
    lastGen,     \* number of clients created so far
    connStatus,  \* AppState.connection_status
    slot,        \* AsyncTasks: slot[k] is the Option<ChannelTaskHandle> of k
    cache,       \* cached responses (node_info, balances, channels, payments)
    status,      \* AppState.status_message: "None", "Ok" or "Err"
    chanVer,     \* server side: channel mutations the node has applied
    phase,       \* where the UI thread is: "Idle", "Poll" or "Render"
    pollIdx,     \* in "Poll": index in PollOrder of the next poll_task!
    repaint,     \* egui: a repaint has been requested
    input,       \* the current frame was started by user input
    spawned,     \* history: spawn_task calls per key
    delivered,   \* history: outcomes routed to a handler per key
    ackVer       \* history: highest chanVer of a channel mutation reported Ok

vars == <<client, lastGen, connStatus, slot, cache, status, chanVer,
          phase, pollIdx, repaint, input, spawned, delivered, ackVer>>

Gens == 0..MaxConnects
Outcomes == {"ok", "err"}

(* A slot: st = "None" is an empty Option; otherwise the handle of a task  *)
(* that captured client gen.  "Sent": the remote call is outstanding;      *)
(* "Served": the server answered with out (and ver) but the task has not   *)
(* published yet; "Ready": the outcome sits in the channel / shared cell.  *)
Slot == [st: {"None", "Sent", "Served", "Ready"}, gen: Gens,
         out: Outcomes, ver: Nat]
NoHandle == [st |-> "None", gen |-> 0, out |-> "err", ver |-> 0]
NewHandle(g) == [st |-> "Sent", gen |-> g, out |-> "err", ver |-> 0]

(* A cached response: gen = 0 is None. *)
Cached == [gen: Gens, ver: Nat]
NoCache == [gen |-> 0, ver |-> 0]

IsSome(k) == slot[k].st # "None"

(* AsyncTasks::any_pending *)
AnyPending == \E k \in Keys : IsSome(k)

(* Mutant: a trigger method without its `is_some()` early return.        *)
CanSpawnUnguarded(sl, k, g) == g # 0

(* The single-flight guard and client check shared by every trigger:      *)
(* `if tasks.k.is_some() { return; } if let Some(client) = &client`.      *)
CanSpawn(sl, k, g) == sl[k].st = "None" /\ g # 0

(* fetch_* on slot function sl with client g: spawn_task when allowed.    *)
Fetch(sl, k, g) == IF CanSpawn(sl, k, g) THEN [sl EXCEPT ![k] = NewHandle(g)]
                                         ELSE sl
Count(sl, sp, k, g) == IF CanSpawn(sl, k, g) THEN [sp EXCEPT ![k] = @ + 1]
                                             ELSE sp

-----------------------------------------------------------------------------
Init ==
    /\ client = 0
    /\ lastGen = 0
    /\ connStatus = "Disconnected"
    /\ slot = [k \in Keys |-> NoHandle]
    /\ cache = [f \in FetchKeys |-> NoCache]
    /\ status = "None"
    /\ chanVer = 0
    /\ phase = "Idle"
    /\ pollIdx = 1
    /\ repaint = FALSE
    /\ input = FALSE
    /\ spawned = [k \in Keys |-> 0]
    /\ delivered = [k \in Keys |-> 0]
    /\ ackVer = 0

-----------------------------------------------------------------------------
(* The task side (task.rs and the async blocks of app.rs).                 *)

(* The awaited remote call returns: Ok, or Err mapped to a String.  A      *)
(* successful channel mutation is applied by the node; a list_channels     *)
(* response reflects the mutations applied so far.                         *)
Serve(k) ==
    /\ slot[k].st = "Sent"
    /\ \E o \in Outcomes :
         LET applied == k \in RefetchKeys /\ o = "ok"
             v == IF applied THEN chanVer + 1 ELSE chanVer
         IN /\ slot' = [slot EXCEPT ![k] = [st |-> "Served", gen |-> @.gen,
                                              out |-> o, ver |-> v]]
            /\ chanVer' = v
    /\ UNCHANGED <<client, lastGen, connStatus, cache, status, phase,
                   pollIdx, repaint, input, spawned, delivered, ackVer>>

(* On wasm the future runs on the UI thread, so it resumes only between   *)
(* frames; tokio workers publish at any moment.                           *)
CanPublish == Native \/ phase = "Idle"

(* The task publishes: tx.send(res) on native, *cell = Some(res) on wasm. *)
Publish(k) ==
    /\ slot[k].st = "Served"
    /\ CanPublish
    /\ slot' = [slot EXCEPT ![k] = [st |-> "Ready", gen |-> @.gen,
                                    out |-> @.out, ver |-> @.ver]]
    /\ UNCHANGED <<client, lastGen, connStatus, cache, status, chanVer,
                   phase, pollIdx, repaint, input, spawned, delivered, ackVer>>

-----------------------------------------------------------------------------
(* The UI thread: one App::update per frame.                               *)

(* egui runs a frame because a repaint was requested ...                   *)
RepaintFrame ==
    /\ phase = "Idle"
    /\ repaint
    /\ phase' = "Poll"
    /\ pollIdx' = 1
    /\ repaint' = FALSE
    /\ input' = FALSE
    /\ UNCHANGED <<client, lastGen, connStatus, slot, cache, status, chanVer,
                   spawned, delivered, ackVer>>

(* ... or because of user input, which itself asks for one more frame.     *)
InputFrame ==
    /\ phase = "Idle"
    /\ phase' = "Poll"
    /\ pollIdx' = 1
    /\ repaint' = TRUE
    /\ input' = TRUE
    /\ UNCHANGED <<client, lastGen, connStatus, slot, cache, status, chanVer,
                   spawned, delivered, ackVer>>

(* Mutant: the handler caches the task handle instead of its response.   *)
OnSuccessStoresHandle(k, h, cleared) ==
    /\ cache' = IF k \in FetchKeys THEN [cache EXCEPT ![k] = h] ELSE cache
    /\ status' = IF k \in FetchKeys THEN status ELSE "Ok"
    /\ slot' = IF k \in RefetchKeys THEN Fetch(cleared, ChannelsKey, client)
                                    ELSE cleared
    /\ spawned' = IF k \in RefetchKeys
                  THEN Count(cleared, spawned, ChannelsKey, client)
                  ELSE spawned
    /\ ackVer' = IF k \in RefetchKeys /\ h.ver > ackVer THEN h.ver ELSE ackVer

(* The success handler of key k, applied after its slot was cleared.       *)
(* Fetch keys cache the response; the others report success, and the      *)
(* channel mutations call fetch_channels().                               *)
OnSuccess(k, h, cleared) ==
    /\ cache' = IF k \in FetchKeys
                THEN [cache EXCEPT ![k] = [gen |-> h.gen, ver |-> h.ver]]
                ELSE cache
    /\ status' = IF k \in FetchKeys THEN status ELSE "Ok"
    /\ slot' = IF k \in RefetchKeys THEN Fetch(cleared, ChannelsKey, client)
                                    ELSE cleared
    /\ spawned' = IF k \in RefetchKeys
                  THEN Count(cleared, spawned, ChannelsKey, client)
                  ELSE spawned
    /\ ackVer' = IF k \in RefetchKeys /\ h.ver > ackVer THEN h.ver ELSE ackVer

(* One poll_task! of poll_tasks: try_take the handle; None leaves the     *)
(* slot and requests a repaint; Some clears the slot and routes the        *)
(* outcome.                                                                *)
PollKey ==
    /\ phase = "Poll"
    /\ pollIdx <= Len(PollOrder)
    /\ pollIdx' = pollIdx + 1
    /\ LET k == PollOrder[pollIdx]
           h == slot[k]
           cleared == [slot EXCEPT ![k] = NoHandle]
       IN \/ /\ h.st = "None"
             /\ UNCHANGED <<slot, cache, status, repaint, spawned, delivered,
                            ackVer>>
          \/ /\ h.st \in {"Sent", "Served"}
             /\ repaint' = TRUE
             /\ UNCHANGED <<slot, cache, status, spawned, delivered, ackVer>>
          \/ /\ h.st = "Ready"
             /\ delivered' = [delivered EXCEPT ![k] = @ + 1]
             /\ \/ /\ h.out = "ok"
                   /\ OnSuccess(k, h, cleared)
                \/ /\ h.out = "err"
                   /\ slot' = cleared
                   /\ status' = "Err"
                   /\ UNCHANGED <<cache, spawned, ackVer>>
             /\ UNCHANGED repaint
    /\ UNCHANGED <<client, lastGen, connStatus, chanVer, phase, input>>

(* Mutant: update() without the any_pending repaint request.             *)
AfterPollNoAnyPending ==
    /\ phase = "Poll"
    /\ pollIdx = Len(PollOrder) + 1
    /\ phase' = "Render"
    /\ UNCHANGED <<client, lastGen, connStatus, slot, cache, status, chanVer,
                   pollIdx, repaint, input, spawned, delivered, ackVer>>

(* Mutant: poll_tasks may end before the last poll_task! (an operation    *)
(* whose poll_task! entry was forgotten).                                 *)
AfterPollSkipsLast ==
    /\ phase = "Poll"
    /\ pollIdx >= Len(PollOrder)
    /\ phase' = "Render"
    /\ repaint' = (repaint \/ AnyPending)
    /\ UNCHANGED <<client, lastGen, connStatus, slot, cache, status, chanVer,
                   pollIdx, input, spawned, delivered, ackVer>>

(* After poll_tasks: `if tasks.any_pending() { request_repaint_after }`.  *)
AfterPoll ==
    /\ phase = "Poll"
    /\ pollIdx = Len(PollOrder) + 1
    /\ phase' = "Render"
    /\ repaint' = (repaint \/ AnyPending)
    /\ UNCHANGED <<client, lastGen, connStatus, slot, cache, status, chanVer,
                   pollIdx, input, spawned, delivered, ackVer>>

(* The frame is rendered without a click that changes this state.         *)
EndFrame ==
    /\ phase = "Render"
    /\ phase' = "Idle"
    /\ UNCHANGED <<client, lastGen, connStatus, slot, cache, status, chanVer,
                   pollIdx, repaint, input, spawned, delivered, ackVer>>

-----------------------------------------------------------------------------
(* Clicks, handled while rendering a frame started by input; each ends    *)
(* the frame.                                                              *)

Click == phase = "Render" /\ input /\ phase' = "Idle"

(* The form checks of the send / open / close / splice triggers (a blank  *)
(* address, an amount that does not parse ...), which set an error       *)
(* status and return before spawning.                                     *)
Validated(k) == k \in ValidatedKeys

(* A trigger method (fetch_node_info, send_onchain, open_channel ...):    *)
(* a no-op while the slot is occupied or without a client; a rejected     *)
(* form sets an error status; otherwise the task is spawned.              *)
Trigger(k) ==
    /\ Click
    /\ spawned[k] < MaxSpawns
    /\ \/ /\ ~CanSpawn(slot, k, client)
          /\ UNCHANGED <<slot, status, spawned>>
       \/ /\ CanSpawn(slot, k, client)
          /\ Validated(k)
          /\ status' = "Err"
          /\ UNCHANGED <<slot, spawned>>
       \/ /\ CanSpawn(slot, k, client)
          /\ slot' = Fetch(slot, k, client)
          /\ spawned' = Count(slot, spawned, k, client)
          /\ UNCHANGED status
    /\ UNCHANGED <<client, lastGen, connStatus, cache, chanVer, pollIdx,
                   repaint, input, delivered, ackVer>>

(* connect(): empty fields or an unreadable certificate; a client that     *)
(* cannot be built; or a new client, then fetch node info, balances and    *)
(* channels, each behind its own single-flight guard.                      *)
Connect ==
    /\ Click
    /\ connStatus # "Connected"
    /\ \/ /\ status' = "Err"
          /\ UNCHANGED <<client, lastGen, connStatus, slot, spawned>>
       \/ /\ connStatus' = "Error"
          /\ status' = "Err"
          /\ UNCHANGED <<client, lastGen, slot, spawned>>
       \/ /\ lastGen < MaxConnects
          /\ LET g == lastGen + 1 IN
             /\ client' = g
             /\ lastGen' = g
             /\ connStatus' = "Connected"
             /\ status' = "Ok"
             /\ slot' = [k \in Keys |->
                           IF k \in ConnectFetches THEN Fetch(slot, k, g)[k]
                                                   ELSE slot[k]]
             /\ spawned' = [k \in Keys |->
                              IF k \in ConnectFetches
                              THEN Count(slot, spawned, k, g)[k]
                              ELSE spawned[k]]
    /\ UNCHANGED <<cache, chanVer, pollIdx, repaint, input, delivered, ackVer>>

(* disconnect(): drops the client and the cached responses; the tasks in  *)
(* flight are left alone.                                                  *)
Disconnect ==
    /\ Click
    /\ connStatus = "Connected"
    /\ client' = 0
    /\ connStatus' = "Disconnected"
    /\ cache' = [f \in FetchKeys |-> NoCache]
    /\ status' = "Ok"
    /\ UNCHANGED <<lastGen, slot, chanVer, pollIdx, repaint, input, spawned,
                   delivered, ackVer>>

-----------------------------------------------------------------------------
Next ==
    \/ \E k \in Keys : Serve(k) \/ Publish(k) \/ Trigger(k)
    \/ RepaintFrame \/ InputFrame \/ PollKey \/ AfterPoll \/ EndFrame
    \/ Connect \/ Disconnect

(* egui honours request_repaint, and update() runs to its end; the remote *)
(* calls and the user are not assumed to do anything.                     *)
Fairness ==
    /\ WF_vars(RepaintFrame)
    /\ WF_vars(PollKey)
    /\ WF_vars(AfterPoll)
    /\ WF_vars(EndFrame)

Spec == Init /\ [][Next]_vars /\ Fairness

(* The refinement mapping to the registry contract: a slot is held by    *)
(* the client its task captured, and the spawn and drain counts are the    *)
(* registry's own.                                                         *)
Holder == [k \in Keys |-> IF IsSome(k) THEN slot[k].gen ELSE 0]

Reg == INSTANCE Registry WITH
           Clients <- 1..MaxConnects, holder <- Holder,
           spawned <- spawned, delivered <- delivered

-----------------------------------------------------------------------------
TypeOK ==
    /\ client \in Gens
    /\ lastGen \in Gens
    /\ connStatus \in {"Disconnected", "Connected", "Error"}
    /\ slot \in [Keys -> Slot]
    /\ cache \in [FetchKeys -> Cached]
    /\ status \in {"None", "Ok", "Err"}
    /\ chanVer \in Nat
    /\ phase \in {"Idle", "Poll", "Render"}
    /\ pollIdx \in 1..(Len(PollOrder) + 1)
    /\ repaint \in BOOLEAN
    /\ input \in BOOLEAN
    /\ spawned \in [Keys -> Nat]
    /\ delivered \in [Keys -> Nat]
    /\ ackVer \in Nat

(* Single flight and exactly-once delivery: for every key, each task ever *)
(* spawned has had its outcome routed to a handler exactly once, except   *)
(* the one task whose handle the slot holds.  A trigger that spawns over  *)
(* an occupied slot, a try_take that does not consume, or a drain that    *)
(* clears a slot without routing its outcome all break it.                *)
OutcomeAccounting ==
    \A k \in Keys :
        spawned[k] = delivered[k] + (IF IsSome(k) THEN 1 ELSE 0)

(* Pending-signal correctness: whenever the UI thread is between frames   *)
(* (or rendering) and some slot is occupied, a repaint has been requested, *)
(* so the slot will be polled again without user input.  Tasks spawned by *)
(* a success handler inside poll_tasks rely on the any_pending check.     *)
PendingSignal ==
    (phase # "Poll" /\ AnyPending) => repaint

(* The strengthening of PendingSignal that is inductive: a frame started  *)
(* by input keeps its repaint request until the frame ends.               *)
PendingInv ==
    /\ PendingSignal
    /\ (input /\ phase # "Idle") => repaint

(* Every outcome a task has published is eventually drained by a frame.   *)
DrainEventually ==
    \A k \in Keys : (slot[k].st = "Ready") ~> (slot[k].st = "None")

(* What connect() and disconnect() intend: while connected, every cached *)
(* response comes from the client connected now.  disconnect() clears the *)
(* caches but not the tasks in flight, and connect()'s fetches are        *)
(* dropped by the single-flight guard while such a task holds the slot.   *)
CacheFromCurrentClient ==
    client # 0 => \A f \in FetchKeys : cache[f].gen \in {0, client}

(* What the refetch in the channel-mutation handlers intends: once the     *)
(* app is quiet, the cached channel list reflects every channel mutation   *)
(* the user was told had succeeded.                                        *)
ChannelsReflectMutations ==
    (~AnyPending /\ cache[ChannelsKey].gen # 0)
        => cache[ChannelsKey].ver >= ackVer

(* The dispatcher implements the registry contract of the spec: triggers   *)
(* (connect()'s and the refetch of a channel mutation's handler included) *)
(* fill only empty slots, a held task keeps its client until the drain     *)
(* routes its outcome and clears its slot, and nothing else changes a slot *)
(* (Serve, Publish, a None from try_take, disconnect() leave it alone).    *)
ImplementsRegistry == Reg!Spec

=============================================================================
