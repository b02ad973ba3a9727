-------------------------- MODULE DispatcherProofs --------------------------
(***************************************************************************)
(* Proofs about the dispatcher for every value of the constants:           *)
(* type correctness, and the single-flight / exactly-once accounting of    *)
(* OutcomeAccounting.                                                      *)
(***************************************************************************)
EXTENDS Dispatcher, TLAPS

(* The key polled at any index of the poll pass is an operation key.      *)
LEMMA PollKeyInKeys ==
    ASSUME NEW i \in 1..Len(PollOrder)
    PROVE  PollOrder[i] \in Keys
BY PollOrderAssumption

LEMMA PollLen == Len(PollOrder) \in Nat
BY PollOrderAssumption

(* The generation of "no client" is a generation.                        *)
LEMMA ZeroGen == 0 \in Gens
BY BoundsAssumption DEF Gens

(* fetch_* keeps the registry a function from keys to slots, and the     *)
(* spawn count a function from keys to naturals.                         *)
LEMMA FetchType ==
    ASSUME NEW sl \in [Keys -> Slot], NEW k \in Keys, NEW g \in Gens
    PROVE  Fetch(sl, k, g) \in [Keys -> Slot]
BY DEF Fetch, CanSpawn, NewHandle, Slot, Gens, Outcomes

LEMMA CountType ==
    ASSUME NEW sl \in [Keys -> Slot], NEW sp \in [Keys -> Nat],
           NEW k \in Keys, NEW g \in Gens
    PROVE  Count(sl, sp, k, g) \in [Keys -> Nat]
BY DEF Count, CanSpawn

-----------------------------------------------------------------------------
(* Type correctness.                                                      *)

(* The empty slot and the empty cache entry are well typed.              *)
LEMMA EmptyType == NoHandle \in Slot /\ NoCache \in Cached
BY ZeroGen DEF NoHandle, Slot, NoCache, Cached, Outcomes

LEMMA InitTypeOK == Init => TypeOK
<1> SUFFICES ASSUME Init PROVE TypeOK
  OBVIOUS
<1>1. slot \in [Keys -> Slot] /\ cache \in [FetchKeys -> Cached]
  BY EmptyType DEF Init
<1>2. client \in Gens /\ lastGen \in Gens
  BY ZeroGen DEF Init
<1>3. pollIdx \in 1..(Len(PollOrder) + 1)
  BY PollLen DEF Init
<1>4. spawned \in [Keys -> Nat] /\ delivered \in [Keys -> Nat]
  BY DEF Init
<1>5. /\ connStatus \in {"Disconnected", "Connected", "Error"}
      /\ status \in {"None", "Ok", "Err"}
      /\ phase \in {"Idle", "Poll", "Render"}
      /\ chanVer \in Nat /\ ackVer \in Nat
      /\ repaint \in BOOLEAN /\ input \in BOOLEAN
  BY Zenon DEF Init
<1>6. QED
  BY <1>1, <1>2, <1>3, <1>4, <1>5 DEF TypeOK

LEMMA NextTypeOK == TypeOK /\ [Next]_vars => TypeOK'
<1> SUFFICES ASSUME TypeOK, [Next]_vars PROVE TypeOK'
  OBVIOUS
<1>1. ASSUME NEW k \in Keys, Serve(k) PROVE TypeOK'
  BY <1>1 DEF Serve, TypeOK, Slot, Outcomes
<1>2. ASSUME NEW k \in Keys, Publish(k) PROVE TypeOK'
  BY <1>2 DEF Publish, TypeOK, Slot
<1>3. ASSUME NEW k \in Keys, Trigger(k) PROVE TypeOK'
  <2>1. \/ slot' = slot /\ spawned' = spawned
        \/ slot' = Fetch(slot, k, client)
           /\ spawned' = Count(slot, spawned, k, client)
    BY <1>3, Zenon DEF Trigger
  <2>2. slot' \in [Keys -> Slot] /\ spawned' \in [Keys -> Nat]
    <3>1. slot \in [Keys -> Slot] /\ spawned \in [Keys -> Nat] /\ client \in Gens
      BY DEF TypeOK
    <3>2. Fetch(slot, k, client) \in [Keys -> Slot]
          /\ Count(slot, spawned, k, client) \in [Keys -> Nat]
      BY <3>1, FetchType, CountType
    <3>3. QED
      BY <2>1, <3>1, <3>2, Zenon
  <2>3. /\ status' \in {"None", "Ok", "Err"}
        /\ phase' \in {"Idle", "Poll", "Render"}
    BY <1>3, Zenon DEF Trigger, Click, TypeOK
  <2>4. UNCHANGED <<client, lastGen, connStatus, cache, chanVer, pollIdx,
                    repaint, input, delivered, ackVer>>
    BY <1>3, Zenon DEF Trigger
  <2>5. QED
    BY <2>2, <2>3, <2>4 DEF TypeOK
<1>4. CASE RepaintFrame
  <2>1. pollIdx' \in 1..(Len(PollOrder) + 1)
    BY <1>4, PollLen DEF RepaintFrame
  <2>2. QED
    BY <1>4, <2>1, Zenon DEF RepaintFrame, TypeOK
<1>5. CASE InputFrame
  <2>1. pollIdx' \in 1..(Len(PollOrder) + 1)
    BY <1>5, PollLen DEF InputFrame
  <2>2. QED
    BY <1>5, <2>1, Zenon DEF InputFrame, TypeOK
<1>6. CASE PollKey
  <2> DEFINE k == PollOrder[pollIdx]
             h == slot[k]
             cleared == [slot EXCEPT ![k] = NoHandle]
             Varying == /\ slot' \in [Keys -> Slot]
                        /\ cache' \in [FetchKeys -> Cached]
                        /\ status' \in {"None", "Ok", "Err"}
                        /\ repaint' \in BOOLEAN
                        /\ spawned' \in [Keys -> Nat]
                        /\ delivered' \in [Keys -> Nat]
                        /\ ackVer' \in Nat
  <2>1. pollIdx \in 1..Len(PollOrder)
    BY <1>6 DEF PollKey, TypeOK
  <2>2. k \in Keys /\ h \in Slot /\ cleared \in [Keys -> Slot]
    BY <2>1, PollKeyInKeys, EmptyType DEF TypeOK
  <2>3. pollIdx' \in 1..(Len(PollOrder) + 1)
    BY <1>6, <2>1, PollLen DEF PollKey
  <2>4. UNCHANGED <<client, lastGen, connStatus, chanVer, phase, input>>
    BY <1>6, Zenon DEF PollKey
  <2>5. ASSUME h.st = "None" PROVE Varying
    <3>1. UNCHANGED <<slot, cache, status, repaint, spawned, delivered, ackVer>>
      BY <1>6, <2>5, Zenon DEF PollKey
    <3>2. QED
      BY <3>1, Zenon DEF TypeOK
  <2>6. ASSUME h.st \in {"Sent", "Served"} PROVE Varying
    <3>1. repaint' = TRUE
          /\ UNCHANGED <<slot, cache, status, spawned, delivered, ackVer>>
      BY <1>6, <2>6, Zenon DEF PollKey
    <3>2. QED
      BY <3>1, Zenon DEF TypeOK
  <2>7. ASSUME h.st = "Ready" PROVE Varying
    <3>1. /\ delivered' = [delivered EXCEPT ![k] = @ + 1]
          /\ repaint' = repaint
          /\ \/ h.out = "ok" /\ OnSuccess(k, h, cleared)
             \/ h.out = "err" /\ slot' = cleared /\ status' = "Err"
                /\ UNCHANGED <<cache, spawned, ackVer>>
      BY <1>6, <2>7, Zenon DEF PollKey
    <3>2. delivered' \in [Keys -> Nat] /\ repaint' \in BOOLEAN
      BY <3>1, <2>2 DEF TypeOK
    <3>3. CASE h.out = "ok" /\ OnSuccess(k, h, cleared)
      <4>1. slot' \in [Keys -> Slot] /\ spawned' \in [Keys -> Nat]
        <5>1. ChannelsKey \in Keys /\ client \in Gens
          BY KeysAssumption DEF TypeOK
        <5>2. spawned \in [Keys -> Nat]
          BY DEF TypeOK
        <5>3. QED
          BY <3>3, <2>2, <5>1, <5>2, FetchType, CountType DEF OnSuccess
      <4>2. cache' \in [FetchKeys -> Cached] /\ ackVer' \in Nat
        BY <3>3, <2>2 DEF OnSuccess, TypeOK, Cached, Slot
      <4>3. status' \in {"None", "Ok", "Err"}
        BY <3>3, Zenon DEF OnSuccess, TypeOK
      <4>4. QED
        BY <3>2, <4>1, <4>2, <4>3, Zenon
    <3>4. CASE h.out = "err" /\ slot' = cleared /\ status' = "Err"
                /\ UNCHANGED <<cache, spawned, ackVer>>
      BY <3>2, <3>4, <2>2, Zenon DEF TypeOK
    <3>5. QED
      BY <3>1, <3>3, <3>4
  <2>8. h.st \in {"None", "Sent", "Served", "Ready"}
    BY <2>2 DEF Slot
  <2>9. Varying
    BY <2>5, <2>6, <2>7, <2>8, Zenon
  <2>10. QED
    BY <2>3, <2>4, <2>9, Zenon DEF TypeOK
<1>7. CASE AfterPoll
  BY <1>7 DEF AfterPoll, TypeOK
<1>8. CASE EndFrame
  BY <1>8 DEF EndFrame, TypeOK
<1>9. CASE Connect
  <2>1. /\ UNCHANGED <<cache, chanVer, pollIdx, repaint, input, delivered,
                       ackVer>>
        /\ phase' = "Idle"
    BY <1>9, Zenon DEF Connect, Click
  <2>2. /\ status' \in {"None", "Ok", "Err"}
        /\ connStatus' \in {"Disconnected", "Connected", "Error"}
    BY <1>9, Zenon DEF Connect, TypeOK
  <2> DEFINE g == lastGen + 1
  <2>3. \/ UNCHANGED <<client, lastGen, slot, spawned>>
        \/ /\ lastGen < MaxConnects
           /\ client' = g /\ lastGen' = g
           /\ slot' = [k \in Keys |->
                         IF k \in ConnectFetches THEN Fetch(slot, k, g)[k]
                                                 ELSE slot[k]]
           /\ spawned' = [k \in Keys |->
                            IF k \in ConnectFetches
                            THEN Count(slot, spawned, k, g)[k]
                            ELSE spawned[k]]
    BY <1>9, Zenon DEF Connect
  <2>4. CASE UNCHANGED <<client, lastGen, slot, spawned>>
    BY <2>1, <2>2, <2>4, Zenon DEF TypeOK
  <2>5. CASE /\ lastGen < MaxConnects
             /\ client' = g /\ lastGen' = g
             /\ slot' = [k \in Keys |->
                           IF k \in ConnectFetches THEN Fetch(slot, k, g)[k]
                                                   ELSE slot[k]]
             /\ spawned' = [k \in Keys |->
                              IF k \in ConnectFetches
                              THEN Count(slot, spawned, k, g)[k]
                              ELSE spawned[k]]
    <3>1. g \in Gens
      BY <2>5, BoundsAssumption DEF TypeOK, Gens
    <3>2. \A k \in Keys : Fetch(slot, k, g)[k] \in Slot
                          /\ Count(slot, spawned, k, g)[k] \in Nat
      <4>1. slot \in [Keys -> Slot] /\ spawned \in [Keys -> Nat]
        BY DEF TypeOK
      <4>2. TAKE k \in Keys
      <4>3. Fetch(slot, k, g) \in [Keys -> Slot]
            /\ Count(slot, spawned, k, g) \in [Keys -> Nat]
        BY <3>1, <4>1, FetchType, CountType
      <4>4. QED
        BY <4>3
    <3>3. /\ client' \in Gens /\ lastGen' \in Gens
          /\ slot' \in [Keys -> Slot] /\ spawned' \in [Keys -> Nat]
      BY <2>5, <3>1, <3>2 DEF TypeOK
    <3>4. QED
      BY <2>1, <2>2, <3>3, Zenon DEF TypeOK
  <2>6. QED
    BY <2>3, <2>4, <2>5
<1>10. CASE Disconnect
  BY <1>10, ZeroGen, EmptyType DEF Disconnect, Click, TypeOK
<1>11. CASE UNCHANGED vars
  BY <1>11 DEF vars, TypeOK
<1>12. QED
  BY <1>1, <1>2, <1>3, <1>4, <1>5, <1>6, <1>7, <1>8, <1>9, <1>10, <1>11
     DEF Next

(* Every reachable state is well typed.                                   *)
THEOREM TypeCorrect == Spec => []TypeOK
BY InitTypeOK, NextTypeOK, PTL DEF Spec

-----------------------------------------------------------------------------
(* Exactly-once accounting.                                                *)

(* The accounting relation between a registry, the spawn counts and the  *)
(* delivery counts.                                                       *)
Acc(sl, sp, dl) ==
    \A j \in Keys : sp[j] = dl[j] + (IF sl[j].st # "None" THEN 1 ELSE 0)

LEMMA AccDef == OutcomeAccounting <=> Acc(slot, spawned, delivered)
BY DEF OutcomeAccounting, Acc, IsSome

(* A single-flight spawn keeps the accounting: it bumps the count of k    *)
(* only when it fills the empty slot of k.                                *)
LEMMA FetchAcc ==
    ASSUME NEW sl \in [Keys -> Slot], NEW sp \in [Keys -> Nat],
           NEW dl \in [Keys -> Nat], NEW k \in Keys, NEW g \in Gens,
           Acc(sl, sp, dl)
    PROVE  Acc(Fetch(sl, k, g), Count(sl, sp, k, g), dl)
<1>1. CASE CanSpawn(sl, k, g)
  BY <1>1 DEF Acc, Fetch, Count, CanSpawn, NewHandle
<1>2. CASE ~CanSpawn(sl, k, g)
  BY <1>2 DEF Acc, Fetch, Count
<1>3. QED
  BY <1>1, <1>2

(* Draining the outcome of k: the slot is cleared and k's delivery count *)
(* grows by one.                                                          *)
LEMMA DrainAcc ==
    ASSUME NEW sl \in [Keys -> Slot], NEW sp \in [Keys -> Nat],
           NEW dl \in [Keys -> Nat], NEW k \in Keys,
           Acc(sl, sp, dl), sl[k].st # "None"
    PROVE  Acc([sl EXCEPT ![k] = NoHandle], sp, [dl EXCEPT ![k] = @ + 1])
BY DEF Acc, NoHandle

Inv == TypeOK /\ OutcomeAccounting

LEMMA NextAcc == Inv /\ [Next]_vars => OutcomeAccounting'
<1> SUFFICES ASSUME TypeOK, Acc(slot, spawned, delivered), [Next]_vars
             PROVE  Acc(slot', spawned', delivered')
  BY DEF Inv, OutcomeAccounting, Acc, IsSome
<1> USE DEF TypeOK
<1>1. ASSUME NEW k \in Keys, Serve(k) PROVE Acc(slot', spawned', delivered')
  BY <1>1 DEF Serve, Acc
<1>2. ASSUME NEW k \in Keys, Publish(k) PROVE Acc(slot', spawned', delivered')
  BY <1>2 DEF Publish, Acc
<1>3. ASSUME NEW k \in Keys, Trigger(k) PROVE Acc(slot', spawned', delivered')
  <2>1. \/ slot' = slot /\ spawned' = spawned
        \/ slot' = Fetch(slot, k, client)
           /\ spawned' = Count(slot, spawned, k, client)
    BY <1>3, Zenon DEF Trigger
  <2>2. delivered' = delivered
    BY <1>3, Zenon DEF Trigger
  <2>3. Acc(Fetch(slot, k, client), Count(slot, spawned, k, client), delivered)
    BY FetchAcc
  <2>4. QED
    BY <2>1, <2>2, <2>3
<1>4. CASE UNCHANGED <<slot, spawned, delivered>>
  BY <1>4
<1>5. CASE PollKey
  <2> DEFINE k == PollOrder[pollIdx]
             h == slot[k]
             cleared == [slot EXCEPT ![k] = NoHandle]
             dl == [delivered EXCEPT ![k] = @ + 1]
  <2>1. k \in Keys
    BY <1>5, PollKeyInKeys DEF PollKey
  <2>2. CASE h.st \in {"None", "Sent", "Served"}
    BY <1>5, <2>2, Zenon DEF PollKey
  <2>3. CASE h.st = "Ready"
    <3>1. /\ delivered' = dl
          /\ \/ h.out = "ok" /\ OnSuccess(k, h, cleared)
             \/ slot' = cleared /\ spawned' = spawned
      BY <1>5, <2>3, Zenon DEF PollKey
    <3>2. Acc(cleared, spawned, dl) /\ cleared \in [Keys -> Slot]
      BY <2>1, <2>3, DrainAcc, EmptyType
    <3>3. CASE h.out = "ok" /\ OnSuccess(k, h, cleared)
      <4>1. \/ slot' = cleared /\ spawned' = spawned
            \/ slot' = Fetch(cleared, ChannelsKey, client)
               /\ spawned' = Count(cleared, spawned, ChannelsKey, client)
        BY <3>3 DEF OnSuccess
      <4>2. Acc(Fetch(cleared, ChannelsKey, client),
                Count(cleared, spawned, ChannelsKey, client), dl)
        <5>1. dl \in [Keys -> Nat] /\ ChannelsKey \in Keys
          BY <2>1, KeysAssumption
        <5>2. QED
          BY <3>2, <5>1, FetchAcc
      <4>3. QED
        BY <3>1, <3>2, <4>1, <4>2
    <3>4. QED
      BY <3>1, <3>2, <3>3
  <2>4. QED
    BY <2>1, <2>2, <2>3 DEF Slot
<1>6. CASE Connect
  <2> DEFINE g == lastGen + 1
  <2>1. delivered' = delivered
    BY <1>6, Zenon DEF Connect
  <2>2. \/ UNCHANGED <<slot, spawned>>
        \/ /\ lastGen < MaxConnects
           /\ slot' = [k \in Keys |->
                         IF k \in ConnectFetches THEN Fetch(slot, k, g)[k]
                                                 ELSE slot[k]]
           /\ spawned' = [k \in Keys |->
                            IF k \in ConnectFetches
                            THEN Count(slot, spawned, k, g)[k]
                            ELSE spawned[k]]
    BY <1>6, Zenon DEF Connect
  <2>3. CASE UNCHANGED <<slot, spawned>>
    BY <2>1, <2>3
  <2>4. CASE /\ lastGen < MaxConnects
             /\ slot' = [k \in Keys |->
                           IF k \in ConnectFetches THEN Fetch(slot, k, g)[k]
                                                   ELSE slot[k]]
             /\ spawned' = [k \in Keys |->
                              IF k \in ConnectFetches
                              THEN Count(slot, spawned, k, g)[k]
                              ELSE spawned[k]]
    <3>1. g \in Gens
      BY <2>4, BoundsAssumption DEF Gens
    <3>2. SUFFICES ASSUME NEW j \in Keys
                   PROVE  spawned'[j] = delivered'[j]
                                        + (IF slot'[j].st # "None" THEN 1 ELSE 0)
      BY DEF Acc
    <3>3. CASE j \in ConnectFetches
      <4>1. Acc(Fetch(slot, j, g), Count(slot, spawned, j, g), delivered)
        BY <3>1, FetchAcc
      <4>2. QED
        BY <2>1, <2>4, <3>3, <4>1 DEF Acc
    <3>4. CASE j \notin ConnectFetches
      BY <2>1, <2>4, <3>4 DEF Acc
    <3>5. QED
      BY <3>3, <3>4
  <2>5. QED
    BY <2>2, <2>3, <2>4
<1>7. QED
  <2>1. CASE \E k \in Keys : Serve(k) \/ Publish(k) \/ Trigger(k)
    BY <2>1, <1>1, <1>2, <1>3
  <2>2. CASE RepaintFrame \/ InputFrame \/ AfterPoll \/ EndFrame \/ Disconnect
                \/ UNCHANGED vars
    BY <2>2, <1>4, Zenon
       DEF RepaintFrame, InputFrame, AfterPoll, EndFrame, Disconnect, vars
  <2>3. QED
    BY <2>1, <2>2, <1>5, <1>6 DEF Next

(* Single flight and exactly-once delivery hold in every reachable state: *)
(* no trigger spawns over an occupied slot and every drained outcome is   *)
(* routed once (OutcomeAccounting, for every key set and poll order).    *)
THEOREM ExactlyOnce == Spec => []OutcomeAccounting
<1>1. Init => Inv
  BY InitTypeOK DEF Init, Inv, OutcomeAccounting, IsSome, NoHandle
<1>2. Inv /\ [Next]_vars => Inv'
  BY NextTypeOK, NextAcc DEF Inv
<1>3. QED
  BY <1>1, <1>2, PTL DEF Spec, Inv

-----------------------------------------------------------------------------
(* The pending signal.                                                     *)

(* A step that keeps every slot occupied or empty keeps AnyPending.      *)
LEMMA SameOccupancy ==
    ASSUME slot \in [Keys -> Slot], slot' \in [Keys -> Slot],
           \A j \in Keys : (slot'[j].st = "None") <=> (slot[j].st = "None")
    PROVE  AnyPending' <=> AnyPending
BY DEF AnyPending, IsSome

LEMMA NextPending == TypeOK /\ PendingInv /\ [Next]_vars => PendingInv'
<1> SUFFICES ASSUME TypeOK, TypeOK', PendingInv, [Next]_vars PROVE PendingInv'
  BY NextTypeOK
<1>1. ASSUME NEW k \in Keys, Serve(k) \/ Publish(k) PROVE PendingInv'
  <2>1. \A j \in Keys : (slot'[j].st = "None") <=> (slot[j].st = "None")
    <3>1. CASE Serve(k)
      BY <3>1 DEF Serve, TypeOK
    <3>2. CASE Publish(k)
      BY <3>2 DEF Publish, TypeOK
    <3>3. QED
      BY <1>1, <3>1, <3>2
  <2>2. AnyPending' <=> AnyPending
    BY <2>1, SameOccupancy DEF TypeOK
  <2>3. UNCHANGED <<phase, repaint, input>>
    BY <1>1, Zenon DEF Serve, Publish
  <2>4. QED
    BY <2>2, <2>3, Zenon DEF PendingInv, PendingSignal
<1>2. ASSUME NEW k \in Keys, Trigger(k) PROVE PendingInv'
  <2>1. phase = "Render" /\ input /\ phase' = "Idle"
        /\ UNCHANGED <<repaint, input>>
    BY <1>2, Zenon DEF Trigger, Click
  <2>2. QED
    BY <2>1, Zenon DEF PendingInv, PendingSignal
<1>3. CASE Connect \/ Disconnect
  <2>1. phase = "Render" /\ input /\ phase' = "Idle"
        /\ UNCHANGED <<repaint, input>>
    BY <1>3, Zenon DEF Connect, Disconnect, Click
  <2>2. QED
    BY <2>1, Zenon DEF PendingInv, PendingSignal
<1>4. CASE RepaintFrame \/ InputFrame
  BY <1>4, Zenon DEF RepaintFrame, InputFrame, PendingInv, PendingSignal
<1>5. CASE PollKey
  <2>1. phase = "Poll" /\ phase' = "Poll" /\ input' = input /\ (repaint' = repaint \/ repaint')
    BY <1>5, Zenon DEF PollKey
  <2>2. QED
    BY <2>1, Zenon DEF PendingInv, PendingSignal
<1>6. CASE AfterPoll
  <2>1. /\ phase = "Poll" /\ phase' = "Render"
        /\ repaint' = (repaint \/ AnyPending)
        /\ UNCHANGED <<slot, input>>
    BY <1>6, Zenon DEF AfterPoll
  <2>2. AnyPending' = AnyPending
    BY <2>1 DEF AnyPending, IsSome
  <2>3. QED
    BY <2>1, <2>2, Zenon DEF PendingInv, PendingSignal
<1>7. CASE EndFrame \/ UNCHANGED vars
  <2>1. /\ UNCHANGED <<slot, repaint, input>>
        /\ \/ phase' = phase
           \/ phase = "Render" /\ phase' = "Idle"
    BY <1>7, Zenon DEF EndFrame, vars
  <2>2. AnyPending' = AnyPending
    BY <2>1 DEF AnyPending, IsSome
  <2>3. QED
    BY <2>1, <2>2, Zenon DEF PendingInv, PendingSignal
<1>8. QED
  BY <1>1, <1>2, <1>3, <1>4, <1>5, <1>6, <1>7 DEF Next

(* Every state between poll passes in which a task is in flight has a    *)
(* repaint requested, so the task's outcome is polled again without user  *)
(* input (the any_pending check at the end of App::update).               *)
THEOREM PendingSignalled == Spec => []PendingSignal
<1>1. Init => TypeOK /\ PendingInv
  <2> SUFFICES ASSUME Init PROVE TypeOK /\ PendingInv
    OBVIOUS
  <2>1. ~AnyPending
    BY DEF Init, AnyPending, IsSome, NoHandle
  <2>2. QED
    BY <2>1, InitTypeOK, Zenon DEF Init, PendingInv, PendingSignal
<1>2. TypeOK /\ PendingInv /\ [Next]_vars => (TypeOK /\ PendingInv)'
  BY NextTypeOK, NextPending
<1>3. PendingInv => PendingSignal
  BY DEF PendingInv
<1>4. QED
  BY <1>1, <1>2, <1>3, PTL DEF Spec

=============================================================================
