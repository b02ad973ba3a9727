--------------------------- MODULE RegistryProofs ---------------------------
(***************************************************************************)
(* Proof that the dispatcher implements the registry contract of the spec  *)
(* (module Registry, instance Reg of Dispatcher) for every value of the    *)
(* constants: under the mapping Holder every step of the dispatcher is a   *)
(* Spawn, a Route, or leaves the registry alone.                           *)
(***************************************************************************)
EXTENDS DispatcherProofs

(* A task in a slot has captured a real client.  Holder tells an empty     *)
(* slot (0) from an occupied one by the client, so the refinement needs    *)
(* this: every trigger checks `if let Some(client)` and connect() spawns   *)
(* on the client it has just created.                                      *)
GenInv == \A k \in Keys : IsSome(k) => slot[k].gen \in 1..MaxConnects

RInv == TypeOK /\ GenInv

(* What a trigger leaves in slot j: a new task on client g if j is the    *)
(* key triggered and the guard lets it through, the old slot otherwise.  *)
LEMMA FetchSlot ==
    ASSUME NEW sl \in [Keys -> Slot], NEW k \in Keys, NEW g \in Gens,
           NEW j \in Keys
    PROVE  Fetch(sl, k, g)[j] = IF j = k /\ CanSpawn(sl, k, g)
                                THEN NewHandle(g) ELSE sl[j]
BY DEF Fetch

LEMMA CountSlot ==
    ASSUME NEW sl \in [Keys -> Slot], NEW sp \in [Keys -> Nat],
           NEW k \in Keys, NEW g \in Gens, NEW j \in Keys
    PROVE  Count(sl, sp, k, g)[j] = IF j = k /\ CanSpawn(sl, k, g)
                                    THEN sp[j] + 1 ELSE sp[j]
BY DEF Count

-----------------------------------------------------------------------------
LEMMA InitRInv == Init => RInv
BY InitTypeOK DEF Init, RInv, GenInv, IsSome, NoHandle

LEMMA NextGenInv == RInv /\ [Next]_vars => GenInv'
<1> SUFFICES ASSUME TypeOK, GenInv, [Next]_vars PROVE GenInv'
  BY DEF RInv
<1> USE DEF GenInv, IsSome
<1>1. ASSUME NEW k \in Keys, Serve(k) PROVE GenInv'
  BY <1>1 DEF Serve, TypeOK
<1>2. ASSUME NEW k \in Keys, Publish(k) PROVE GenInv'
  BY <1>2 DEF Publish, TypeOK
<1>3. ASSUME NEW k \in Keys, Trigger(k) PROVE GenInv'
  <2>1. \/ slot' = slot
        \/ /\ CanSpawn(slot, k, client)
           /\ slot' = Fetch(slot, k, client)
    BY <1>3, Zenon DEF Trigger
  <2>2. client \in Gens /\ slot \in [Keys -> Slot]
    BY DEF TypeOK
  <2>3. CASE slot' = slot
    BY <2>3
  <2>4. CASE CanSpawn(slot, k, client) /\ slot' = Fetch(slot, k, client)
    <3>1. SUFFICES ASSUME NEW j \in Keys, slot'[j].st # "None"
                   PROVE  slot'[j].gen \in 1..MaxConnects
      OBVIOUS
    <3>2. slot'[j] = IF j = k THEN NewHandle(client) ELSE slot[j]
      BY <2>2, <2>4, FetchSlot
    <3>3. client \in 1..MaxConnects
      BY <2>2, <2>4 DEF CanSpawn, Gens
    <3>4. QED
      BY <3>1, <3>2, <3>3 DEF NewHandle
  <2>5. QED
    BY <2>1, <2>3, <2>4
<1>4. CASE PollKey
  <2> DEFINE k == PollOrder[pollIdx]
             h == slot[k]
             cleared == [slot EXCEPT ![k] = NoHandle]
  <2>1. k \in Keys /\ client \in Gens /\ slot \in [Keys -> Slot]
    BY <1>4, PollKeyInKeys DEF PollKey, TypeOK
  <2>2. cleared \in [Keys -> Slot] /\ ChannelsKey \in Keys
    BY <2>1, EmptyType, KeysAssumption
  <2>3. \A j \in Keys : cleared[j].st # "None" => cleared[j].gen \in 1..MaxConnects
    BY <2>1 DEF NoHandle
  <2>4. \/ slot' = slot
        \/ slot' = cleared
        \/ slot' = Fetch(cleared, ChannelsKey, client)
    BY <1>4, Zenon DEF PollKey, OnSuccess
  <2>5. ASSUME NEW j \in Keys,
               Fetch(cleared, ChannelsKey, client)[j].st # "None"
        PROVE  Fetch(cleared, ChannelsKey, client)[j].gen \in 1..MaxConnects
    <3> DEFINE F == Fetch(cleared, ChannelsKey, client)
    <3>1. F[j] = IF j = ChannelsKey /\ CanSpawn(cleared, ChannelsKey, client)
                 THEN NewHandle(client) ELSE cleared[j]
      BY <2>1, <2>2, FetchSlot
    <3>2. CASE j = ChannelsKey /\ CanSpawn(cleared, ChannelsKey, client)
      BY <2>1, <3>1, <3>2 DEF CanSpawn, NewHandle, Gens
    <3>3. CASE ~(j = ChannelsKey /\ CanSpawn(cleared, ChannelsKey, client))
      BY <2>3, <2>5, <3>1, <3>3
    <3>4. QED
      BY <3>2, <3>3
  <2>6. QED
    BY <2>3, <2>4, <2>5
<1>5. CASE Connect
  <2> DEFINE g == lastGen + 1
  <2>1. \/ slot' = slot
        \/ /\ lastGen < MaxConnects
           /\ slot' = [j \in Keys |->
                         IF j \in ConnectFetches THEN Fetch(slot, j, g)[j]
                                                 ELSE slot[j]]
    BY <1>5, Zenon DEF Connect
  <2>2. ASSUME lastGen < MaxConnects PROVE g \in Gens /\ g \in 1..MaxConnects
    BY <2>2, BoundsAssumption DEF TypeOK, Gens
  <2>3. CASE slot' = slot
    BY <2>3
  <2>4. CASE /\ lastGen < MaxConnects
             /\ slot' = [j \in Keys |->
                           IF j \in ConnectFetches THEN Fetch(slot, j, g)[j]
                                                   ELSE slot[j]]
    <3>1. SUFFICES ASSUME NEW j \in Keys, slot'[j].st # "None"
                   PROVE  slot'[j].gen \in 1..MaxConnects
      OBVIOUS
    <3>2. g \in Gens /\ g \in 1..MaxConnects
      BY <2>2, <2>4
    <3>3. Fetch(slot, j, g)[j] = IF CanSpawn(slot, j, g) THEN NewHandle(g)
                                                         ELSE slot[j]
      BY <3>2, FetchSlot DEF TypeOK
    <3>4. QED
      BY <2>4, <3>1, <3>2, <3>3 DEF NewHandle
  <2>5. QED
    BY <2>1, <2>3, <2>4
<1>6. CASE RepaintFrame \/ InputFrame \/ AfterPoll \/ EndFrame \/ Disconnect
  BY <1>6 DEF RepaintFrame, InputFrame, AfterPoll, EndFrame, Disconnect
<1>7. CASE UNCHANGED vars
  BY <1>7 DEF vars
<1>8. QED
  BY <1>1, <1>2, <1>3, <1>4, <1>5, <1>6, <1>7 DEF Next

LEMMA NextRInv == RInv /\ [Next]_vars => RInv'
BY NextTypeOK, NextGenInv DEF RInv

-----------------------------------------------------------------------------
(* The refinement.                                                         *)

RV == <<Holder, spawned, delivered>>

(* A step that keeps every slot empty or held by the same client, and the *)
(* counts, leaves the registry alone.                                      *)
LEMMA HolderStutter ==
    ASSUME TypeOK,
           \A j \in Keys : /\ (slot'[j].st = "None") = (slot[j].st = "None")
                           /\ slot[j].st # "None" => slot'[j].gen = slot[j].gen,
           spawned' = spawned, delivered' = delivered
    PROVE  UNCHANGED RV
<1>1. Holder' = Holder
  BY DEF Holder, IsSome
<1>2. QED
  BY <1>1 DEF RV

(* Triggers that fill the empty slots S with tasks on client g: a Spawn   *)
(* of the registry, or nothing when S is empty.                            *)
LEMMA SpawnStep ==
    ASSUME RInv, NEW S \in SUBSET Keys, NEW g \in 1..MaxConnects,
           \A j \in S : slot[j].st = "None",
           \A j \in Keys : slot'[j] = IF j \in S THEN NewHandle(g) ELSE slot[j],
           spawned' \in [Keys -> Nat],
           \A j \in Keys : spawned'[j] = IF j \in S THEN spawned[j] + 1
                                                   ELSE spawned[j],
           delivered' = delivered
    PROVE  [Reg!Next]_RV
<1>1. spawned \in [Keys -> Nat]
  BY DEF RInv, TypeOK
<1>2. CASE S = {}
  <2>1. spawned' = spawned
    BY <1>1, <1>2
  <2>2. QED
    BY <1>2, <2>1, HolderStutter DEF RInv
<1>3. CASE S # {}
  <2>1. Reg!Free(S)
    BY DEF Reg!Free, Holder, IsSome
  <2>2. Holder' = Reg!Fill(S, g)
    BY DEF Reg!Fill, Holder, IsSome, NewHandle
  <2>3. spawned' = Reg!Bump(spawned, S)
    BY <1>1 DEF Reg!Bump
  <2>4. Reg!Spawn(S, g)
    BY <1>3, <2>1, <2>2, <2>3 DEF Reg!Spawn
  <2>5. QED
    BY <2>4 DEF Reg!Next
<1>4. QED
  BY <1>2, <1>3

(* Every step of the dispatcher is a step of the registry or leaves it    *)
(* alone.                                                                  *)
LEMMA StepRefines == RInv /\ [Next]_vars => [Reg!Next]_RV
<1> SUFFICES ASSUME RInv, [Next]_vars PROVE [Reg!Next]_RV
  OBVIOUS
<1>0. TypeOK /\ slot \in [Keys -> Slot] /\ spawned \in [Keys -> Nat]
      /\ client \in Gens
  BY DEF RInv, TypeOK
<1>1. ASSUME NEW k \in Keys, Serve(k) PROVE [Reg!Next]_RV
  <2>1. slot' = [slot EXCEPT ![k] = [st |-> "Served", gen |-> slot[k].gen,
                                     out |-> slot'[k].out, ver |-> slot'[k].ver]]
    BY <1>1 DEF Serve
  <2>2. UNCHANGED <<spawned, delivered>>
    BY <1>1 DEF Serve
  <2>3. QED
    BY <1>0, <1>1, <2>1, <2>2, HolderStutter DEF Serve
<1>2. ASSUME NEW k \in Keys, Publish(k) PROVE [Reg!Next]_RV
  BY <1>0, <1>2, HolderStutter DEF Publish
<1>3. ASSUME NEW k \in Keys, Trigger(k) PROVE [Reg!Next]_RV
  <2>1. \/ slot' = slot /\ spawned' = spawned
        \/ /\ CanSpawn(slot, k, client)
           /\ slot' = Fetch(slot, k, client)
           /\ spawned' = Count(slot, spawned, k, client)
    BY <1>3, Zenon DEF Trigger
  <2>2. delivered' = delivered
    BY <1>3 DEF Trigger
  <2>3. CASE slot' = slot /\ spawned' = spawned
    BY <1>0, <2>2, <2>3, HolderStutter
  <2>4. CASE /\ CanSpawn(slot, k, client)
             /\ slot' = Fetch(slot, k, client)
             /\ spawned' = Count(slot, spawned, k, client)
    <3>1. client \in 1..MaxConnects /\ slot[k].st = "None"
      BY <1>0, <2>4 DEF CanSpawn, Gens
    <3>2. \A j \in Keys : slot'[j] = IF j \in {k} THEN NewHandle(client)
                                                   ELSE slot[j]
      BY <1>0, <2>4, FetchSlot
    <3>3. spawned' \in [Keys -> Nat]
      BY <1>0, <2>4, CountType
    <3>4. \A j \in Keys : spawned'[j] = IF j \in {k} THEN spawned[j] + 1
                                                     ELSE spawned[j]
      BY <1>0, <2>4, CountSlot
    <3>5. QED
      BY <2>2, <3>1, <3>2, <3>3, <3>4, SpawnStep
  <2>5. QED
    BY <2>1, <2>3, <2>4
<1>4. CASE RepaintFrame \/ InputFrame \/ AfterPoll \/ EndFrame \/ Disconnect
  <2>1. UNCHANGED <<slot, spawned, delivered>>
    BY <1>4 DEF RepaintFrame, InputFrame, AfterPoll, EndFrame, Disconnect
  <2>2. QED
    BY <1>0, <2>1, HolderStutter
<1>5. CASE PollKey
  <2> DEFINE k == PollOrder[pollIdx]
             h == slot[k]
             cleared == [slot EXCEPT ![k] = NoHandle]
  <2>1. k \in Keys /\ h \in Slot /\ ChannelsKey \in Keys
    BY <1>0, <1>5, PollKeyInKeys, KeysAssumption DEF PollKey, TypeOK
  <2>2. cleared \in [Keys -> Slot]
    BY <1>0, <2>1, EmptyType
  <2>3. CASE h.st \in {"None", "Sent", "Served"}
    <3>1. UNCHANGED <<slot, spawned, delivered>>
      BY <1>5, <2>3, Zenon DEF PollKey
    <3>2. QED
      BY <1>0, <3>1, HolderStutter
  <2>4. CASE h.st = "Ready"
    <3>1. delivered' = [delivered EXCEPT ![k] = @ + 1]
      BY <1>5, <2>4, Zenon DEF PollKey
    <3>2. \/ slot' = cleared /\ spawned' = spawned
          \/ /\ k \in RefetchKeys
             /\ CanSpawn(cleared, ChannelsKey, client)
             /\ slot' = Fetch(cleared, ChannelsKey, client)
             /\ spawned' = Count(cleared, spawned, ChannelsKey, client)
      <4>1. \/ h.out = "ok" /\ OnSuccess(k, h, cleared)
            \/ slot' = cleared /\ spawned' = spawned
        BY <1>5, <2>4, Zenon DEF PollKey
      <4>2. ASSUME OnSuccess(k, h, cleared),
                   ~(k \in RefetchKeys /\ CanSpawn(cleared, ChannelsKey, client))
            PROVE  slot' = cleared /\ spawned' = spawned
        BY <4>2 DEF OnSuccess, Fetch, Count
      <4>3. QED
        BY <4>1, <4>2 DEF OnSuccess
    <3>3. CASE slot' = cleared /\ spawned' = spawned
      <4>1. 1 \in 1..MaxConnects
        BY BoundsAssumption
      <4>2. \A j \in Keys : slot'[j] = IF j = k THEN NoHandle
                                       ELSE IF j \in {} THEN NewHandle(1)
                                       ELSE slot[j]
        BY <1>0, <2>1, <3>3
      <4>3. /\ {} \in SUBSET Keys /\ k \notin {} /\ slot[k].st # "None"
            /\ \A j \in {} : slot[j].st = "None"
            /\ spawned' \in [Keys -> Nat]
            /\ \A j \in Keys : spawned'[j] = IF j \in {} THEN spawned[j] + 1
                                                       ELSE spawned[j]
        BY <1>0, <2>4, <3>3
      <4>4. Holder[k] # 0 /\ Reg!Free({})
        BY <1>0, <2>1, <2>4 DEF RInv, GenInv, Holder, IsSome, Reg!Free
      <4>5. Holder' = [Reg!Fill({}, 1) EXCEPT ![k] = 0]
        <5>1. ASSUME NEW j \in Keys
              PROVE  Holder'[j] = IF j = k THEN 0 ELSE Holder[j]
          BY <4>2 DEF Holder, IsSome, NoHandle
        <5>2. QED
          BY <2>1, <5>1 DEF Reg!Fill, Holder
      <4>6. spawned' = Reg!Bump(spawned, {})
        BY <1>0, <3>3 DEF Reg!Bump
      <4>7. Reg!Route(k, {}, 1)
        BY <3>1, <4>4, <4>5, <4>6 DEF Reg!Route
      <4>8. QED
        BY <2>1, <4>1, <4>7 DEF Reg!Next
    <3>4. CASE /\ k \in RefetchKeys
               /\ CanSpawn(cleared, ChannelsKey, client)
               /\ slot' = Fetch(cleared, ChannelsKey, client)
               /\ spawned' = Count(cleared, spawned, ChannelsKey, client)
      <4>1. k # ChannelsKey
        BY <3>4, KeysAssumption
      <4>2. client \in 1..MaxConnects /\ slot[ChannelsKey].st = "None"
        BY <1>0, <2>1, <3>4, <4>1 DEF CanSpawn, Gens
      <4>3. \A j \in Keys : slot'[j] = IF j = k THEN NoHandle
                                       ELSE IF j \in {ChannelsKey}
                                            THEN NewHandle(client)
                                            ELSE slot[j]
        BY <1>0, <2>1, <2>2, <3>4, <4>1, FetchSlot
      <4>4. spawned' \in [Keys -> Nat]
            /\ \A j \in Keys : spawned'[j] = IF j \in {ChannelsKey}
                                             THEN spawned[j] + 1
                                             ELSE spawned[j]
        <5>1. spawned' \in [Keys -> Nat]
          BY <1>0, <2>1, <2>2, <3>4, CountType
        <5>2. ASSUME NEW j \in Keys
              PROVE  spawned'[j] = IF j \in {ChannelsKey} THEN spawned[j] + 1
                                                          ELSE spawned[j]
          BY <1>0, <2>1, <3>4 DEF Count
        <5>3. QED
          BY <5>1, <5>2
      <4>5. /\ {ChannelsKey} \in SUBSET Keys /\ k \notin {ChannelsKey}
            /\ slot[k].st # "None"
            /\ \A j \in {ChannelsKey} : slot[j].st = "None"
        BY <2>1, <2>4, <4>1, <4>2
      <4>6. Holder[k] # 0 /\ Reg!Free({ChannelsKey})
        BY <1>0, <2>1, <2>4, <4>2 DEF RInv, GenInv, Holder, IsSome, Reg!Free
      <4>7. Holder' = [Reg!Fill({ChannelsKey}, client) EXCEPT ![k] = 0]
        <5>1. ASSUME NEW j \in Keys
              PROVE  Holder'[j] = IF j = k THEN 0
                                  ELSE IF j \in {ChannelsKey} THEN client
                                  ELSE Holder[j]
          BY <4>2, <4>3 DEF Holder, IsSome, NoHandle, NewHandle, Gens
        <5>2. QED
          BY <2>1, <5>1 DEF Reg!Fill, Holder
      <4>8. spawned' = Reg!Bump(spawned, {ChannelsKey})
        BY <1>0, <4>4 DEF Reg!Bump
      <4>9. Reg!Route(k, {ChannelsKey}, client)
        BY <3>1, <4>5, <4>6, <4>7, <4>8 DEF Reg!Route
      <4>10. QED
        BY <2>1, <4>2, <4>9 DEF Reg!Next
    <3>5. QED
      BY <3>2, <3>3, <3>4
  <2>5. QED
    BY <2>1, <2>3, <2>4 DEF Slot
<1>6. CASE Connect
  <2> DEFINE g == lastGen + 1
             S == {j \in ConnectFetches : slot[j].st = "None"}
  <2>1. delivered' = delivered
    BY <1>6 DEF Connect
  <2>2. \/ UNCHANGED <<slot, spawned>>
        \/ /\ lastGen < MaxConnects
           /\ slot' = [j \in Keys |->
                         IF j \in ConnectFetches THEN Fetch(slot, j, g)[j]
                                                 ELSE slot[j]]
           /\ spawned' = [j \in Keys |->
                            IF j \in ConnectFetches
                            THEN Count(slot, spawned, j, g)[j]
                            ELSE spawned[j]]
    BY <1>6, Zenon DEF Connect
  <2>3. CASE UNCHANGED <<slot, spawned>>
    BY <1>0, <2>1, <2>3, HolderStutter
  <2>4. CASE /\ lastGen < MaxConnects
             /\ slot' = [j \in Keys |->
                           IF j \in ConnectFetches THEN Fetch(slot, j, g)[j]
                                                   ELSE slot[j]]
             /\ spawned' = [j \in Keys |->
                              IF j \in ConnectFetches
                              THEN Count(slot, spawned, j, g)[j]
                              ELSE spawned[j]]
    <3>1. g \in 1..MaxConnects /\ g \in Gens /\ S \in SUBSET Keys
      BY <2>4, <1>0, BoundsAssumption, KeysAssumption DEF TypeOK, Gens
    <3>2. ASSUME NEW j \in Keys
          PROVE  /\ slot'[j] = IF j \in S THEN NewHandle(g) ELSE slot[j]
                 /\ spawned'[j] = IF j \in S THEN spawned[j] + 1
                                             ELSE spawned[j]
      <4>1. Fetch(slot, j, g)[j] = IF CanSpawn(slot, j, g) THEN NewHandle(g)
                                                           ELSE slot[j]
        BY <1>0, <3>1, FetchSlot
      <4>2. Count(slot, spawned, j, g)[j] =
              IF CanSpawn(slot, j, g) THEN spawned[j] + 1 ELSE spawned[j]
        BY <1>0, <3>1, CountSlot
      <4>3. QED
        BY <2>4, <3>1, <4>1, <4>2 DEF CanSpawn
    <3>3. spawned' \in [Keys -> Nat]
      BY <1>0, <2>4, <3>2
    <3>4. QED
      BY <2>1, <3>1, <3>2, <3>3, SpawnStep
  <2>5. QED
    BY <2>2, <2>3, <2>4
<1>7. CASE UNCHANGED vars
  BY <1>0, <1>7, HolderStutter DEF vars
<1>8. QED
  BY <1>1, <1>2, <1>3, <1>4, <1>5, <1>6, <1>7 DEF Next

(* The initial registry is empty with no spawns and no deliveries.        *)
LEMMA InitRefines == Init => Reg!Init
BY DEF Init, Reg!Init, Holder, IsSome, NoHandle

(* The dispatcher implements the registry contract of the spec: every     *)
(* trigger (connect()'s fetches and the refetch of a channel mutation      *)
(* included) fills only empty slots, a task keeps the client it captured  *)
(* until the drain routes its outcome and clears its slot, and nothing    *)
(* else (a remote call returning, a task publishing, a try_take that finds *)
(* nothing, disconnect()) changes a slot, for every set of keys, poll     *)
(* order and bounds.                                                       *)
THEOREM RefinesRegistry == Spec => ImplementsRegistry
<1>1. Init => RInv /\ Reg!Init
  BY InitRInv, InitRefines
<1>2. RInv /\ [Next]_vars => RInv'
  BY NextRInv
<1>3. RInv /\ [Next]_vars => [Reg!Next]_RV
  BY StepRefines
<1>4. QED
  BY <1>1, <1>2, <1>3, PTL DEF Spec, ImplementsRegistry, Reg!Spec, Reg!rvars, RV

=============================================================================
