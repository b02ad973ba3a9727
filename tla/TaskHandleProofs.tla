-------------------------- MODULE TaskHandleProofs --------------------------
(***************************************************************************)
(* Proof that the task handles of task.rs keep the safety part of the     *)
(* one-shot contract on both targets, for every set of keys and outcomes: *)
(* under the refinement mapping OS of TaskHandle every step of the        *)
(* implementation is a step of OneShot or leaves its state alone.         *)
(***************************************************************************)
EXTENDS TaskHandle, TLAPS

(* The inductive invariant: a channel holds at most the one outcome the    *)
(* future produced, and only after the future published; the same for    *)
(* the wasm cell.  It is what makes a receive return the published         *)
(* outcome and leave the handle empty.                                    *)
HInv ==
    /\ TypeOK
    /\ \A k \in Keys :
         /\ chan[k] = <<>> \/ (task[k] = "Sent" /\ chan[k] = <<sent[k]>>)
         /\ cell[k] = NoOutcome \/ (task[k] = "Sent" /\ cell[k] = sent[k])

(* The abstract state of every handle under the refinement mapping.      *)
StMap == [k \in Keys |-> IF task[k] = "Sent"
                         THEN IF Held(k) THEN "Done" ELSE "Taken"
                         ELSE "Pending"]

-----------------------------------------------------------------------------
LEMMA InitHInv == Init => HInv
BY TaskHandleAssumption DEF Init, HInv, TypeOK

LEMMA NextHInv == HInv /\ [Next]_vars => HInv'
<1> SUFFICES ASSUME HInv, [Next]_vars PROVE HInv'
  OBVIOUS
<1>1. ASSUME NEW k \in Keys, NEW o \in Outcomes, Finish(k, o) PROVE HInv'
  <2>1. chan[k] = <<>> /\ cell[k] = NoOutcome
    BY <1>1 DEF Finish, HInv
  <2>2. CASE Native
    <3>1. /\ task' = [task EXCEPT ![k] = "Sent"]
          /\ sent' = [sent EXCEPT ![k] = o]
          /\ chan' = [chan EXCEPT ![k] = <<o>>]
          /\ UNCHANGED <<cell, got>>
      BY <1>1, <2>1, <2>2 DEF Finish
    <3>2. <<o>> \in Seq(Outcomes)
      OBVIOUS
    <3>3. TypeOK'
      BY <3>1, <3>2 DEF HInv, TypeOK
    <3>4. ASSUME NEW j \in Keys
          PROVE  /\ chan'[j] = <<>> \/ (task'[j] = "Sent" /\ chan'[j] = <<sent'[j]>>)
                 /\ cell'[j] = NoOutcome \/ (task'[j] = "Sent" /\ cell'[j] = sent'[j])
      BY <3>1, <2>1 DEF HInv, TypeOK
    <3>5. QED
      BY <3>3, <3>4 DEF HInv
  <2>3. CASE ~Native
    BY <1>1, <2>1, <2>3 DEF Finish, HInv, TypeOK
  <2>4. QED
    BY <2>2, <2>3
<1>2. ASSUME NEW k \in Keys, Panic(k) PROVE HInv'
  <2>1. chan[k] = <<>> /\ cell[k] = NoOutcome
    BY <1>2 DEF Panic, HInv
  <2>2. QED
    BY <1>2, <2>1 DEF Panic, HInv, TypeOK
<1>3. ASSUME NEW k \in Keys, TryTake(k) PROVE HInv'
  <2>1. UNCHANGED <<task, sent>>
    BY <1>3 DEF TryTake
  <2>2. CASE Native /\ chan[k] # <<>>
    <3>1. chan[k] = <<sent[k]>> /\ sent[k] \in Outcomes
      BY <2>2 DEF HInv, TypeOK
    <3>2. got' = [got EXCEPT ![k] = sent[k]] /\ chan' = [chan EXCEPT ![k] = <<>>]
          /\ cell' = cell
      BY <1>3, <2>2, <3>1 DEF TryTake, TryRecv
    <3>3. QED
      BY <2>1, <3>1, <3>2 DEF HInv, TypeOK
  <2>3. CASE Native /\ chan[k] = <<>>
    <3>1. got' = [got EXCEPT ![k] = "None"] /\ chan' = chan /\ cell' = cell
      BY <1>3, <2>3 DEF TryTake, TryRecv
    <3>2. QED
      BY <2>1, <3>1 DEF HInv, TypeOK
  <2>4. CASE ~Native
    <3>1. got' = [got EXCEPT ![k] = IF cell[k] = NoOutcome THEN "None" ELSE cell[k]]
          /\ cell' = [cell EXCEPT ![k] = NoOutcome] /\ chan' = chan
      BY <1>3, <2>4 DEF TryTake, TakeCell
    <3>2. QED
      BY <2>1, <3>1 DEF HInv, TypeOK
  <2>5. QED
    BY <2>2, <2>3, <2>4
<1>4. CASE UNCHANGED vars
  BY <1>4 DEF vars, HInv, TypeOK
<1>5. QED
  BY <1>1, <1>2, <1>3, <1>4 DEF Next

-----------------------------------------------------------------------------
(* The refinement.                                                         *)

(* Freshly spawned handles are pending, with no outcome and no call yet. *)
LEMMA InitRefines == Init => OS!Init
BY DEF Init, OS!Init, Held

(* A future that returns completes its handle: the channel or the cell   *)
(* now holds the outcome.                                                 *)
LEMMA FinishRefines ==
    ASSUME HInv, NEW k \in Keys, NEW o \in Outcomes, Finish(k, o)
    PROVE  OS!Complete(k, o)
<1>1. chan[k] = <<>> /\ cell[k] = NoOutcome /\ task[k] = "Running"
  BY DEF Finish, HInv
<1>2. Held(k)'
  <2>1. CASE Native
    <3>1. chan'[k] = Append(chan[k], o)
      BY <2>1 DEF Finish, HInv, TypeOK
    <3>2. QED
      BY <1>1, <2>1, <3>1 DEF Held
  <2>2. CASE ~Native
    <3>1. cell'[k] = o
      BY <2>2 DEF Finish, HInv, TypeOK
    <3>2. QED
      BY <2>2, <3>1, TaskHandleAssumption DEF Held
  <2>3. QED
    BY <2>1, <2>2
<1>3. \A j \in Keys \ {k} : Held(j)' = Held(j) /\ task'[j] = task[j]
  BY DEF Finish, Held, HInv, TypeOK
<1>4. StMap[k] = "Pending" /\ StMap' = [StMap EXCEPT ![k] = "Done"]
  BY <1>1, <1>2, <1>3 DEF StMap, Finish, HInv, TypeOK
<1>5. QED
  BY <1>4 DEF OS!Complete, StMap, Finish

(* A panic before publishing leaves the handle pending for ever.          *)
LEMMA PanicRefines ==
    ASSUME HInv, NEW k \in Keys, Panic(k)
    PROVE  UNCHANGED <<StMap, sent, got>>
<1>1. \A j \in Keys : Held(j)' = Held(j)
  BY DEF Panic, Held
<1>2. task[k] = "Running" /\ task'[k] = "Panicked"
      /\ \A j \in Keys \ {k} : task'[j] = task[j]
  BY DEF Panic, HInv, TypeOK
<1>3. StMap' = StMap
  BY <1>1, <1>2 DEF StMap
<1>4. QED
  BY <1>3 DEF Panic

(* try_take takes the published outcome exactly once and answers None    *)
(* otherwise.                                                             *)
LEMMA TryTakeRefines ==
    ASSUME HInv, NEW k \in Keys, TryTake(k)
    PROVE  OS!Take(k) \/ OS!TakeNone(k)
<1>1. UNCHANGED <<task, sent>>
  BY DEF TryTake
<1>2. \A j \in Keys \ {k} : Held(j)' = Held(j)
  BY DEF TryTake, TryRecv, TakeCell, Held, HInv, TypeOK
<1>3. CASE Held(k)
  <2>1. task[k] = "Sent" /\ got' = [got EXCEPT ![k] = sent[k]] /\ ~Held(k)'
    <3>1. CASE Native
      <4>1. chan[k] # <<>>
        BY <1>3, <3>1 DEF Held
      <4>2. chan[k] = <<>> \/ (task[k] = "Sent" /\ chan[k] = <<sent[k]>>)
        BY DEF HInv
      <4>3. task[k] = "Sent" /\ chan[k] = <<sent[k]>>
        BY <4>1, <4>2
      <4>4. QED
        BY <3>1, <4>3 DEF Held, HInv, TypeOK, TryTake, TryRecv
    <3>2. CASE ~Native
      <4>1. cell[k] = sent[k] /\ cell[k] # NoOutcome
        BY <1>3, <3>2 DEF Held, HInv
      <4>2. QED
        BY <1>3, <3>2, <4>1 DEF Held, HInv, TypeOK, TryTake, TakeCell
    <3>3. QED
      BY <3>1, <3>2
  <2>2. StMap[k] = "Done" /\ StMap' = [StMap EXCEPT ![k] = "Taken"]
    BY <1>1, <1>2, <1>3, <2>1 DEF StMap, HInv, TypeOK
  <2>3. QED
    BY <1>1, <2>1, <2>2 DEF OS!Take, StMap
<1>4. CASE ~Held(k)
  <2>1. got' = [got EXCEPT ![k] = "None"] /\ ~Held(k)'
    <3>1. CASE Native
      BY <1>4, <3>1 DEF Held, HInv, TypeOK, TryTake, TryRecv
    <3>2. CASE ~Native
      BY <1>4, <3>2 DEF Held, HInv, TypeOK, TryTake, TakeCell
    <3>3. QED
      BY <3>1, <3>2
  <2>2. StMap[k] # "Done" /\ StMap' = StMap
    BY <1>1, <1>2, <1>4, <2>1 DEF StMap, HInv, TypeOK
  <2>3. QED
    BY <1>1, <2>1, <2>2 DEF OS!TakeNone, StMap
<1>5. QED
  BY <1>3, <1>4

LEMMA StepRefines == HInv /\ [Next]_vars => [OS!Next]_<<StMap, sent, got>>
<1> SUFFICES ASSUME HInv, [Next]_vars
             PROVE  [OS!Next]_<<StMap, sent, got>>
  OBVIOUS
<1>1. ASSUME NEW k \in Keys, NEW o \in Outcomes, Finish(k, o)
      PROVE  OS!Next
  BY <1>1, FinishRefines DEF OS!Next
<1>2. ASSUME NEW k \in Keys, Panic(k)
      PROVE  UNCHANGED <<StMap, sent, got>>
  BY <1>2, PanicRefines
<1>3. ASSUME NEW k \in Keys, TryTake(k)
      PROVE  OS!Next
  BY <1>3, TryTakeRefines DEF OS!Next
<1>4. CASE UNCHANGED vars
  BY <1>4 DEF vars, StMap, Held
<1>5. QED
  BY <1>1, <1>2, <1>3, <1>4 DEF Next

(* Both implementations of task.rs keep the safety part of the one-shot  *)
(* contract, for every set of handles and outcomes: try_take answers None *)
(* until the future publishes, its outcome exactly once, then None.       *)
THEOREM RefinesOneShot == Spec => OS!SafetySpec
<1>1. Init => HInv /\ OS!Init
  BY InitHInv, InitRefines
<1>2. HInv /\ [Next]_vars => HInv' /\ [OS!Next]_<<StMap, sent, got>>
  BY NextHInv, StepRefines
<1>3. QED
  BY <1>1, <1>2, PTL DEF Spec, OS!SafetySpec, StMap

=============================================================================
