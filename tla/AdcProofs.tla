------------------------------ MODULE AdcProofs ------------------------------
(***************************************************************************)
(* Proofs about Adc, for every number of channels, of other holders of the *)
(* sleep lock and of lost decrements.                                      *)
(***************************************************************************)
EXTENDS Adc, TLAPS, WellFoundedInduction

\* What the running conversion contributes to the lock.
Conversion == IF converting = "off" THEN 0 ELSE 1

(***************************************************************************)
(* The lock counts its holders: the others, the conversion, and a surplus  *)
(* of one for each decrement that was overwritten.  While the main program *)
(* is between the load and the store that change it, the count is what the *)
(* store will leave.                                                       *)
(***************************************************************************)
Balance ==
    /\ pc = "load" => disable_sleep + step = holders + Conversion + lost
    /\ pc = "store" => register + step = holders + Conversion + lost
    /\ pc \notin {"load", "store"} => disable_sleep = holders + Conversion + lost

\* The converter is taken from the start of a conversion to the release by the
\* task, and what comes between comes in turn.
InTurn ==
    /\ NeverWedged
    /\ planned => converting = "off"
    /\ pc = "task" => channel_in_progress = NONE

IInv == TypeOK /\ Balance /\ InTurn

-------------------------------------------------------------------------------
\* The search ends at a channel: of those that wait one is the nearest.
LEMMA NearestExists ==
    ASSUME TypeOK, Waiting # {}
    PROVE  NextPending \in Waiting
  <1> DEFINE D == {Distance(c) : c \in Waiting}
             R == OpToRel(<, Nat)
  <1>1. D \subseteq Nat
    <2> SUFFICES ASSUME NEW c \in Waiting PROVE Distance(c) \in Nat
        OBVIOUS
    <2>1. c \in Int /\ finished \in Int /\ ChannelCount \in Nat /\ ChannelCount > 0
        BY ChannelAssumption DEF TypeOK, Waiting, Channel
    <2> QED
        BY <2>1 DEF Distance
  <1>2. D # {}
      OBVIOUS
  <1>3. IsWellFoundedOn(R, Nat)
      BY NatLessThanWellFounded
  <1> HIDE DEF R
  <1>4. PICK x \in D : \A y \in D : ~(<<y, x>> \in R)
      BY <1>1, <1>2, <1>3, WFMin
  <1>5. \A y \in D : ~(y < x)
      BY <1>1, <1>4 DEF R, OpToRel
  <1>6. \A y \in D : x <= y
      BY <1>1, <1>5
  <1>7. PICK c \in Waiting : \A d \in Waiting : Distance(c) <= Distance(d)
      BY <1>6
  <1> QED
      BY <1>7 DEF NextPending

LEMMA InitIInv == Init => IInv
  <1> SUFFICES ASSUME Init PROVE IInv
      OBVIOUS
  <1>1. 0 \in Channel /\ 0 \in 0..MaxHolders /\ 0 \in 0..MaxLost
      BY ChannelAssumption, BoundAssumption DEF Channel
  <1>2. planned \in BOOLEAN /\ pending \subseteq Channel /\ owed \subseteq Channel
      BY DEF Init
  <1>3. TypeOK
      BY <1>1, <1>2 DEF Init, TypeOK
  <1>4. Balance
      BY DEF Init, Balance, Conversion
  <1>5. ~planned
      BY DEF Init
  <1>6. InTurn
      BY <1>5 DEF Init, InTurn, NeverWedged
  <1> QED
      BY <1>3, <1>4, <1>6 DEF IInv

-------------------------------------------------------------------------------
\* Every step keeps the variables in their types.
LEMMA TypeStep == ASSUME IInv, [Next]_vars PROVE TypeOK'
  <1> USE DEF IInv, TypeOK
  <1>1. ASSUME NEW c \in Channel, AsyncMeasure(c) PROVE TypeOK'
      BY <1>1 DEF AsyncMeasure, Application, Starts, Locks
  <1>2. ASSUME NEW c \in Channel, AsyncPends(c) PROVE TypeOK'
      BY <1>2 DEF AsyncPends, lock
  <1>3. CASE OtherLocks
      BY <1>3, BoundAssumption DEF OtherLocks, Application, Locks, adc
  <1>4. CASE LockLoad \/ LockStore
      BY <1>4 DEF LockLoad, LockStore, adc
  <1>5. CASE Converts
      BY <1>5 DEF Converts, lock
  <1>6. CASE IrqReference
      BY <1>6 DEF IrqReference, lock
  <1>7. CASE IrqInput
      BY <1>7, BoundAssumption DEF IrqInput
  <1>8. CASE TaskReleases
    <2>1. channel_in_progress \in Channel
        BY <1>8 DEF TaskReleases, InTurn, NeverWedged
    <2> QED
        BY <1>8, <2>1 DEF TaskReleases
  <1>9. CASE TaskStartsNext
    <2>1. CASE Waiting = {}
        BY <1>9, <2>1 DEF TaskStartsNext, adc
    <2>2. CASE Waiting # {}
      <3>1. NextPending \in Channel
          BY <2>2, NearestExists DEF Waiting
      <3> HIDE DEF TypeOK
      <3>2. Starts(NextPending) /\ pending' = pending \ {NextPending}
            /\ disable_sleep' = disable_sleep + 1 /\ UNCHANGED planned /\ pc' = "notify"
            /\ UNCHANGED <<return, step, register, finished, holders, lost, owed>>
          BY <1>9, <2>2 DEF TaskStartsNext
      <3> QED
          BY <3>1, <3>2 DEF Starts, TypeOK
    <2> QED
        BY <2>1, <2>2
  <1>10. CASE TaskNotifies
      BY <1>10 DEF TaskNotifies, adc
  <1>11. CASE TaskReturns
      BY <1>11 DEF TaskReturns, adc
  <1>12. CASE UNCHANGED vars
      BY <1>12 DEF vars
  <1> QED
      BY <1>1, <1>2, <1>3, <1>4, <1>5, <1>6, <1>7, <1>8, <1>9, <1>10, <1>11, <1>12
      DEF Next, Irq, Task

\* Every step keeps the converter in turn.
LEMMA InTurnStep == ASSUME IInv, [Next]_vars PROVE InTurn'
  <1> USE DEF IInv, InTurn, NeverWedged
  <1>0. TypeOK /\ NONE \notin Channel
      BY ChannelAssumption DEF NONE, Channel
  <1>1. ASSUME NEW c \in Channel, AsyncMeasure(c) PROVE InTurn'
      BY <1>0, <1>1 DEF AsyncMeasure, Starts, Locks
  <1>2. ASSUME NEW c \in Channel, AsyncPends(c) PROVE InTurn'
      BY <1>2 DEF AsyncPends, lock
  <1>3. CASE OtherLocks
      BY <1>3 DEF OtherLocks, Locks, adc
  <1>4. CASE LockLoad \/ LockStore
      BY <1>4 DEF LockLoad, LockStore, adc, TypeOK
  <1>5. CASE Converts
      BY <1>5 DEF Converts, lock
  <1>6. CASE IrqReference
      BY <1>6 DEF IrqReference, lock
  <1>7. CASE IrqInput
      BY <1>7 DEF IrqInput
  <1>8. CASE TaskReleases
      BY <1>8 DEF TaskReleases
  <1>9. CASE TaskStartsNext
    <2>1. CASE Waiting = {}
        BY <1>9, <2>1 DEF TaskStartsNext, adc
    <2>2. CASE Waiting # {}
      <3>1. NextPending \in Channel
          BY <2>2, NearestExists DEF Waiting, TypeOK
      <3>2. ~planned
          BY <1>9 DEF TaskStartsNext
      <3> QED
          BY <1>0, <1>9, <2>2, <3>1, <3>2 DEF TaskStartsNext, Starts
    <2> QED
        BY <2>1, <2>2
  <1>10. CASE TaskNotifies
      BY <1>10 DEF TaskNotifies, adc
  <1>11. CASE TaskReturns
      BY <1>11 DEF TaskReturns, adc
  <1>12. CASE UNCHANGED vars
      BY <1>12 DEF vars
  <1> QED
      BY <1>1, <1>2, <1>3, <1>4, <1>5, <1>6, <1>7, <1>8, <1>9, <1>10, <1>11, <1>12
      DEF Next, Irq, Task

\* Every step keeps the count of the lock, also an interrupt between the load
\* and the store of the main program: it is then the surplus that grows.
LEMMA BalanceStep == ASSUME IInv, [Next]_vars PROVE Balance'
  <1> USE DEF IInv, Balance, Conversion
  <1>0. /\ disable_sleep \in Int /\ register \in Int /\ step \in Int
        /\ holders \in Nat /\ lost \in Nat
      BY BoundAssumption DEF TypeOK
  <1>1. ASSUME NEW c \in Channel, AsyncMeasure(c) PROVE Balance'
    <2>1. converting = "off" /\ pc \in {"idle", "event"}
        BY <1>1 DEF AsyncMeasure, Application, InTurn, NeverWedged
    <2> QED
        BY <1>0, <1>1, <2>1 DEF AsyncMeasure, Starts, Locks
  <1>2. ASSUME NEW c \in Channel, AsyncPends(c) PROVE Balance'
      BY <1>2 DEF AsyncPends, lock
  <1>3. CASE OtherLocks
      BY <1>0, <1>3 DEF OtherLocks, Application, Locks, adc
  <1>4. CASE LockLoad
      BY <1>4 DEF LockLoad, adc
  <1>5. CASE LockStore
      BY <1>5 DEF LockStore, adc, TypeOK
  <1>6. CASE Converts
      BY <1>6 DEF Converts, lock
  <1>7. CASE IrqReference
      BY <1>7 DEF IrqReference, lock
  <1>8. CASE IrqInput
      BY <1>0, <1>8 DEF IrqInput
  <1>9. CASE TaskReleases
      BY <1>9 DEF TaskReleases
  <1>10. CASE TaskStartsNext
    <2>1. CASE Waiting = {}
        BY <1>10, <2>1 DEF TaskStartsNext, adc
    <2>2. CASE Waiting # {}
      <3>1. converting = "off"
          BY <1>10 DEF TaskStartsNext, InTurn, NeverWedged
      <3> QED
          BY <1>0, <1>10, <2>2, <3>1 DEF TaskStartsNext, Starts
    <2> QED
        BY <2>1, <2>2
  <1>11. CASE TaskNotifies
      BY <1>11 DEF TaskNotifies, adc
  <1>12. CASE TaskReturns
      BY <1>12 DEF TaskReturns, adc
  <1>13. CASE UNCHANGED vars
      BY <1>13 DEF vars
  <1> QED
      BY <1>1, <1>2, <1>3, <1>4, <1>5, <1>6, <1>7, <1>8, <1>9, <1>10, <1>11, <1>12, <1>13
      DEF Next, Irq, Task

LEMMA Invariance == Spec => []IInv
  <1>1. IInv /\ [Next]_vars => IInv'
      BY TypeStep, InTurnStep, BalanceStep DEF IInv
  <1> QED
      BY InitIInv, <1>1, PTL DEF Spec

-------------------------------------------------------------------------------
(***************************************************************************)
(* The values of the ADC driver stay in their types; that twr_adc.c takes  *)
(* the next channel from its pending flags is all that needs an argument.  *)
(***************************************************************************)
THEOREM TypesHold == Spec => []TypeOK
  BY Invariance, PTL DEF IInv

(***************************************************************************)
(* twr_sleep() is never entered with the lock at zero while a conversion   *)
(* or another part of the program holds it, although its increments and    *)
(* decrements are neither masked nor atomic.                               *)
(***************************************************************************)
THEOREM NeverAsleepInConversion == Spec => []AwakeWhileBusy
  <1>1. IInv => AwakeWhileBusy
    <2> SUFFICES ASSUME IInv, pc = "idle", converting # "off" \/ holders > 0
                 PROVE  disable_sleep > 0
        BY DEF AwakeWhileBusy
    <2>1. holders \in Nat /\ lost \in Nat
        BY BoundAssumption DEF IInv, TypeOK
    <2>2. disable_sleep = holders + Conversion + lost
        BY DEF IInv, Balance
    <2> QED
        BY <2>1, <2>2 DEF Conversion
  <1> QED
      BY Invariance, <1>1, PTL

(***************************************************************************)
(* The converter is never left taken with neither a conversion running nor *)
(* the task of twr_adc.c planned to release it.                            *)
(***************************************************************************)
THEOREM ConverterReleased == Spec => []NeverWedged
  BY Invariance, PTL DEF IInv, InTurn
===============================================================================
