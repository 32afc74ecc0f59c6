------------------------------ MODULE TaskProofs -------------------------------
(***************************************************************************)
(* Proofs about Scheduler, for every pool size, tick width and delay set;  *)
(* and about UartRead, whose read is one of the tasks in that pool, on the *)
(* same tick, for every FIFO and set of timeouts.                          *)
(***************************************************************************)
EXTENDS Scheduler, UartRead, TLAPS

(***************************************************************************)
(* SpinServesAll needs to know where the scan stands: what was promised to *)
(* this spin and not yet served lies at or after current_task_id, or after *)
(* it while that task's body runs, and by Reachable not above the bound.   *)
(***************************************************************************)
Ahead ==
    /\ promised \subseteq registered
    /\ \A id \in promised : tick_execution[id] <= tick_spin
    /\ pc = "scan" => \A id \in promised : id >= current_task_id
    /\ pc = "body" => \A id \in promised : id > current_task_id
    /\ pc \in {"idle", "asleep", "spin"} => promised = {}
    /\ pc = "body" => current_task_id < MaxTasks

IInv == TypeOK /\ Reachable /\ Tight /\ Ahead

Unwrap == /\ MaxTasks \in Nat /\ MaxTasks > 0
          /\ Infinity \in Nat /\ MaxTick \in Nat /\ MaxTick < Infinity
          /\ Delay \subseteq 0..Infinity
          /\ MaxCalls \in Nat

LEMMA Constants == Unwrap
  BY TasksAssumption, TickAssumption, DelayAssumption, CallsAssumption DEF Unwrap, Tick

\* The wrapped sum of two ticks is a tick.
LEMMA AfterIsTick == \A a, b \in Tick : After(a, b) \in Tick
  <1> SUFFICES ASSUME NEW a \in Tick, NEW b \in Tick PROVE After(a, b) \in Tick
      OBVIOUS
  <1>1. a + b \in Nat /\ Infinity + 1 \in Nat /\ Infinity + 1 > 0
      BY Constants DEF Unwrap, Tick
  <1>2. (a + b) % (Infinity + 1) \in 0..Infinity
      BY <1>1, Constants DEF Unwrap
  <1> QED
      BY <1>2 DEF After, Tick

LEMMA InitIInv == Init => IInv
  <1> SUFFICES ASSUME Init PROVE IInv
      OBVIOUS
  <1>1. TypeOK
      BY Constants DEF Init, TypeOK, Id, Tick, Unwrap
  <1>2. Reachable /\ Tight /\ Ahead
      BY Constants DEF Init, Reachable, Tight, Ahead, Unwrap
  <1> QED
      BY <1>1, <1>2 DEF IInv

-------------------------------------------------------------------------------
\* Planning a slot moves its deadline and may only take promises back.
LEMMA PlanStep ==
    ASSUME IInv, NEW id \in Id, NEW tick \in Tick, Plan(id, tick)
    PROVE  /\ registered' \subseteq Id /\ tick_execution' \in [Id -> Tick]
           /\ max_task_id' \in Id
           /\ Reachable' /\ Tight'
           /\ promised' \subseteq promised
           /\ promised' \subseteq registered'
           /\ \A p \in promised' : tick_execution'[p] <= tick_spin
  BY DEF IInv, TypeOK, Reachable, Tight, Ahead, Plan, StillPromised

\* A registration takes the first free slot and raises the bound to it.
LEMMA RegisterStep ==
    ASSUME IInv, NEW tick \in Tick, Register(tick)
    PROVE  /\ registered' \subseteq Id /\ tick_execution' \in [Id -> Tick]
           /\ max_task_id' \in Id
           /\ Reachable' /\ Tight'
           /\ promised' \subseteq promised
           /\ promised' \subseteq registered'
           /\ \A p \in promised' : tick_execution'[p] <= tick_spin
  <1>1. PICK id \in Id :
            /\ FirstFree(id)
            /\ registered' = registered \cup {id}
            /\ tick_execution' = [tick_execution EXCEPT ![id] = tick]
            /\ max_task_id' = IF max_task_id < id THEN id ELSE max_task_id
            /\ UNCHANGED promised
      BY DEF Register
  <1>2. id \notin promised
      BY <1>1 DEF FirstFree, IInv, Ahead
  <1>3. \A j \in registered : j \in Nat /\ j <= max_task_id
      BY Constants DEF IInv, Reachable, TypeOK, Id, Unwrap
  <1>4. id \in Nat /\ max_task_id \in Nat
      BY Constants DEF IInv, TypeOK, Id, Unwrap
  <1>5. Reachable'
      BY <1>1, <1>3, <1>4 DEF Reachable
  <1>6. Tight'
      BY <1>1, <1>4 DEF IInv, Tight
  <1> QED
      BY <1>1, <1>2, <1>5, <1>6 DEF IInv, TypeOK, Ahead

\* A removal frees the slot; when it was the bound, the bound walks down to the
\* next live slot and stops there, so no live slot is left above it.
LEMMA UnregisterStep ==
    ASSUME IInv, NEW id \in Id, Unregister(id)
    PROVE  /\ registered' \subseteq Id /\ tick_execution' \in [Id -> Tick]
           /\ max_task_id' \in Id
           /\ Reachable' /\ Tight'
           /\ promised' \subseteq promised
           /\ promised' \subseteq registered'
           /\ \A p \in promised' : tick_execution'[p] <= tick_spin
  <1>0. /\ max_task_id \in Nat /\ max_task_id < MaxTasks /\ MaxTasks \in Nat
        /\ \A j \in registered : j \in Nat /\ j <= max_task_id
      BY Constants DEF IInv, Reachable, TypeOK, Id, Unwrap
  <1>1. max_task_id' \in Id /\ Reachable' /\ Tight'
    <2>1. CASE max_task_id = id
      <3>1. PICK top \in 0..max_task_id :
                /\ \A j \in top + 1..max_task_id : j \notin registered'
                /\ top = 0 \/ top \in registered'
                /\ max_task_id' = top
          BY <2>1 DEF Unregister, WalkDown
      <3>2. \A j \in registered' : j \in 0..top
        <4> SUFFICES ASSUME NEW j \in registered' PROVE j \in 0..top
            OBVIOUS
        <4>1. j \in Nat /\ j <= max_task_id
            BY <1>0 DEF Unregister
        <4>2. ~(j \in top + 1..max_task_id)
            BY <3>1
        <4> QED
            BY <1>0, <4>1, <4>2
      <3> QED
          BY <1>0, <3>1, <3>2 DEF Reachable, Tight, Id
    <2>2. CASE max_task_id # id
        BY <2>2 DEF Unregister, IInv, TypeOK, Reachable, Tight
    <2> QED
        BY <2>1, <2>2
  <1> QED
      BY <1>1 DEF Unregister, StillPromised, IInv, TypeOK, Ahead

-------------------------------------------------------------------------------
\* Every step of the run loop keeps the invariant.
LEMMA RunStep == ASSUME IInv, Run PROVE IInv'
  <1> USE Constants DEF Unwrap, Id, Tick
  <1>0. /\ max_task_id \in Nat /\ max_task_id < MaxTasks /\ current_task_id \in 0..MaxTasks
        /\ \A j \in registered : j \in Nat /\ j <= max_task_id
      BY DEF IInv, Reachable, TypeOK
  <1>1. CASE Spin
    <2>1. TypeOK'
        BY <1>1 DEF IInv, TypeOK, Spin, pool
    <2>2. Reachable' /\ Tight'
        BY <1>1 DEF IInv, Reachable, Tight, Spin, pool
    <2>3. Ahead'
        BY <1>1 DEF IInv, Ahead, Spin, pool, Due, TypeOK
    <2> QED
        BY <2>1, <2>2, <2>3 DEF IInv
  <1>2. CASE Skip
    <2>1. current_task_id \notin promised
        BY <1>2 DEF IInv, Ahead, Skip, Due
    <2>2. TypeOK'
        BY <1>0, <1>2 DEF IInv, TypeOK, Skip, pool
    <2>3. Reachable' /\ Tight'
        BY <1>2 DEF IInv, Reachable, Tight, Skip, pool
    <2>4. \A id \in promised : id >= current_task_id + 1
        BY <1>0, <1>2, <2>1 DEF IInv, TypeOK, Ahead, Skip
    <2>5. Ahead'
        BY <1>2, <2>4 DEF IInv, Ahead, Skip, pool
    <2> QED
        BY <2>2, <2>3, <2>5 DEF IInv
  <1>3. CASE StartTask
    <2>1. TypeOK'
        BY <1>3 DEF IInv, TypeOK, StartTask
    <2>2. Reachable' /\ Tight'
        BY <1>3 DEF IInv, Reachable, Tight, StartTask
    <2>3. \A id \in promised' : id > current_task_id /\ id # current_task_id
        BY <1>0, <1>3 DEF IInv, TypeOK, Ahead, StartTask
    <2>4. \A id \in promised' : tick_execution'[id] <= tick_spin
        BY <1>3, <2>3 DEF IInv, TypeOK, Ahead, StartTask
    <2>5. Ahead'
        BY <1>0, <1>3, <2>3, <2>4 DEF IInv, Ahead, StartTask
    <2> QED
        BY <2>1, <2>2, <2>5 DEF IInv
  <1>4. CASE EndSpin
    <2>1. promised = {}
      <3>1. \A id \in promised : id \in Nat /\ id <= max_task_id /\ id >= current_task_id
          BY <1>0, <1>4 DEF IInv, Ahead, EndSpin
      <3> QED
          BY <1>0, <1>4, <3>1 DEF EndSpin
    <2>2. TypeOK' /\ Reachable' /\ Tight'
        BY <1>4 DEF IInv, TypeOK, Reachable, Tight, EndSpin, pool
    <2>3. Ahead'
        BY <1>4, <2>1 DEF IInv, Ahead, EndSpin, pool
    <2> QED
        BY <2>2, <2>3 DEF IInv
  <1>5. CASE Idle
      BY <1>5 DEF IInv, TypeOK, Reachable, Tight, Ahead, Idle, pool
  <1>6. CASE BodyCall
    <2>1. /\ registered' \subseteq Id /\ tick_execution' \in [Id -> Tick]
          /\ max_task_id' \in Id
          /\ Reachable' /\ Tight'
          /\ promised' \subseteq promised
          /\ promised' \subseteq registered'
          /\ \A p \in promised' : tick_execution'[p] <= tick_spin
      <3>1. \A tick \in 0..MaxTick \cup {Infinity} : tick \in Tick
          OBVIOUS
      <3>2. \A delay \in Delay : /\ After(tick_spin, delay) \in Tick
                                 /\ After(now, delay) \in Tick
        <4>1. tick_spin \in 0..Infinity /\ now \in 0..Infinity /\ Delay \subseteq 0..Infinity
            BY DEF IInv, TypeOK
        <4>2. \A a, b \in 0..Infinity : After(a, b) \in 0..Infinity
            BY AfterIsTick
        <4> QED
            BY <4>1, <4>2
      <3>3. CASE \E tick \in 0..MaxTick \cup {Infinity} : Register(tick)
          BY <3>1, <3>3, RegisterStep
      <3>4. CASE \E id \in Id : Unregister(id)
          BY <3>4, UnregisterStep
      <3>5. CASE \E id \in Id : \/ PlanNow(id)
                              \/ \E tick \in 0..MaxTick \cup {Infinity} : PlanAbsolute(id, tick)
                              \/ \E delay \in Delay : PlanRelative(id, delay) \/ PlanFromNow(id, delay)
        <4>1. PICK id \in Id, tick \in Tick : Plan(id, tick)
            BY <3>1, <3>2, <3>5 DEF PlanNow, PlanAbsolute, PlanRelative, PlanFromNow
        <4> QED
            BY <4>1, PlanStep
      <3> QED
          BY <1>6, <3>3, <3>4, <3>5 DEF BodyCall
    <2>2. TypeOK'
        BY <1>6, <2>1 DEF IInv, TypeOK, BodyCall
    <2>3. Ahead'
        BY <1>6, <2>1 DEF IInv, Ahead, BodyCall
    <2> QED
        BY <2>1, <2>2, <2>3 DEF IInv
  <1>7. CASE OutOfTasks
      BY <1>7 DEF IInv, TypeOK, Reachable, Tight, Ahead, OutOfTasks, pool
  <1>8. CASE BodyReturns
    <2>1. TypeOK'
        BY <1>0, <1>8 DEF IInv, TypeOK, Ahead, BodyReturns, pool
    <2>2. Reachable' /\ Tight'
        BY <1>8 DEF IInv, Reachable, Tight, BodyReturns, pool
    <2>3. \A id \in promised : id >= current_task_id + 1
        BY <1>0, <1>8 DEF IInv, TypeOK, Ahead, BodyReturns
    <2>4. Ahead'
        BY <1>8, <2>3 DEF IInv, Ahead, BodyReturns, pool
    <2> QED
        BY <2>1, <2>2, <2>4 DEF IInv
  <1> QED
      BY <1>1, <1>2, <1>3, <1>4, <1>5, <1>6, <1>7, <1>8 DEF Run

\* So does every interrupt, wherever in the loop it strikes.
LEMMA InterruptStep == ASSUME IInv, HandlerPlansNow \/ TickInterrupt PROVE IInv'
  <1> USE Constants DEF Unwrap, Id, Tick, Wakes
  <1>1. CASE HandlerPlansNow
    <2>1. PICK id \in Id : Plan(id, 0) /\ Wakes /\ UNCHANGED <<tick_spin, current_task_id, calls, now>>
        BY <1>1 DEF HandlerPlansNow, PlanNow
    <2>2. /\ registered' \subseteq Id /\ tick_execution' \in [Id -> Tick]
          /\ max_task_id' \in Id
          /\ Reachable' /\ Tight'
          /\ promised' \subseteq promised
          /\ promised' \subseteq registered'
          /\ \A p \in promised' : tick_execution'[p] <= tick_spin
        BY <2>1, PlanStep
    <2>3. TypeOK'
        BY <2>1, <2>2 DEF IInv, TypeOK
    <2>4. Ahead'
        BY <2>1, <2>2 DEF IInv, Ahead
    <2> QED
        BY <2>2, <2>3, <2>4 DEF IInv
  <1>2. CASE TickInterrupt
    <2>1. TypeOK'
        BY <1>2 DEF IInv, TypeOK, TickInterrupt, pool
    <2>2. Reachable' /\ Tight' /\ Ahead'
        BY <1>2 DEF IInv, Reachable, Tight, Ahead, TickInterrupt, pool
    <2> QED
        BY <2>1, <2>2 DEF IInv
  <1> QED
      BY <1>1, <1>2

LEMMA NextIInv == IInv /\ [Next]_vars => IInv'
  <1> SUFFICES ASSUME IInv, [Next]_vars PROVE IInv'
      OBVIOUS
  <1>1. CASE Next
      BY <1>1, RunStep, InterruptStep DEF Next
  <1>2. CASE UNCHANGED vars
      BY <1>2 DEF IInv, TypeOK, Reachable, Tight, Ahead, vars, pool, loop
  <1> QED
      BY <1>1, <1>2

-------------------------------------------------------------------------------
\* In a pool of any size the bound of the run loop always covers every
\* registered task and is never higher than it has to be.
THEOREM PoolSafe == Spec => [](TypeOK /\ Reachable /\ Tight)
  <1>1. IInv => TypeOK /\ Reachable /\ Tight
      BY DEF IInv
  <1> QED
      BY InitIInv, NextIInv, <1>1, PTL DEF Spec

\* In a pool of any size, with any number of calls made by each body, a spin
\* leaves nothing that was due when it began: each such slot has run, was
\* removed or was put off by a later plan.
THEOREM SpinComplete == Spec => []SpinServesAll
  <1>1. IInv => SpinServesAll
      BY DEF IInv, Ahead, SpinServesAll
  <1> QED
      BY InitIInv, NextIInv, <1>1, PTL DEF Spec

-------------------------------------------------------------------------------
(***************************************************************************)
(* The asynchronous read of a channel: UartRead, on the scheduler's tick.  *)
(* What it knows of the pool is the slot of its own task.                  *)
(*                                                                         *)
(* What the statics are at each place the main program can be.  The three  *)
(* safety properties follow from it; none of them is inductive alone, for  *)
(* a start and a cancel pass through states where they hold for different  *)
(* reasons.                                                                *)
(***************************************************************************)
Reading == (read_pc = "idle" /\ in_progress) \/ read_pc \in {"replan", "look"}

Stages ==
    /\ read_pc = "idle" /\ ~in_progress => ~rxneie /\ ~read_registered /\ locks = 0
    /\ Reading => initialized /\ in_progress /\ rxneie /\ read_registered /\ locks = 1
    /\ read_pc = "enable" =>
          ~in_progress /\ ~rxneie /\ read_registered /\ locks = 0 /\ initialized
    /\ read_pc = "lock" =>
          ~in_progress /\ rxneie /\ read_registered /\ locks = 0 /\ initialized
    /\ read_pc = "disable" => ~in_progress /\ rxneie /\ read_registered /\ locks = 1
    /\ read_pc = "unlock" => ~in_progress /\ ~rxneie /\ read_registered /\ locks = 1

\* A wakeup is kept from the moment the interrupt is enabled, which is before
\* the read is in progress; no byte is fresh before that.
Kept ==
    /\ read_pc = "enable" => ~fresh
    /\ rxneie /\ fresh /\ read_pc \notin {"replan", "look"} => plan = 0

\* The statics that are true or false, apart from those that are numbers or tell
\* a place.
Flags == /\ initialized \in BOOLEAN /\ in_progress \in BOOLEAN /\ rxneie \in BOOLEAN
         /\ read_registered \in BOOLEAN /\ visited \in BOOLEAN /\ closing \in BOOLEAN
         /\ fresh \in BOOLEAN
Numbers == /\ timeout \in 0..Infinity /\ plan \in 0..Infinity
           /\ locks \in Nat /\ held \in 0..Capacity
           /\ now \in 0..MaxTick /\ tick_spin \in 0..MaxTick /\ started \in 0..MaxTick
Places == /\ read_pc \in {"idle", "enable", "lock", "disable", "unlock", "replan", "look"}
          /\ event \in {"none", "data", "timeout"}

ReadTyped == Flags /\ Numbers /\ Places

ReadInv == ReadTyped /\ Stages /\ Kept

LEMMA ReadStarts == ReadInit => ReadInv
  <1> SUFFICES ASSUME ReadInit PROVE ReadInv
      OBVIOUS
  <1>1. Flags
      BY Zenon DEF ReadInit, Flags
  <1>2. Numbers
      BY TickAssumption, CapacityAssumption DEF ReadInit, Numbers
  <1>3. Places
      BY DEF ReadInit, Places
  <1>4. Stages /\ Kept
      BY DEF ReadInit, Stages, Reading, Kept
  <1> QED
      BY <1>1, <1>2, <1>3, <1>4 DEF ReadInv, ReadTyped

-------------------------------------------------------------------------------
\* The calls of the application: init, start, cancel, deinit and read.
LEMMA CallerStep == ASSUME ReadInv, Caller PROVE ReadInv'
  <1> USE TickAssumption, CapacityAssumption, TimeoutsAssumption
          DEF Tick, ReadInv, control, slot, time, report, Goto
  <1>1. CASE UartInit
    <2>1. ReadTyped'
      <3>1. Flags'
          BY <1>1, Zenon DEF ReadTyped, UartInit, Flags
      <3>2. Numbers'
          BY <1>1 DEF ReadTyped, UartInit, Numbers
      <3>3. Places'
          BY <1>1 DEF ReadTyped, UartInit, Places
      <3> QED
          BY <3>1, <3>2, <3>3 DEF ReadTyped
    <2>2. Stages' /\ Kept'
        BY <1>1 DEF UartInit, Stages, Reading, Kept
    <2> QED
        BY <2>1, <2>2
  <1>2. CASE Start
    <2>1. ReadTyped'
        BY <1>2 DEF Start, ReadTyped, Flags, Numbers, Places
    <2>2. Stages' /\ Kept'
        BY <1>2 DEF Start, Stages, Reading, Kept
    <2> QED
        BY <2>1, <2>2
  <1>3. CASE Cancel
    <2>1. ReadTyped'
        BY <1>3 DEF Cancel, ReadTyped, Flags, Numbers, Places
    <2>2. Stages' /\ Kept'
        BY <1>3 DEF Cancel, Stages, Reading, Kept
    <2> QED
        BY <2>1, <2>2
  <1>4. CASE Deinit
    <2>1. ReadTyped'
        BY <1>4 DEF Deinit, ReadTyped, Flags, Numbers, Places
    <2>2. Stages' /\ Kept'
        BY <1>4 DEF Deinit, Stages, Reading, Kept
    <2> QED
        BY <2>1, <2>2
  <1>5. CASE Read
    <2>1. PICK n \in 1..held : held' = held - n
        BY <1>5 DEF Read
    <2>2. ReadTyped'
        BY <1>5, <2>1 DEF Read, ReadTyped, Flags, Numbers, Places
    <2>3. Stages' /\ Kept'
        BY <1>5 DEF Read, Stages, Reading, Kept
    <2> QED
        BY <2>2, <2>3
  <1> QED
      BY <1>1, <1>2, <1>3, <1>4, <1>5 DEF Caller

\* The steps inside a start, a cancel and the read task.
LEMMA InsideStep == ASSUME ReadInv, Inside PROVE ReadInv'
  <1> USE TickAssumption, CapacityAssumption, TimeoutsAssumption
          DEF Tick, ReadInv, control, slot, time, report, Goto
  <1>1. CASE StartEnables
      BY <1>1 DEF StartEnables, ReadTyped, Flags, Numbers, Places, Stages,
         Reading, Kept
  <1>2. CASE StartReturns
      BY <1>2 DEF StartReturns, ReadTyped, Flags, Numbers, Places, Stages,
         Reading, Kept
  <1>3. CASE CancelDisables
      BY <1>3 DEF CancelDisables, ReadTyped, Flags, Numbers, Places, Stages,
         Reading, Kept
  <1>4. CASE CancelReturns
    <2>1. locks = 1 /\ in_progress = FALSE /\ rxneie = FALSE
        BY <1>4 DEF CancelReturns, ReadTyped, Flags, Numbers, Places, Stages
    <2>2. locks' = 0
        BY <1>4, <2>1 DEF CancelReturns
    <2>3. ReadTyped'
      <3>1. Flags'
          BY <1>4, Zenon DEF ReadTyped, CancelReturns, Flags
      <3>2. Numbers'
          BY <1>4, <2>2 DEF ReadTyped, CancelReturns, Numbers
      <3>3. Places'
          BY <1>4 DEF ReadTyped, CancelReturns, Places
      <3> QED
          BY <3>1, <3>2, <3>3 DEF ReadTyped
    <2>4. Stages' /\ Kept'
        BY <1>4, <2>1, <2>2 DEF CancelReturns, Stages, Reading, Kept
    <2> QED
        BY <2>3, <2>4
  <1>5. CASE TaskPlans
    <2>0. tick_spin \in 0..Infinity /\ timeout \in 0..Infinity
        BY DEF ReadTyped, Flags, Numbers, Places
    <2>1. plan' \in 0..Infinity
        BY <1>5, <2>0, AfterIsTick DEF TaskPlans
    <2>2. ReadTyped'
        BY <1>5, <2>1 DEF TaskPlans, ReadTyped, Flags, Numbers, Places
    <2>3. Stages' /\ Kept'
        BY <1>5 DEF TaskPlans, Stages, Reading, Kept
    <2> QED
        BY <2>2, <2>3
  <1>6. CASE TaskReports
      BY <1>6 DEF TaskReports, ReadTyped, Flags, Numbers, Places, Stages,
         Reading, Kept
  <1> QED
      BY <1>1, <1>2, <1>3, <1>4, <1>5, <1>6 DEF Inside

\* The scheduler: a visit finds a task planned for now due, whatever the tick.
LEMMA ScheduleStep == ASSUME ReadInv, Schedule PROVE ReadInv'
  <1> USE TickAssumption, CapacityAssumption, TimeoutsAssumption
          DEF Tick, ReadInv, control, slot, time, report, Goto
  <1>1. CASE NewSpin
      BY <1>1 DEF NewSpin, ReadTyped, Flags, Numbers, Places, Stages, Reading, Kept
  <1>2. CASE Visit
    <2>1. CASE read_registered /\ plan <= tick_spin
        BY <1>2, <2>1 DEF Visit, ReadTyped, Flags, Numbers, Places, Stages,
           Reading, Kept
    <2>2. CASE ~(read_registered /\ plan <= tick_spin)
        BY <1>2, <2>2 DEF Visit, ReadTyped, Flags, Numbers, Places, Stages,
           Reading, Kept
    <2> QED
        BY <2>1, <2>2
  <1> QED
      BY <1>1, <1>2 DEF Schedule

\* The handlers of the receiver and of the clock.
LEMMA ReadInterruptStep == ASSUME ReadInv, ByteArrives \/ TickIncrement PROVE ReadInv'
  <1> USE TickAssumption, CapacityAssumption, TimeoutsAssumption
          DEF Tick, ReadInv, control, slot, time, report
  <1>1. CASE ByteArrives
    <2>1. ReadTyped'
        BY <1>1 DEF ByteArrives, ReadTyped, Flags, Numbers, Places
    <2>2. Stages' /\ Kept'
        BY <1>1 DEF ByteArrives, Stages, Reading, Kept
    <2> QED
        BY <2>1, <2>2
  <1>2. CASE TickIncrement
      BY <1>2 DEF TickIncrement, ReadTyped, Flags, Numbers, Places, Stages,
         Reading, Kept
  <1> QED
      BY <1>1, <1>2

LEMMA ReadStep == ReadInv /\ [ReadNext]_read_vars => ReadInv'
  <1> SUFFICES ASSUME ReadInv, [ReadNext]_read_vars PROVE ReadInv'
      OBVIOUS
  <1>1. CASE UNCHANGED read_vars
      BY <1>1 DEF read_vars, control, slot, time, report,
         ReadInv, ReadTyped, Flags, Numbers, Places, Stages, Reading, Kept
  <1>2. CASE ReadNext
      BY <1>2, CallerStep, InsideStep, ScheduleStep, ReadInterruptStep DEF ReadNext
  <1> QED
      BY <1>1, <1>2

\* The invariant gives the properties the runs check.
LEMMA ReadConsequences ==
  ReadInv => ReadTypeOK /\ WakeupKept /\ PlansOwnTask /\ LockHeld
  <1> SUFFICES ASSUME ReadInv
               PROVE  ReadTypeOK /\ WakeupKept /\ PlansOwnTask /\ LockHeld
      OBVIOUS
  <1>0. ReadTypeOK
      BY Zenon DEF ReadInv, ReadTyped, Flags, Numbers, Places, ReadTypeOK
  <1>1. read_pc \in {"idle", "enable", "lock", "disable", "unlock", "replan", "look"}
      BY DEF ReadInv, ReadTyped, Flags, Numbers, Places
  <1>2. WakeupKept
      BY <1>1 DEF ReadInv, Stages, Reading, Kept, WakeupKept
  <1>3. PlansOwnTask
      BY <1>1 DEF ReadInv, ReadTyped, Flags, Numbers, Places, Stages, Reading,
         PlansOwnTask
  <1>4. LockHeld
      BY <1>1 DEF ReadInv, Stages, Reading, LockHeld
  <1> QED
      BY <1>0, <1>2, <1>3, <1>4

LEMMA ReadInvariant == ReadSpec => []ReadInv
  BY ReadStarts, ReadStep, PTL DEF ReadSpec

\* The wakeup of a byte is never lost, the handler plans no other task, and the
\* PLL lock is held exactly while a read is in progress (twr_uart.c:451-545,
\* 583-601, 627-637), for every FIFO, every timeout and every tick width.
THEOREM ReadSafe ==
  ReadSpec => [](ReadTypeOK /\ WakeupKept /\ PlansOwnTask /\ LockHeld)
  BY ReadInvariant, ReadConsequences, PTL

\* Only a read in progress reports: the task runs between a start that returned
\* and the cancel, never in the middle of one (twr_uart.c:514, 542, 583-601).
THEOREM NoReportAfterCancel == ReadSpec => ReportsInProgress
  <1> DEFINE Step == event' # event /\ event' # "none" => in_progress
  <1>1. ReadInv /\ [ReadNext]_read_vars => [Step]_read_vars
    <2> SUFFICES ASSUME ReadInv, ReadNext PROVE Step
        OBVIOUS
    <2>1. CASE TaskReports
        BY <2>1 DEF TaskReports, ReadInv, Stages, Reading
    <2>2. CASE Start
        BY <2>2 DEF Start
    <2>3. CASE ~TaskReports /\ ~Start
        BY <2>3 DEF ReadNext, Caller, Inside, Schedule, UartInit, Cancel, Deinit,
           Read, StartEnables, StartReturns, CancelDisables, CancelReturns,
           TaskPlans, NewSpin, Visit, ByteArrives, TickIncrement, report
    <2> QED
        BY <2>1, <2>2, <2>3
  <1> QED
      BY <1>1, ReadInvariant, PTL DEF ReadSpec, ReportsInProgress
===============================================================================
