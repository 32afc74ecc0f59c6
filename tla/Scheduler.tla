------------------------------ MODULE Scheduler -------------------------------
(***************************************************************************)
(* twr_scheduler.c: the cooperative task pool, its run loop, and what      *)
(* interrupt handlers do to it.  A task body is any finite sequence of     *)
(* calls of the scheduler's interface; a handler may plan any slot at any  *)
(* moment; the tick interrupt advances time and ends the sleep of          *)
(* application_idle.                                                       *)
(***************************************************************************)
EXTENDS Ticks

CONSTANTS MaxTasks,   \* TWR_SCHEDULER_MAX_TASKS
          Delay,      \* the delays callers pass to the relative plans
          MaxCalls    \* bound: scheduler calls made by one task body

ASSUME TasksAssumption == MaxTasks \in Nat /\ MaxTasks > 0
ASSUME DelayAssumption == Delay \subseteq Tick
ASSUME CallsAssumption == MaxCalls \in Nat

Id == 0..MaxTasks - 1

VARIABLES registered,       \* the slots whose task is not NULL
          tick_execution,   \* pool[id].tick_execution
          current_task_id,  \* the loop variable of twr_scheduler_run
          max_task_id,      \* the loop's bound
          pc,               \* where twr_scheduler_run is
          calls,            \* scheduler calls made by the running body
          promised          \* history: slots due when the spin began and
                            \* neither run, removed nor put off since

pool == <<registered, tick_execution, max_task_id>>
loop == <<tick_spin, current_task_id, pc, calls>>
vars == <<pool, loop, now, promised>>

\* twr_scheduler_init, then main registers application_task in slot 0.
Init ==
    /\ registered = {0}
    /\ tick_execution = [id \in Id |-> 0]
    /\ tick_spin = 0 /\ current_task_id = 0 /\ max_task_id = 0
    /\ now \in 0..MaxTick
    /\ pc = "spin" /\ calls = 0
    /\ promised = {}

-------------------------------------------------------------------------------
(***************************************************************************)
(* The interface, as the code that calls it sees it.                       *)
(***************************************************************************)
\* A slot put beyond this spin is no longer promised to it.
StillPromised(due, live) == promised' = {id \in promised : id \in live /\ due[id] <= tick_spin}

Plan(id, tick) ==
    /\ tick_execution' = [tick_execution EXCEPT ![id] = tick]
    /\ StillPromised(tick_execution', registered)
    /\ UNCHANGED <<registered, max_task_id>>

PlanNow(id) == Plan(id, 0)
PlanAbsolute(id, tick) == Plan(id, tick)
PlanRelative(id, delay) == Plan(id, After(tick_spin, delay))
PlanFromNow(id, delay) == Plan(id, After(now, delay))

\* The first free slot, or nothing when the pool is full.
FirstFree(id) == id \notin registered /\ \A j \in Id : j < id => j \in registered

\* Mutant: a registration leaves the bound where it was.
RegisterBelowBound(tick) ==
    \E id \in Id :
        /\ FirstFree(id)
        /\ registered' = registered \cup {id}
        /\ tick_execution' = [tick_execution EXCEPT ![id] = tick]
        /\ UNCHANGED <<max_task_id, promised>>

Register(tick) ==
    \E id \in Id :
        /\ FirstFree(id)
        /\ registered' = registered \cup {id}
        /\ tick_execution' = [tick_execution EXCEPT ![id] = tick]
        /\ max_task_id' = IF max_task_id < id THEN id ELSE max_task_id
        /\ UNCHANGED promised

\* The do loop walks down from the bound to the next slot in use, or to 0.
WalkDown(live) ==
    \E top \in 0..max_task_id :
        /\ \A j \in top + 1..max_task_id : j \notin live
        /\ top = 0 \/ top \in live
        /\ max_task_id' = top

Unregister(id) ==
    /\ registered' = registered \ {id}
    /\ IF max_task_id = id THEN WalkDown(registered') ELSE UNCHANGED max_task_id
    /\ StillPromised(tick_execution, registered')
    /\ UNCHANGED tick_execution

-------------------------------------------------------------------------------
(***************************************************************************)
(* twr_scheduler_run.                                                      *)
(***************************************************************************)
Due(id, tick) == id \in registered /\ tick_execution[id] <= tick

Spin ==
    /\ pc = "spin"
    /\ tick_spin' = now
    /\ current_task_id' = 0
    /\ pc' = "scan"
    /\ promised' = {id \in Id : Due(id, now)}
    /\ UNCHANGED <<pool, now, calls>>

Skip ==
    /\ pc = "scan" /\ current_task_id <= max_task_id
    /\ ~Due(current_task_id, tick_spin)
    /\ current_task_id' = current_task_id + 1
    /\ UNCHANGED <<pool, tick_spin, pc, calls, now, promised>>

StartTask ==
    /\ pc = "scan" /\ current_task_id <= max_task_id
    /\ Due(current_task_id, tick_spin)
    /\ tick_execution' = [tick_execution EXCEPT ![current_task_id] = Infinity]
    /\ pc' = "body" /\ calls' = 0
    /\ promised' = promised \ {current_task_id}
    /\ UNCHANGED <<registered, max_task_id, tick_spin, current_task_id, now>>

\* Mutant: the loop's test is < and not <=.
EndSpinEarly ==
    /\ pc = "scan" /\ current_task_id >= max_task_id
    /\ pc' = "idle"
    /\ UNCHANGED <<pool, tick_spin, current_task_id, calls, now, promised>>

EndSpin ==
    /\ pc = "scan" /\ current_task_id > max_task_id
    /\ pc' = "idle"
    /\ UNCHANGED <<pool, tick_spin, current_task_id, calls, now, promised>>

\* application_idle: twr_sleep waits for an interrupt unless sleep is disabled.
Idle ==
    /\ pc = "idle"
    /\ pc' \in {"spin", "asleep"}
    /\ UNCHANGED <<pool, tick_spin, current_task_id, calls, now, promised>>

(***************************************************************************)
(* A task body.  The plan_current_ variants are the plans of               *)
(* current_task_id; stale ids are legal arguments, no function checks them.*)
(***************************************************************************)
BodyCall ==
    /\ pc = "body" /\ calls < MaxCalls
    /\ calls' = calls + 1
    /\ \/ \E tick \in 0..MaxTick \cup {Infinity} : Register(tick)
       \/ \E id \in Id : \/ Unregister(id)
                         \/ PlanNow(id)
                         \/ \E tick \in 0..MaxTick \cup {Infinity} : PlanAbsolute(id, tick)
                         \/ \E delay \in Delay : PlanRelative(id, delay) \/ PlanFromNow(id, delay)
    /\ UNCHANGED <<tick_spin, current_task_id, pc, now>>

\* A full pool: application_error resets the chip or never returns.
OutOfTasks ==
    /\ pc = "body" /\ calls < MaxCalls
    /\ registered = Id
    /\ pc' = "error"
    /\ UNCHANGED <<pool, tick_spin, current_task_id, calls, now, promised>>

BodyReturns ==
    /\ pc = "body"
    /\ pc' = "scan"
    /\ current_task_id' = current_task_id + 1
    /\ UNCHANGED <<pool, tick_spin, calls, now, promised>>

-------------------------------------------------------------------------------
\* Mutant: the interrupt does not end the sleep.
WakesNot == UNCHANGED pc

(***************************************************************************)
(* Interrupts.                                                             *)
(***************************************************************************)
Wakes == pc' = IF pc = "asleep" THEN "spin" ELSE pc

\* A driver's handler plans the task it remembers, registered or not.
HandlerPlansNow ==
    \E id \in Id : /\ PlanNow(id)
                   /\ Wakes
                   /\ UNCHANGED <<tick_spin, current_task_id, calls, now>>

\* RTC_IRQHandler
TickInterrupt ==
    /\ now' = IF now < MaxTick THEN now + 1 ELSE now
    /\ Wakes
    /\ UNCHANGED <<pool, tick_spin, current_task_id, calls, promised>>

-------------------------------------------------------------------------------
Run == Spin \/ Skip \/ StartTask \/ EndSpin \/ Idle \/ BodyCall \/ OutOfTasks \/ BodyReturns

Next == Run \/ HandlerPlansNow \/ TickInterrupt

Spec == Init /\ [][Next]_vars

\* Task bodies return, the processor keeps executing and the RTC keeps ticking.
FairSpec == Spec /\ WF_vars(Run) /\ WF_vars(TickInterrupt)

-------------------------------------------------------------------------------
TypeOK ==
    /\ registered \subseteq Id
    /\ tick_execution \in [Id -> Tick]
    /\ tick_spin \in 0..MaxTick
    /\ current_task_id \in 0..MaxTasks
    /\ max_task_id \in Id
    /\ now \in 0..MaxTick
    /\ pc \in {"spin", "scan", "body", "idle", "asleep", "error"}
    /\ calls \in 0..MaxCalls
    /\ promised \subseteq Id

\* The run loop reaches every registered task: no sequence of registrations and
\* removals, by tasks running in the middle of the scan, leaves one above the
\* bound (where it would never run again).
Reachable == registered \subseteq 0..max_task_id

\* The bound is tight: the scan ends at a live task (or at slot 0).
Tight == max_task_id = 0 \/ max_task_id \in registered

\* A spin serves every slot that was due when it began, unless a task removed it
\* or put it off meanwhile, whatever tasks do to the pool while it is scanned.
SpinServesAll == pc = "idle" => promised = {}

\* No due task waits for ever.  A plan made after the scan has passed the slot
\* and before the processor sleeps is served too: the tick ends the sleep.
Served == \A id \in Id : []<>(~Due(id, now) \/ pc = "error")
===============================================================================
