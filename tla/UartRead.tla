------------------------------- MODULE UartRead -------------------------------
(***************************************************************************)
(* twr_uart.c, the asynchronous receive side of an interrupt-driven        *)
(* channel (UART0, UART1): starting and cancelling a read, the handler     *)
(* that puts a byte in the FIFO and plans the read task, and the task that *)
(* plans its own timeout and reports.  The FIFO is seen as the number of   *)
(* bytes it holds; the scheduler as the slot of this one task, visited at  *)
(* most once per spin.                                                     *)
(***************************************************************************)
EXTENDS Ticks

CONSTANTS Capacity,   \* bytes the read FIFO holds
          Timeouts    \* the timeouts callers start a read with

ASSUME CapacityAssumption == Capacity \in Nat \ {0}
ASSUME TimeoutsAssumption == Timeouts \subseteq Tick

VARIABLES
    initialized,     \* _twr_uart[channel].initialized
    in_progress,     \* async_read_in_progress
    timeout,         \* async_timeout
    read_registered, \* the read task is in the scheduler's pool
    plan,            \* its tick_execution
    rxneie,          \* the receive interrupt is enabled
    locks,           \* holds of this channel's reads on the PLL
    held,            \* bytes in the read FIFO
    visited,         \* the spin has passed the task's slot
    read_pc,         \* where the main program is
    closing,         \* the cancel in progress was called by twr_uart_deinit
    event,           \* the last event of the current read: "none" before any
    started,         \* history: time of the last successful read_start
    fresh            \* history: a byte of this read has arrived since the task
                     \* last reported

slot == <<read_registered, plan>>
time == <<now, tick_spin, visited>>
control == <<initialized, in_progress, timeout, rxneie, locks>>
report == <<event, started>>
read_vars == <<control, slot, held, time, read_pc, closing, report, fresh>>

ReadInit ==
    /\ initialized = FALSE /\ in_progress = FALSE /\ timeout = 0
    /\ rxneie = FALSE /\ locks = 0
    /\ read_registered = FALSE /\ plan = 0
    /\ held = 0
    /\ now \in 0..MaxTick /\ tick_spin = now /\ visited = FALSE
    /\ read_pc = "idle" /\ closing = FALSE
    /\ event = "none" /\ started = 0 /\ fresh = FALSE

Goto(step) == read_pc' = step

-------------------------------------------------------------------------------
\* twr_uart_init, then twr_uart_set_async_fifo with an empty FIFO.
UartInit ==
    /\ read_pc = "idle" /\ ~initialized
    /\ initialized' = TRUE /\ in_progress' = FALSE /\ timeout' = 0 /\ rxneie' = FALSE
    /\ held' = 0
    /\ UNCHANGED <<locks, slot, time, read_pc, closing, report, fresh>>

(***************************************************************************)
(* twr_uart_async_read_start.  The task goes in at the tick `timeout`.     *)
(***************************************************************************)
Start ==
    /\ read_pc = "idle" /\ initialized /\ ~in_progress
    /\ timeout' \in Timeouts
    /\ read_registered' = TRUE /\ plan' = timeout'
    /\ event' = "none" /\ started' = now /\ fresh' = FALSE
    /\ Goto("enable")
    /\ UNCHANGED <<initialized, in_progress, rxneie, locks, held, time, closing>>

StartEnables ==
    /\ read_pc = "enable"
    /\ rxneie' = TRUE
    /\ Goto("lock")
    /\ UNCHANGED <<initialized, in_progress, timeout, locks, slot, held, time, closing,
                   report, fresh>>

StartReturns ==
    /\ read_pc = "lock"
    /\ locks' = locks + 1
    /\ in_progress' = TRUE
    /\ Goto("idle")
    /\ UNCHANGED <<initialized, timeout, rxneie, slot, held, time, closing, report, fresh>>

(***************************************************************************)
(* twr_uart_async_read_cancel, and twr_uart_deinit which begins with it.   *)
(***************************************************************************)
Cancel ==
    /\ read_pc = "idle" /\ initialized /\ in_progress
    /\ in_progress' = FALSE
    /\ closing' \in BOOLEAN
    /\ Goto("disable")
    /\ UNCHANGED <<initialized, timeout, rxneie, locks, slot, held, time, report, fresh>>

CancelDisables ==
    /\ read_pc = "disable"
    /\ rxneie' = FALSE
    /\ Goto("unlock")
    /\ UNCHANGED <<initialized, in_progress, timeout, locks, slot, held, time, closing,
                   report, fresh>>

\* Mutant: the cancel leaves the task in the pool.
CancelKeepsTask ==
    /\ read_pc = "unlock"
    /\ locks' = locks - 1
    /\ initialized' = ~closing
    /\ Goto("idle")
    /\ UNCHANGED <<in_progress, timeout, rxneie, slot, held, time, closing, report, fresh>>

CancelReturns ==
    /\ read_pc = "unlock"
    /\ locks' = locks - 1
    /\ read_registered' = FALSE
    /\ initialized' = ~closing
    /\ Goto("idle")
    /\ UNCHANGED <<in_progress, timeout, rxneie, plan, held, time, closing, report, fresh>>

\* twr_uart_deinit with no read in progress.
Deinit ==
    /\ read_pc = "idle" /\ initialized /\ ~in_progress
    /\ initialized' = FALSE
    /\ UNCHANGED <<in_progress, timeout, rxneie, locks, slot, held, time, read_pc, closing,
                   report, fresh>>

\* twr_uart_async_read, from any task or from the event handler.
Read ==
    /\ read_pc = "idle" /\ initialized /\ in_progress
    /\ \E n \in 1..held : held' = held - n
    /\ UNCHANGED <<control, slot, time, read_pc, closing, report, fresh>>

-------------------------------------------------------------------------------
(***************************************************************************)
(* The scheduler: a new spin, and its visit to the slot of the read task.  *)
(***************************************************************************)
NewSpin ==
    /\ read_pc = "idle" /\ visited
    /\ tick_spin' = now /\ visited' = FALSE
    /\ UNCHANGED <<control, slot, held, now, read_pc, closing, report, fresh>>

\* Mutant: the scheduler's test is strict, a task planned at 0 waits for the first tick.
VisitStrict ==
    /\ read_pc = "idle" /\ ~visited
    /\ visited' = TRUE
    /\ IF read_registered /\ plan < tick_spin
       THEN plan' = Infinity /\ Goto("replan")
       ELSE UNCHANGED <<plan, read_pc>>
    /\ UNCHANGED <<control, read_registered, held, now, tick_spin, closing, report, fresh>>

Visit ==
    /\ read_pc = "idle" /\ ~visited
    /\ visited' = TRUE
    /\ IF read_registered /\ plan <= tick_spin
       THEN plan' = Infinity /\ Goto("replan")
       ELSE UNCHANGED <<plan, read_pc>>
    /\ UNCHANGED <<control, read_registered, held, now, tick_spin, closing, report, fresh>>

\* _twr_uart_async_read_task plans its timeout before it looks at the FIFO.
TaskPlans ==
    /\ read_pc = "replan"
    /\ plan' = After(tick_spin, timeout)
    /\ Goto("look")
    /\ UNCHANGED <<control, read_registered, held, time, closing, report, fresh>>

TaskReports ==
    /\ read_pc = "look"
    /\ event' = IF held = 0 THEN "timeout" ELSE "data"
    /\ fresh' = FALSE
    /\ Goto("idle")
    /\ UNCHANGED <<control, slot, held, time, closing, started>>

-------------------------------------------------------------------------------
\* Mutant: the handler plans the task only for the byte that ends an empty FIFO.
ByteWakesOnce ==
    /\ initialized /\ rxneie
    /\ held' = IF held < Capacity THEN held + 1 ELSE held
    /\ fresh' = TRUE
    /\ plan' = IF held = 0 THEN 0 ELSE plan
    /\ UNCHANGED <<control, read_registered, time, read_pc, closing, report>>

\* The handler: a byte that does not fit is dropped, the task is planned anyway.
ByteArrives ==
    /\ initialized /\ rxneie
    /\ held' = IF held < Capacity THEN held + 1 ELSE held
    /\ fresh' = TRUE
    /\ plan' = 0
    /\ UNCHANGED <<control, read_registered, time, read_pc, closing, report>>

TickIncrement ==
    /\ now < MaxTick
    /\ now' = now + 1
    /\ UNCHANGED <<control, slot, held, tick_spin, visited, read_pc, closing, report, fresh>>

Caller == UartInit \/ Start \/ Cancel \/ Deinit \/ Read
Inside == StartEnables \/ StartReturns \/ CancelDisables \/ CancelReturns \/ TaskPlans \/ TaskReports
Schedule == NewSpin \/ Visit

ReadNext == Caller \/ Inside \/ Schedule \/ ByteArrives \/ TickIncrement

\* Calls and task bodies return, and the scheduler keeps spinning.
ReadSpec == /\ ReadInit /\ [][ReadNext]_read_vars
            /\ WF_read_vars(Inside) /\ WF_read_vars(NewSpin) /\ WF_read_vars(Visit)
-------------------------------------------------------------------------------
ReadTypeOK ==
    /\ initialized \in BOOLEAN /\ in_progress \in BOOLEAN /\ rxneie \in BOOLEAN
    /\ read_registered \in BOOLEAN /\ visited \in BOOLEAN /\ closing \in BOOLEAN
    /\ fresh \in BOOLEAN
    /\ timeout \in 0..Infinity /\ plan \in 0..Infinity
    /\ locks \in Nat /\ held \in 0..Capacity
    /\ now \in 0..MaxTick /\ tick_spin \in 0..MaxTick /\ started \in 0..MaxTick
    /\ read_pc \in {"idle", "enable", "lock", "disable", "unlock", "replan", "look"}
    /\ event \in {"none", "data", "timeout"}

\* The wakeup of a byte is never lost: until the task reports it, the task stays
\* planned for now or has yet to look at the FIFO.  (A task that looked before it
\* planned its timeout would overwrite the handler's plan.)
WakeupKept ==
    in_progress /\ fresh => plan = 0 \/ read_pc \in {"replan", "look"}

\* The handler only ever plans a task that is in the pool: the interrupt is
\* enabled after the registration and disabled before the removal, so no late
\* byte plans another task that has taken over the slot.
PlansOwnTask == rxneie => read_registered

\* The PLL is held exactly while a read is in progress or being cancelled,
\* through any sequence of starts, cancels and deinitialisations.
LockHeld == locks = IF in_progress \/ read_pc \in {"disable", "unlock"} THEN 1 ELSE 0

\* Only a read in progress reports: no event follows the cancel.
ReportsInProgress == [][event' # event /\ event' # "none" => in_progress]_read_vars

\* The task reports after every byte, unless the read is cancelled first.
DataReported == in_progress /\ fresh ~> ~fresh \/ ~in_progress

\* "Maximum timeout in ms": a read reports a timeout no sooner than that many
\* ticks after its start, hence never when it was started with TWR_TICK_INFINITY.
TimeoutIsDuration ==
    [][read_pc = "look" /\ read_pc' = "idle" /\ event' = "timeout"
       => now >= started + timeout]_read_vars
===============================================================================
