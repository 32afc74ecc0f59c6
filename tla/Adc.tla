--------------------------------- MODULE Adc ---------------------------------
(***************************************************************************)
(* twr_adc.c: asynchronous conversions, one at a time, each after one of   *)
(* the internal reference; and the sleep lock of twr_sleep.c it shares     *)
(* with the main program.  The interrupt handler may run between any two   *)
(* steps of the main program whose interrupts are not masked.  What        *)
(* twr_irq_disable masks is one step; the increment and decrement of the   *)
(* lock, which nothing masks, are a load and a store.                      *)
(***************************************************************************)
EXTENDS Integers

CONSTANTS ChannelCount,  \* TWR_ADC_CHANNEL_COUNT
          MaxHolders,    \* bound: other holders of the sleep lock at a time
          MaxLost        \* bound: decrements of the lock that get lost

ASSUME ChannelAssumption == ChannelCount \in Nat \ {0}
ASSUME BoundAssumption == MaxHolders \in Nat /\ MaxLost \in Nat

Channel == 0..(ChannelCount - 1)
NONE == -1

VARIABLES
    channel_in_progress,  \* the channel being converted, or NONE
    pending,              \* channels whose pending flag is set
    state,                \* what the handler does next: "reference" or "input"
    converting,           \* "off", "busy", or "done": end of conversion pending
    planned,              \* the ADC task is planned now
    disable_sleep,        \* sleep_manager.disable_sleep
    pc,                   \* the main program: "idle", in a "load" or "store" of
                          \* the lock, in the ADC task ("task"), or in the
                          \* handler it calls ("event")
    return,               \* where the call that changes the lock returns to
    step,                 \* what it adds: 1 or -1
    register,             \* the value it loaded
    finished,             \* the task's pending_result_channel
    holders,              \* how often the rest of the program holds the lock
    lost,                 \* history: decrements the main program overwrote
    owed                  \* history: channels with a request and no event yet

lock == <<disable_sleep, pc, return, step, register, holders, lost>>
adc == <<channel_in_progress, pending, state, converting, planned>>
vars == <<channel_in_progress, pending, state, converting, planned,
          disable_sleep, pc, return, step, register, finished, holders, lost, owed>>

Init ==
    /\ channel_in_progress = NONE
    /\ pending = {} /\ owed = {}
    /\ state = "reference" /\ converting = "off"
    /\ planned = FALSE
    /\ disable_sleep = 0 /\ holders = 0 /\ lost = 0
    /\ pc = "idle" /\ return = "idle"
    /\ step = 1 /\ register = 0
    /\ finished = 0

-------------------------------------------------------------------------------
\* The application: between tasks, or in the event handler of the ADC task.
Application == pc \in {"idle", "event"}

\* The main program calls twr_sleep_disable() (d = 1) or _enable() (d = -1).
Locks(d) ==
    /\ pc' = "load"
    /\ return' = pc
    /\ step' = d

\* The lines of twr_adc_async_measure() up to ADSTART.
Starts(c) ==
    /\ channel_in_progress' = c
    /\ state' = "reference"
    /\ converting' = "busy"

\* twr_adc_async_measure(c): the first conversion is started, then the sleep
\* lock is taken.
AsyncMeasure(c) ==
    /\ Application /\ channel_in_progress = NONE
    /\ Starts(c)
    /\ pending' = pending \ {c}
    /\ owed' = owed \cup {c}
    /\ Locks(1)
    /\ UNCHANGED <<planned, disable_sleep, register, finished, holders, lost>>

\* twr_adc_async_measure(c) during another conversion.
AsyncPends(c) ==
    /\ Application /\ channel_in_progress # NONE
    /\ pending' = pending \cup {c}
    /\ owed' = owed \cup {c}
    /\ UNCHANGED <<channel_in_progress, state, converting, planned, finished, lock>>

\* The rest of the program takes and gives back the lock (clocks, UART, ...).
OtherLocks ==
    /\ Application
    /\ \/ holders < MaxHolders /\ holders' = holders + 1 /\ Locks(1)
       \/ holders > 0 /\ holders' = holders - 1 /\ Locks(-1)
    /\ UNCHANGED <<adc, disable_sleep, register, finished, lost, owed>>

\* disable_sleep++ and disable_sleep--
LockLoad ==
    /\ pc = "load"
    /\ register' = disable_sleep
    /\ pc' = "store"
    /\ UNCHANGED <<adc, disable_sleep, return, step, finished, holders, lost, owed>>

LockStore ==
    /\ pc = "store"
    /\ disable_sleep' = register + step
    /\ pc' = return
    /\ UNCHANGED <<adc, return, step, register, finished, holders, lost, owed>>

-------------------------------------------------------------------------------
\* The converter finishes what was started.
Converts ==
    /\ converting = "busy"
    /\ converting' = "done"
    /\ UNCHANGED <<channel_in_progress, pending, state, planned, finished, owed, lock>>

\* Mutant: the lock is given back after the reference already.
IrqReferenceUnlocks ==
    /\ converting = "done" /\ state = "reference"
    /\ state' = "input"
    /\ converting' = "busy"
    /\ disable_sleep' = disable_sleep - 1
    /\ UNCHANGED <<channel_in_progress, pending, planned, pc, return, step,
                   register, finished, holders, lost, owed>>

\* ADC1_COMP_IRQHandler() after the reference: the channel itself is started.
IrqReference ==
    /\ converting = "done" /\ state = "reference"
    /\ state' = "input"
    /\ converting' = "busy"
    /\ UNCHANGED <<channel_in_progress, pending, planned, finished, owed, lock>>

\* Mutant: the task is not planned.
IrqInputOnly ==
    /\ converting = "done" /\ state = "input"
    /\ converting' = "off"
    /\ disable_sleep' = disable_sleep - 1
    /\ IF pc = "store" THEN lost < MaxLost /\ lost' = lost + 1 ELSE UNCHANGED lost
    /\ UNCHANGED <<channel_in_progress, pending, state, planned, pc, return,
                   step, register, finished, holders, owed>>

\* ADC1_COMP_IRQHandler() after the channel: the task is planned.
IrqInput ==
    /\ converting = "done" /\ state = "input"
    /\ converting' = "off"
    /\ planned' = TRUE
    /\ disable_sleep' = disable_sleep - 1
    /\ IF pc = "store" THEN lost < MaxLost /\ lost' = lost + 1 ELSE UNCHANGED lost
    /\ UNCHANGED <<channel_in_progress, pending, state, pc, return, step,
                   register, finished, holders, owed>>

-------------------------------------------------------------------------------
\* The scheduler calls _twr_adc_task(), which releases the converter.
TaskReleases ==
    /\ pc = "idle" /\ planned
    /\ pc' = "task"
    /\ planned' = FALSE
    /\ finished' = channel_in_progress
    /\ channel_in_progress' = NONE
    /\ UNCHANGED <<pending, state, converting, disable_sleep, return, step,
                   register, holders, lost, owed>>

\* _twr_adc_get_pending(): how far a channel is from the one just finished,
\* in the order of the search; the search stops before it comes round.
Distance(c) == (c - finished + ChannelCount) % ChannelCount

Waiting == pending \ {finished}

\* Mutant: the search always begins with A0.
FirstPending == CHOOSE c \in Waiting : \A d \in Waiting : c <= d

NextPending == CHOOSE c \in Waiting : \A d \in Waiting : Distance(c) <= Distance(d)

\* The part of _twr_adc_task() under the mask: the next conversion is started
\* and the lock taken.
TaskStartsNext ==
    /\ pc = "task"
    /\ pc' = "notify"
    /\ IF Waiting = {}
          THEN UNCHANGED <<adc, disable_sleep>>
          ELSE /\ Starts(NextPending)
               /\ pending' = pending \ {NextPending}
               /\ disable_sleep' = disable_sleep + 1
               /\ UNCHANGED planned
    /\ UNCHANGED <<return, step, register, finished, holders, lost, owed>>

\* The event handler of the finished channel is called, and returns.
TaskNotifies ==
    /\ pc = "notify"
    /\ pc' = "event"
    /\ owed' = owed \ {finished}
    /\ UNCHANGED <<adc, disable_sleep, return, step, register, finished, holders, lost>>

TaskReturns ==
    /\ pc = "event"
    /\ pc' = "idle"
    /\ UNCHANGED <<adc, disable_sleep, return, step, register, finished, holders, lost, owed>>

Irq == IrqReference \/ IrqInput

Task == TaskReleases \/ TaskStartsNext \/ TaskNotifies

Next ==
    \/ \E c \in Channel : AsyncMeasure(c) \/ AsyncPends(c)
    \/ OtherLocks \/ LockLoad \/ LockStore
    \/ Converts \/ Irq
    \/ Task \/ TaskReturns

\* The converter converts, interrupts are taken, and the main program goes on
\* from every step that is not a decision of the application.  An interrupt
\* does not wait for the main program (strong fairness: the bound MaxLost takes
\* it back now and then), and the application comes back to the scheduler and
\* returns from its handler, however often it calls meanwhile.
Spec ==
    /\ Init /\ [][Next]_vars
    /\ WF_vars(Converts) /\ SF_vars(Irq)
    /\ WF_vars(LockLoad) /\ WF_vars(LockStore)
    /\ SF_vars(TaskReleases) /\ WF_vars(TaskStartsNext) /\ WF_vars(TaskNotifies)
    /\ SF_vars(TaskReturns)

-------------------------------------------------------------------------------
\* The variables are of their types.
TypeOK ==
    /\ channel_in_progress \in Channel \cup {NONE}
    /\ pending \subseteq Channel /\ owed \subseteq Channel
    /\ state \in {"reference", "input"}
    /\ converting \in {"off", "busy", "done"}
    /\ planned \in BOOLEAN
    /\ disable_sleep \in Int /\ register \in Int
    /\ pc \in {"idle", "load", "store", "task", "notify", "event"}
    /\ return \in {"idle", "event"}
    /\ step \in {1, -1}
    /\ finished \in Channel
    /\ holders \in 0..MaxHolders /\ lost \in 0..MaxLost

\* The main program never sleeps (in twr_sleep, between tasks) while a
\* conversion is running or while another part of the program holds the lock:
\* the unmasked increments and decrements may leave the lock too high when the
\* handler decrements between their load and store, never too low.
AwakeWhileBusy ==
    (pc = "idle" /\ (converting # "off" \/ holders > 0)) => disable_sleep > 0

\* While a channel is in progress its conversion is running or the task that
\* ends it is planned: the ADC is never taken with nobody to release it.
NeverWedged ==
    channel_in_progress # NONE <=> (converting # "off" \/ planned)

\* Every request is followed by an event of its channel, whatever is requested
\* of the other channels meanwhile, also by the handlers themselves.
Answered == \A c \in Channel : c \in owed ~> c \notin owed
===============================================================================
