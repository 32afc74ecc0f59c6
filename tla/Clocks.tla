------------------------------- MODULE Clocks -------------------------------
(***************************************************************************)
(* twr_system.c: the locks on the clocks.  The PLL runs while its count is *)
(* not zero; it holds HSI16, and HSI16 holds the sleep lock.  The main     *)
(* program counts, and so does the timer handler that ends a transmission  *)
(* of twr_rf_ook.c.  Nothing masks the counting: ++ and -- are a load and  *)
(* a store, and the handler may run between them, or between any two steps *)
(* of what follows.  The handler itself is not interrupted by another one  *)
(* that counts.                                                            *)
(***************************************************************************)
EXTENDS Integers

CONSTANT MaxStray  \* bound: locks that nobody holds any more

ASSUME StrayAssumption == MaxStray \in Nat

VARIABLES
    pll,            \* _twr_system_pll_enable_semaphore
    hsi16,          \* _twr_system_hsi16_enable_semaphore
    disable_sleep,  \* sleep_manager.disable_sleep
    source,         \* the clock of the core: "MSI", "HSI" or "PLL"
    deep_sleep,     \* _twr_system_deep_sleep_disable_semaphore
    sleepdeep,      \* SCB->SCR SLEEPDEEP: an idle core stops its clocks
    call,           \* the main program in pll_enable() or pll_disable():
                    \* "none", "load", "store", "hsi", "pll", or "off"
    caller_is,      \* who calls
    step,           \* what the call adds to the count: 1 or -1
    register,       \* the count it has loaded
    sending,        \* twr_rf_ook.c transmits: TIM3 is enabled
    stray,          \* history: locks lost (an overwritten decrement, or a holder
                    \* that never gives back)
    raced           \* history: the handler switched the PLL off between the
                    \* load and the store of a call that enables it

counts == <<pll, hsi16, disable_sleep, source>>
deep == <<deep_sleep, sleepdeep>>
calling == <<call, caller_is, step, register>>
clocks == <<counts, deep, calling, sending, stray, raced>>

ClocksInit ==
    /\ pll = 0 /\ hsi16 = 0 /\ disable_sleep = 0 /\ source = "MSI"
    /\ deep_sleep = 0 /\ sleepdeep = TRUE
    /\ call = "none" /\ caller_is = "nobody" /\ step = 1 /\ register = 0
    /\ sending = FALSE /\ stray = 0 /\ raced = FALSE

\* The main program calls twr_system_pll_enable() (d = 1) or _disable() (-1).
PllCall(d, who) ==
    /\ call' = "load" /\ caller_is' = who /\ step' = d
    /\ UNCHANGED <<counts, deep, register, sending, stray, raced>>

\* The call returns to its caller: what the caller does next is its own.
Returns == call' = "none"

CallLoad ==
    /\ call = "load"
    /\ register' = pll
    /\ call' = "store"
    /\ UNCHANGED <<counts, deep, caller_is, step, sending, stray, raced>>

\* The value stored decides, whatever the count is by then.
CallStore ==
    /\ call = "store"
    /\ pll' = register + step
    /\ call' = CASE step = 1 /\ pll' = 1 -> "hsi"
                 [] step = -1 /\ pll' = 0 -> "off"
                 [] OTHER -> "none"
    /\ UNCHANGED <<hsi16, disable_sleep, source, deep, caller_is, step, register,
                   sending, stray, raced>>

\* twr_system_hsi16_enable() and _disable(), with the sleep lock.
TakesHsi16 ==
    /\ hsi16' = hsi16 + 1
    /\ source' = IF hsi16' = 1 THEN "HSI" ELSE source
    /\ disable_sleep' = disable_sleep + 1

LeavesHsi16 ==
    /\ hsi16' = hsi16 - 1
    /\ source' = IF hsi16' = 0 THEN "MSI" ELSE "HSI"
    /\ disable_sleep' = disable_sleep - 1

CallHsi16 ==
    /\ call = "hsi"
    /\ TakesHsi16
    /\ call' = "pll"
    /\ UNCHANGED <<pll, deep, caller_is, step, register, sending, stray, raced>>

CallPll ==
    /\ call = "pll"
    /\ source' = "PLL"
    /\ Returns
    /\ UNCHANGED <<pll, hsi16, disable_sleep, deep, caller_is, step, register,
                   sending, stray, raced>>

CallOff ==
    /\ call = "off"
    /\ LeavesHsi16
    /\ Returns
    /\ UNCHANGED <<pll, deep, caller_is, step, register, sending, stray, raced>>

PllSteps == CallLoad \/ CallStore \/ CallHsi16 \/ CallPll \/ CallOff

\* Mutant: the bit is written before the count is looked at.
DeepSleepCountsFirst(d) ==
    /\ deep_sleep' = deep_sleep + d
    /\ sleepdeep' = IF deep_sleep' = 0 THEN d = -1 ELSE sleepdeep
    /\ UNCHANGED <<counts, calling, sending, stray, raced>>

\* twr_system_deep_sleep_disable() (1) and _enable() (-1); only the main program
\* calls them.
DeepSleep(d) ==
    /\ deep_sleep' = deep_sleep + d
    /\ sleepdeep' = IF d = 1 THEN sleepdeep /\ deep_sleep # 0
                             ELSE sleepdeep \/ deep_sleep' = 0
    /\ UNCHANGED <<counts, calling, sending, stray, raced>>

-------------------------------------------------------------------------------
\* twr_rf_ook_send(), when no transmission runs: the PLL, then the timer.
OokSend ==
    /\ ~sending
    /\ PllCall(1, "ook")

OokStarts ==
    /\ caller_is = "ook" /\ call = "none" /\ ~sending
    /\ sending' = TRUE /\ caller_is' = "nobody"
    /\ UNCHANGED <<counts, deep, call, step, register, stray, raced>>

\* The timer handler after the last bit, at any moment: pll_disable() as a whole.
OokEnds ==
    /\ sending
    /\ sending' = FALSE
    /\ pll' = pll - 1
    /\ IF pll' = 0 THEN LeavesHsi16 ELSE UNCHANGED <<hsi16, disable_sleep, source>>
    /\ IF call = "store"
          THEN /\ stray < MaxStray /\ stray' = stray + 1
               /\ raced' = (raced \/ (step = 1 /\ pll' = 0))
          ELSE UNCHANGED <<stray, raced>>
    /\ UNCHANGED <<deep, calling>>

-------------------------------------------------------------------------------
(***************************************************************************)
(* Between two calls the clock is the PLL, and the main program does not   *)
(* sleep, exactly while somebody holds the PLL or a lock of it has gone    *)
(* astray.                                                                 *)
(***************************************************************************)
ClockFollowsHolders(holders) ==
    (call = "none" /\ ~raced) =>
        /\ pll = holders + stray
        /\ source = IF pll > 0 THEN "PLL" ELSE "MSI"
        /\ disable_sleep = IF pll > 0 THEN 1 ELSE 0
===============================================================================
