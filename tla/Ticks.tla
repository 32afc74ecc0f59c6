--------------------------------- MODULE Ticks ---------------------------------
(* The clock that the scheduler and its tasks share: twr_tick_t is 64 bits     *)
(* wide, so a sum of two ticks wraps.                                          *)
EXTENDS Naturals

CONSTANTS Infinity,   \* TWR_TICK_INFINITY, the largest twr_tick_t
          MaxTick     \* bound: the tick counter stops counting here

ASSUME TickAssumption == Infinity \in Nat /\ MaxTick \in Nat /\ MaxTick < Infinity

VARIABLES now,        \* _twr_tick_counter
          tick_spin   \* time at the start of the scheduler's spin

Tick == 0..Infinity

\* A delay of TWR_TICK_INFINITY lands one tick ago.
After(tick, delay) == (tick + delay) % (Infinity + 1)
===============================================================================
