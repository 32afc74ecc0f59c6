--------------------------------- MODULE Spi ---------------------------------
(***************************************************************************)
(* twr_spi.c on twr_dma.c: blocking transfers, and transfers in the        *)
(* background that a DMA channel carries out.  The DMA handler puts what   *)
(* happened in a FIFO; the DMA task hands it to the driver, whose task     *)
(* reports and gives the PLL back.  The other DMA channels (twr_dac.c,     *)
(* twr_uart.c, twr_ws2812b.c) share the FIFO.                              *)
(***************************************************************************)
EXTENDS Clocks, Sequences

CONSTANT PendingCapacity  \* events the FIFO of twr_dma.c holds

ASSUME PendingAssumption == PendingCapacity \in Nat \ {0}

VARIABLES
    spi_in_progress,     \* _twr_spi.in_progress
    pending_event_done,  \* _twr_spi.pending_event_done
    event_handler,       \* _twr_spi.event_handler is not NULL
    spi_planned,         \* _twr_spi_task is planned
    channel5,            \* the DMA channel: "off", "first" or "second" half
    fifo_pending,        \* _twr_dma.fifo_pending
    dma_planned,         \* _twr_dma_task is planned
    dropped,             \* history: a DONE of channel5 did not reach the task
    spurious             \* history: the FIFO held a DONE channel5 had not sent

spi == <<spi_in_progress, pending_event_done, event_handler, spi_planned>>
dma == <<channel5, fifo_pending, dma_planned, dropped, spurious>>

SpiInit ==
    /\ spi_in_progress = FALSE /\ pending_event_done = FALSE
    /\ event_handler = FALSE /\ spi_planned = FALSE
    /\ channel5 = "off" /\ fifo_pending = <<>> /\ dma_planned = FALSE
    /\ dropped = FALSE /\ spurious = FALSE

SpiReady == ~spi_in_progress /\ ~pending_event_done

\* twr_spi_transfer(): the PLL is taken, the bytes go out, it is given back.
Transfer ==
    /\ ~spi_in_progress
    /\ spi_in_progress' = TRUE
    /\ PllCall(1, "transfer")
    /\ UNCHANGED <<pending_event_done, event_handler, spi_planned, dma>>

\* After the bytes of a blocking transfer, and at once for a direction that the
\* asynchronous transfer does not know, the PLL is given back.
GivesBack ==
    /\ caller_is \in {"transfer", "refused"} /\ call = "none"
    /\ IF step = 1
          THEN PllCall(-1, caller_is) /\ UNCHANGED spi_in_progress
          ELSE /\ spi_in_progress' = (spi_in_progress /\ caller_is = "refused")
               /\ caller_is' = "nobody"
               /\ UNCHANGED <<counts, deep, call, step, register, sending, stray, raced>>
    /\ UNCHANGED <<pending_event_done, event_handler, spi_planned, dma>>

\* twr_spi_async_transfer(): only a transmission starts; one without a handler
\* never gives the PLL back.
AsyncTransfer ==
    /\ SpiReady
    /\ event_handler' \in BOOLEAN
    /\ event_handler' \/ stray < MaxStray
    /\ PllCall(1, "async") \/ PllCall(1, "refused")
    /\ UNCHANGED <<spi_in_progress, pending_event_done, spi_planned, dma>>

AsyncStarts ==
    /\ caller_is = "async" /\ call = "none"
    /\ caller_is' = "nobody"
    /\ spi_in_progress' = TRUE
    /\ channel5' = IF channel5 = "off" THEN "first" ELSE channel5
    /\ UNCHANGED <<counts, deep, call, step, register, sending, stray, raced,
                   pending_event_done, event_handler, spi_planned,
                   fifo_pending, dma_planned, dropped, spurious>>

-------------------------------------------------------------------------------
(***************************************************************************)
(* _twr_dma_irq_handler() writes one byte an event, and masks nothing: the *)
(* handlers of the channels 2 and 3 preempt those of 4 to 7 inside         *)
(* twr_fifo_irq_write().  The main program sees the outcome alone, so that *)
(* a write and the write that preempts it (bound: one) make one step.      *)
(***************************************************************************)
Events == {"half", "done", "other"}

DoneIn(events) == \E k \in DOMAIN events : events[k] = "done"

\* A whole write: what does not fit is forgotten.
Put(events, e) == IF Len(events) < PendingCapacity THEN Append(events, e) ELSE events

\* The head moves on untested: where it meets the tail the FIFO reads as empty.
MovesOn(events, e) == IF Len(events) < PendingCapacity THEN Append(events, e) ELSE <<>>

\* Both writers find the same slot free, and one byte of the two is lost.  Either
\* the head they load is the same, and the preempting byte is the one that stays,
\* or the head moves twice, and the second slot holds the other byte, or what an
\* earlier round has left there.
Preempted(events, e) ==
    {Append(events, "other")}
        \cup {MovesOn(Append(events, first), second) : first \in {e, "other"}, second \in Events}

Pends(event) ==
    /\ \/ fifo_pending' = Put(fifo_pending, event)
       \/ Len(fifo_pending) < PendingCapacity /\ fifo_pending' \in Preempted(fifo_pending, event)
    /\ dma_planned' = TRUE

\* What becomes of the DONEs when channel5 itself sends none (bound: a stale one
\* enters the FIFO once).
OthersPend ==
    /\ dropped' = (dropped \/ (DoneIn(fifo_pending) /\ ~DoneIn(fifo_pending')))
    /\ spurious' = (spurious \/ (DoneIn(fifo_pending') /\ ~DoneIn(fifo_pending)))
    /\ spurious /\ DoneIn(fifo_pending') => DoneIn(fifo_pending)

DmaHalf ==
    /\ channel5 = "first" /\ channel5' = "second"
    /\ Pends("half") /\ OthersPend
    /\ UNCHANGED <<spi, clocks>>

DmaDone ==
    /\ channel5 = "second" /\ channel5' = "off"
    /\ Pends("done")
    /\ dropped' = (dropped \/ ~DoneIn(fifo_pending'))
    /\ UNCHANGED <<spi, spurious, clocks>>

DmaOther ==
    /\ Pends("other") /\ OthersPend
    /\ UNCHANGED <<channel5, spi, clocks>>

\* Mutant: the task takes one event and leaves the others.
DmaTaskTakesOne ==
    /\ dma_planned /\ dma_planned' = FALSE
    /\ fifo_pending # <<>> /\ fifo_pending' = Tail(fifo_pending)
    /\ IF Head(fifo_pending) = "done"
          THEN spi_in_progress' = FALSE /\ pending_event_done' = TRUE /\ spi_planned' = TRUE
          ELSE UNCHANGED <<spi_in_progress, pending_event_done, spi_planned>>
    /\ UNCHANGED <<event_handler, channel5, dropped, spurious, clocks>>

\* _twr_dma_task() with _twr_spi_dma_event_handler(): all that is in the FIFO.
DmaTask ==
    /\ dma_planned /\ dma_planned' = FALSE
    /\ fifo_pending' = <<>>
    /\ IF DoneIn(fifo_pending)
          THEN spi_in_progress' = FALSE /\ pending_event_done' = TRUE /\ spi_planned' = TRUE
          ELSE UNCHANGED <<spi_in_progress, pending_event_done, spi_planned>>
    /\ UNCHANGED <<event_handler, channel5, dropped, spurious, clocks>>

\* _twr_spi_task() up to the end of the handler, and after pll_disable().
SpiTask ==
    /\ spi_planned /\ spi_planned' = FALSE
    /\ IF event_handler
          THEN PllCall(-1, "task") /\ UNCHANGED pending_event_done
          ELSE /\ pending_event_done' = FALSE
               /\ stray' = stray + 1
               /\ UNCHANGED <<counts, deep, calling, sending, raced>>
    /\ UNCHANGED <<spi_in_progress, event_handler, dma>>

SpiTaskEnds ==
    /\ caller_is = "task" /\ call = "none"
    /\ caller_is' = "nobody" /\ pending_event_done' = FALSE
    /\ UNCHANGED <<counts, deep, call, step, register, sending, stray, raced,
                   spi_in_progress, event_handler, spi_planned, dma>>
===============================================================================
