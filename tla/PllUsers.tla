------------------------------ MODULE PllUsers -------------------------------
(***************************************************************************)
(* The holders of the clocks together: a UART channel (its write locks the *)
(* PLL, or deep sleep when it is the LPUART), the SPI driver on the DMA,   *)
(* and the OOK transmitter whose timer handler gives the PLL back.  The    *)
(* main program is in one call at a time; the handlers and the peripherals *)
(* run at any moment.  A behaviour has the UART or the SPI beside the      *)
(* transmitter: the two meet in nothing but the count of the PLL.          *)
(***************************************************************************)
EXTENDS UartWrite, Spi

VARIABLE scene  \* what the application drives (never changes): "uart" or "spi"

pvars == <<vars, clocks, spi, dma, scene>>

PInit == Init /\ ClocksInit /\ SpiInit /\ scene \in {"uart", "spi"}

MainFree == call = "none" /\ caller_is = "nobody"

\* A step of the UART with the lock it takes or gives back.
WithLock ==
    /\ scene = "uart" /\ MainFree
    /\ CASE locks' = locks -> UNCHANGED clocks
         [] locks' # locks /\ lpuart -> DeepSleep(locks' - locks)
         [] OTHER -> PllCall(locks' - locks, "uart")
    /\ UNCHANGED <<spi, dma, scene>>

UartAsked == Application /\ WithLock
UartRuns == Main /\ WithLock

UartReturns ==
    /\ caller_is = "uart" /\ call = "none"
    /\ caller_is' = "nobody"
    /\ UNCHANGED <<vars, counts, deep, call, step, register, sending, stray, raced,
                   spi, dma, scene>>

UartHandler == Handler /\ UNCHANGED <<clocks, spi, dma, scene>>
UartPeripheral == Peripheral /\ UNCHANGED <<clocks, spi, dma, scene>>

\* The application and the tasks run when no call of the UART is under way.
SpiAsked ==
    /\ scene = "spi" /\ MainFree
    /\ Transfer \/ AsyncTransfer
    /\ UNCHANGED <<vars, scene>>

SpiTasks ==
    /\ MainFree
    /\ DmaTask \/ SpiTask
    /\ UNCHANGED <<vars, scene>>

SpiReturns == (GivesBack \/ AsyncStarts \/ SpiTaskEnds) /\ UNCHANGED <<vars, scene>>

Channel5 == scene = "spi" /\ (DmaHalf \/ DmaDone) /\ UNCHANGED <<vars, scene>>
OtherChannels == scene = "spi" /\ DmaOther /\ UNCHANGED <<vars, scene>>

OokAsked == pc = "idle" /\ MainFree /\ OokSend /\ UNCHANGED <<vars, spi, dma, scene>>
OokReturns == OokStarts /\ UNCHANGED <<vars, spi, dma, scene>>
OokHandler == OokEnds /\ UNCHANGED <<vars, spi, dma, scene>>

InCall == PllSteps /\ UNCHANGED <<vars, spi, dma, scene>>

Continues == InCall \/ UartReturns \/ SpiReturns \/ OokReturns

PNext == \/ UartAsked \/ UartRuns \/ UartHandler \/ UartPeripheral
         \/ SpiAsked \/ SpiTasks \/ Channel5 \/ OtherChannels
         \/ OokAsked \/ OokHandler \/ Continues

(***************************************************************************)
(* The main program goes on, and the scheduler does not pass over a task   *)
(* that is planned, whatever the application calls in between.             *)
(***************************************************************************)
PFairness ==
    /\ SF_pvars(UartRuns) /\ SF_pvars(DmaTask /\ SpiTasks) /\ SF_pvars(SpiTask /\ SpiTasks)
    /\ WF_pvars(Continues)
    /\ WF_pvars(UartHandler) /\ WF_pvars(UartPeripheral) /\ WF_pvars(Channel5)

PSpec == PInit /\ [][PNext]_pvars /\ PFairness

-------------------------------------------------------------------------------
\* The registered write task, and the blocking write of a channel on the PLL.
UartLocks == (IF task = "none" THEN 0 ELSE 1) + (IF pc = "poll" /\ ~lpuart THEN 1 ELSE 0)
UartHolds == IF lpuart THEN 0 ELSE UartLocks
DeepHolds == IF lpuart THEN UartLocks ELSE 0
OokHolds == IF sending \/ caller_is = "ook" THEN 1 ELSE 0
CallHolds == IF caller_is \in {"transfer", "refused"} /\ step = 1 THEN 1 ELSE 0
AsyncHolds == IF \/ caller_is = "async"
                 \/ spi_in_progress /\ caller_is # "transfer"
                 \/ pending_event_done /\ caller_is # "task" THEN 1 ELSE 0

\* Between two calls the PLL runs, and the main program does not sleep, exactly
\* while a write of the UART, a transfer of the SPI or the transmitter holds it,
\* and deep sleep is counted off exactly while a write of the LPUART is on: each
\* one gives back what it took, once, on whatever path it ends.  The count of the PLL is
\* off by the locks known to be lost (see OokEnds and AsyncTransfer), and one given
\* back twice after a DONE that the DMA channel had not sent.
ClockFollows ==
    /\ spurious \/ ClockFollowsHolders(UartHolds + OokHolds + CallHolds + AsyncHolds)
    /\ deep_sleep = DeepHolds /\ (deep_sleep = 0 => sleepdeep)

\* Frames leave at the clock their baud rate was computed for: while a write of
\* a patient application is in the registers, the core does not stop the
\* LPUART's clock, and the PLL drives the others, unless the OOK handler has
\* switched it off under a caller that had loaded the count.
FramesClocked ==
    (style = "patient" /\ tdr \o shift # <<>>) =>
        IF lpuart THEN pc = "idle" => ~sleepdeep
        ELSE raced \/ (source = "PLL" /\ disable_sleep > 0)

\* A transfer ends, its handler is told and the driver takes the next one,
\* unless the event got lost in the FIFO of the DMA: it was full, or two handlers
\* wrote to it at once.
TransferEnds == ~SpiReady ~> (SpiReady \/ dropped)
===============================================================================
