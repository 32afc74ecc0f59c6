------------------------------- MODULE UartWrite ------------------------------
(***************************************************************************)
(* twr_uart.c, the transmit side of one channel: the blocking write, the   *)
(* asynchronous write with its FIFO, the TXE and TC interrupts and the     *)
(* task that ends a write.  The main program's steps interleave with the   *)
(* handler and with the shift register of the peripheral; bytes accepted   *)
(* by the asynchronous write are numbered in order of acceptance.          *)
(* The FIFO is the bounded queue Fifo implements; the task pool is seen    *)
(* from this channel only: is its write task registered, is it planned.    *)
(***************************************************************************)
EXTENDS Naturals, Sequences

CONSTANTS Capacity,   \* bytes the write FIFO holds
          Chunk,      \* bytes moved per twr_fifo_write call (16 in the code)
          MaxLen,     \* bound: bytes in one call
          MaxBytes    \* bound: asynchronous bytes accepted in one behaviour

ASSUME ChunkAssumption == Capacity \in Nat \ {0} /\ Chunk \in Nat \ {0}
ASSUME BoundAssumption == MaxLen \in Nat /\ MaxBytes \in Nat

VARIABLES
    lpuart,       \* the channel is the LPUART1 (never changes)
    style,        \* how the application uses the channel (never changes):
                  \* "patient", it waits for ASYNC_WRITE_DONE before it writes
                  \* or deinitialises again, the way the modem drivers do, or
                  \* "appending", it also adds to a write in progress
    initialized,  \* _twr_uart[channel].initialized, and its interrupt enabled
    in_progress,  \* async_write_in_progress
    fifo,         \* the write FIFO's bytes
    task,         \* the write task: "none", "parked" (infinity) or "planned"
    locks,        \* holds this channel has on deep sleep (LPUART) or the PLL
    txeie, tcie,  \* the interrupt enables of CR1
    tdr, shift,   \* the data and shift registers, each holding <<byte>> or <<>>
    tc,           \* the transmission complete flag of ISR
    pc,           \* where the main program is in a call
    todo,         \* bytes the call has yet to hand over
    took,         \* bytes_written of the call
    accepted,     \* history: asynchronous bytes accepted so far
    sent,         \* history: asynchronous bytes that left on the wire, in order
    done          \* history: the channel has reported ASYNC_WRITE_DONE and
                  \* nothing was accepted since

usart == <<txeie, tcie, tdr, shift, tc>>
mode == <<lpuart, style>>
caller == <<mode, pc, todo, took>>
history == <<accepted, sent, done>>
vars == <<initialized, in_progress, fifo, task, locks, usart, caller, history>>

SyncByte == 0

Init ==
    /\ lpuart \in BOOLEAN /\ style \in {"patient", "appending"}
    /\ initialized = FALSE /\ in_progress = FALSE
    /\ fifo = <<>> /\ task = "none" /\ locks = 0
    /\ txeie = FALSE /\ tcie = FALSE /\ tdr = <<>> /\ shift = <<>> /\ tc = TRUE
    /\ pc = "idle" /\ todo = 0 /\ took = 0
    /\ accepted = 0 /\ sent = <<>> /\ done = TRUE

-------------------------------------------------------------------------------
\* twr_uart_init clears the channel's record and rewrites CR1; the caller sets
\* a FIFO it has just initialised (twr_uart_set_async_fifo).
UartInit ==
    /\ pc = "idle" /\ ~initialized
    /\ initialized' = TRUE /\ in_progress' = FALSE
    /\ fifo' = <<>> /\ txeie' = FALSE /\ tcie' = FALSE
    /\ UNCHANGED <<task, locks, tdr, shift, tc, caller, history>>

\* twr_uart_deinit on the transmit side: nothing is cancelled or released.
Deinit ==
    /\ pc = "idle" /\ initialized
    /\ initialized' = FALSE
    /\ UNCHANGED <<in_progress, fifo, task, locks, usart, caller, history>>

-------------------------------------------------------------------------------
(***************************************************************************)
(* twr_uart_async_write.                                                   *)
(***************************************************************************)
AsyncCall ==
    /\ pc = "idle" /\ initialized
    /\ \E n \in 1..MaxLen :
           /\ accepted + n <= MaxBytes
           /\ todo' = n
    /\ took' = 0
    /\ pc' = "fill"
    /\ UNCHANGED <<mode, initialized, in_progress, fifo, task, locks, usart, history>>

Least(a, b) == IF a < b THEN a ELSE b

\* One chunk goes to twr_fifo_write; a chunk that does not fit is cut short
\* and the loop still goes on to the next one.
Fill ==
    /\ pc = "fill" /\ todo > 0
    /\ LET chunk == Least(todo, Chunk)
           fits == Least(chunk, Capacity - Len(fifo))
       IN /\ fifo' = fifo \o [k \in 1..fits |-> accepted + k]
          /\ accepted' = accepted + fits
          /\ took' = took + fits
          /\ todo' = todo - chunk
          /\ done' = (done /\ fits = 0)
    /\ UNCHANGED <<mode, initialized, in_progress, task, locks, usart, pc, sent>>

NothingTaken ==
    /\ pc = "fill" /\ todo = 0 /\ took = 0
    /\ pc' = "idle"
    /\ UNCHANGED <<mode, initialized, in_progress, fifo, task, locks, usart, todo, took, history>>

\* Mutant: every write takes the lock, also one that joins a write in progress.
ParkLocksAgain ==
    /\ pc = "fill" /\ todo = 0 /\ took > 0
    /\ pc' = "enable"
    /\ task' = "parked"
    /\ locks' = locks + 1
    /\ UNCHANGED <<mode, initialized, in_progress, fifo, usart, todo, took, history>>

\* The first write registers the task parked and takes the lock; a write that
\* finds another in progress parks the task again.
Park ==
    /\ pc = "fill" /\ todo = 0 /\ took > 0
    /\ pc' = "enable"
    /\ task' = "parked"
    /\ locks' = IF in_progress THEN locks ELSE locks + 1
    /\ UNCHANGED <<mode, initialized, in_progress, fifo, usart, todo, took, history>>

\* Mutant: only the write that starts the transfer enables the interrupt.
EnableTxeOnce ==
    /\ pc = "enable"
    /\ txeie' = (txeie \/ ~in_progress)
    /\ pc' = "flag"
    /\ UNCHANGED <<mode, initialized, in_progress, fifo, task, locks, tcie, tdr, shift, tc,
                   todo, took, history>>

\* CR1 |= TXEIE under the interrupt mask, then the flag and the return.
EnableTxe ==
    /\ pc = "enable"
    /\ txeie' = TRUE
    /\ pc' = "flag"
    /\ UNCHANGED <<mode, initialized, in_progress, fifo, task, locks, tcie, tdr, shift, tc,
                   todo, took, history>>

SetInProgress ==
    /\ pc = "flag"
    /\ in_progress' = TRUE
    /\ took' = 0
    /\ pc' = "idle"
    /\ UNCHANGED <<mode, initialized, fifo, task, locks, usart, todo, history>>

(***************************************************************************)
(* twr_uart_write, the blocking write.  It polls TXE byte by byte, then TC.*)
(***************************************************************************)
SyncCall ==
    /\ pc = "idle" /\ initialized /\ ~in_progress
    /\ todo' \in 1..MaxLen
    /\ locks' = IF lpuart THEN locks ELSE locks + 1
    /\ pc' = "poll"
    /\ UNCHANGED <<mode, initialized, in_progress, fifo, task, usart, took, history>>

SyncLoad ==
    /\ pc = "poll" /\ todo > 0
    /\ tdr = <<>>
    /\ tdr' = <<SyncByte>> /\ tc' = FALSE
    /\ todo' = todo - 1
    /\ UNCHANGED <<mode, initialized, in_progress, fifo, task, locks, txeie, tcie, shift,
                   pc, took, history>>

SyncReturn ==
    /\ pc = "poll" /\ todo = 0
    /\ tc
    /\ locks' = IF lpuart THEN locks ELSE locks - 1
    /\ pc' = "idle"
    /\ UNCHANGED <<mode, initialized, in_progress, fifo, task, usart, todo, took, history>>

-------------------------------------------------------------------------------
(***************************************************************************)
(* The scheduler runs the write task once the main program is back in it.  *)
(***************************************************************************)
WriteTask ==
    /\ pc = "idle" /\ task = "planned"
    /\ in_progress' = FALSE
    /\ task' = "none"
    /\ locks' = locks - 1
    /\ done' = TRUE
    /\ UNCHANGED <<initialized, fifo, usart, caller, accepted, sent>>

(***************************************************************************)
(* The handler, its transmit part and then its completion part.  A plan of *)
(* a task that is no longer registered reaches a free slot, or another     *)
(* task's; it does not bring this one back.                                *)
(***************************************************************************)
\* Mutant: the enable is looked at, the flag is not.
TxePendingUnchecked == txeie
TxePending == txeie /\ tdr = <<>>
TcPending == tcie /\ tc

\* Mutant: the write is over when the FIFO runs dry, the last frames still to go.
CompletesDry(feed, drained) == (tcie \/ drained) /\ ~feed
\* The completion part sees the TCIE the transmit part has just set.
Completes(feed, drained) == (tcie \/ drained) /\ tc /\ ~feed

Handler ==
    /\ initialized
    /\ TxePending \/ TcPending
    /\ LET feed == TxePending /\ fifo # <<>>
           drained == TxePending /\ fifo = <<>>
           complete == Completes(feed, drained)
       IN /\ fifo' = IF feed THEN Tail(fifo) ELSE fifo
          /\ tdr' = IF feed THEN <<Head(fifo)>> ELSE tdr
          /\ tc' = (tc /\ ~feed)
          /\ txeie' = (txeie /\ ~drained)
          /\ tcie' = ((tcie \/ drained) /\ ~complete)
          /\ task' = IF complete /\ task # "none" THEN "planned" ELSE task
    /\ UNCHANGED <<initialized, in_progress, locks, shift, caller, history>>

-------------------------------------------------------------------------------
(***************************************************************************)
(* The peripheral: the data register moves to the shift register when that *)
(* is free; the end of the last frame sets TC.                             *)
(***************************************************************************)
Leaves == IF Head(shift) = SyncByte THEN sent ELSE Append(sent, Head(shift))

Load ==
    /\ initialized /\ shift = <<>> /\ tdr # <<>>
    /\ shift' = tdr /\ tdr' = <<>>
    /\ UNCHANGED <<initialized, in_progress, fifo, task, locks, txeie, tcie, tc, caller, history>>

FrameEnds ==
    /\ initialized /\ shift # <<>>
    /\ shift' = <<>>
    /\ sent' = Leaves
    /\ tc' = (tdr = <<>>)
    /\ UNCHANGED <<initialized, in_progress, fifo, task, locks, txeie, tcie, tdr, caller,
                   accepted, done>>
-------------------------------------------------------------------------------
AsyncSteps == Fill \/ NothingTaken \/ Park \/ EnableTxe \/ SetInProgress
SyncSteps == SyncLoad \/ SyncReturn
Main == AsyncSteps \/ SyncSteps \/ WriteTask
Peripheral == Load \/ FrameEnds

Application ==
    \/ UartInit
    \/ style = "patient" /\ ~in_progress /\ (AsyncCall \/ SyncCall \/ Deinit)
    \/ style = "appending" /\ AsyncCall

Fairness == /\ WF_vars(Main) /\ WF_vars(Handler) /\ WF_vars(Peripheral)

Next == Application \/ Main \/ Handler \/ Peripheral

Spec == Init /\ [][Next]_vars /\ Fairness

-------------------------------------------------------------------------------
\* What a register holds of the asynchronous bytes.
Numbered(r) == IF r = <<SyncByte>> THEN <<>> ELSE r
InFlight == Numbered(shift) \o Numbered(tdr)

\* Every byte async_write accepted is on the wire, in the two registers or in
\* the FIFO, in the order of acceptance: neither the handler nor a blocking
\* write that follows ever overwrites or overtakes one.
InOrder == sent \o InFlight \o fifo = [k \in 1..accepted |-> k]

\* ASYNC_WRITE_DONE ("Event is writting done") is reported only when every byte
\* accepted before it has left on the wire.
DoneMeansSent == done => Len(sent) = accepted

\* To an application that waits for it, it does mean that.
PatientDoneMeansSent == style = "patient" => DoneMeansSent

\* Whatever was accepted is sent, and the write in progress is reported done.
EverythingLeaves == <>[](Len(sent) = accepted /\ ~in_progress)
                    \/ []<>(~initialized)
===============================================================================
