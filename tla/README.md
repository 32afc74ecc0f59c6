# Formal models of the core module SDK

TLA+ models, TLC configurations and TLAPS proofs for the firmware SDK in `src/`
(a C library for an STM32L0 node with a SPIRIT1 sub-GHz radio). The code is the
reference: every definition is translated from the lines named in `PROJECT.json`
("map"). Paths below are relative to `src/twr/src/`.

    tlc -workers 2 -config radio.cfg RadioLinkMC.tla     # one run
    tlapm TaskProofs.tla                                 # one proof module

## 1. The system

The firmware has one thread of control, the scheduler's loop in `main`, and
interrupt handlers that preempt it at any instruction. Drivers are state machines
run from scheduler tasks; handlers put what happened in a FIFO or a register and
plan a task. Nothing blocks except a few busy waits. Stations talk over a
half-duplex radio channel that loses packets. What survives a reboot is in EEPROM.

| Component | State | Operations | Interacts with | What is hard | What makes it correct |
|---|---|---|---|---|---|
| FIFO `twr_fifo.c` | array, head, tail | write, read, irq_write, irq_read, is_empty, purge | UART, DMA; the mask of `twr_irq.c` | the handler between two stores of the main program; wrap-around | each call is one step of a bounded queue; accesses stay in the array |
| Scheduler `twr_scheduler.c`, `main.c` | pool, loop bound, spin tick | register, unregister, the plans, the loop | every driver; handlers plan tasks | pool changed by the task that is running; planning during the scan; sleep | no live task beyond the bound; a due task is served in this spin; no wakeup is lost |
| Tick, sleep, mask `twr_tick.c`, `twr_sleep.c`, `twr_irq.c` | counter, lock counts | get, increment, disable, enable | all | unmasked counting | balanced locks, exclusive sections |
| Clocks `twr_system.c` | PLL, HSI16 and deep-sleep counts | enable, disable | almost all drivers, one timer handler | nesting; a handler between a load and a store of the count | a clock runs exactly while anyone holds it |
| UART `twr_uart.c` | per channel: flags, FIFOs, tasks, registers | init, deinit, write, async write, read start, read, cancel, handler, two tasks | FIFO, scheduler, PLL and deep-sleep locks, DMA (UART2) | append racing the end of a transfer; a byte racing the timeout; cancel racing the handler | bytes in order, DONE means sent, no wakeup lost, locks balanced |
| DMA, SPI `twr_dma.c`, `twr_spi.c` | pending events, transfer in progress | transfer, async transfer, handler, two tasks | PLL, scheduler | an event dropped; a transfer taken for ready between handler and task | every transfer ends and gives the PLL back |
| ADC `twr_adc.c` | channel in progress, pending channels | async measure, handler, task | sleep lock, scheduler | the handler counts the lock too; requests during a conversion | awake during a conversion; the converter is released; each request is answered |
| EEPROM `twr_eeprom.c` | the memory, the async job | write, read, async write, cancel | config, radio | power failure, wear, busy memory | what was read back is what was written |
| Configuration `twr_config.c` | RAM copy, three banks | init, load, save, reset | EEPROM | power failure inside a save, refused writes | a completed save survives; a mixture is never loaded |
| Radio protocol `twr_radio.c` | state, message id, transmissions left, peers, queues, subscriptions, receive deadline | publish, pair, attach, detach, purge, listen, events from the driver, its task | SPIRIT1 driver, queues, scheduler, EEPROM, other stations | loss, repetition, late acknowledgements, restarts, one transmit buffer for messages and acknowledgements, two clocks | at most once and in order; TX_DONE means taken; every exchange ends; peers survive |
| Transceiver driver `twr_spirit1.c` | desired and current state, buffers, timeout | tx, rx, sleep, its task, EXTI handler | radio protocol, SPI | runs from another task than the protocol | both layers agree on what the radio does |
| Queue `twr_queue.c` | records in a byte buffer | put, get, clear | radio | full queue | order, bounds |
| Sensors, modules, tags | five to eight states each | set interval, measure, task | scheduler, I2C | a request in the middle of a delay; error and retry paths; a line that interrupts | the device is ready when talked to; a measurement asked for is reported, no other is |
| Modems (`cmwx1zzabz`, `td1207r`, `wssfm10r1at`, `esp8266`) | command state, configuration | send, set, join, task | UART | late or missing answers; lines nobody asked for; requests from event handlers | DONE means accepted; a set value is kept; a command ends in DONE or ERROR |
| I2C, 1-Wire, data stream, RTC, codecs, base64, CRC | data | sequential functions | drivers | boundaries | equal to a reference |
| Display, LED strip, graphics, fonts, ciphers, hashes, console | data | rendering, arithmetic, text | | | not modelled, see section 7 |

`PROJECT.json` lists all components with their sources and status, and under
"hazards" the places in this code that a test would hardly reach.

## 2. Modules

| Module | Models | Shape |
|---|---|---|
| `BoundedQueue` | what a FIFO promises | a sequence, one step per call |
| `Fifo` | `twr_fifo.c` and the mask | one step per memory access, contexts "main" and "handler"; implements `BoundedQueue` |
| `Ticks` | the tick that `Scheduler` and `UartRead` share | a sum of two ticks wraps |
| `Scheduler` | `twr_scheduler.c`, `main.c` | the loop as a program counter, a body as any bounded sequence of calls, handlers anywhere |
| `UartWrite` | transmit half of `twr_uart.c` | caller, handler and shift register; bytes are numbered |
| `UartRead` | receive half of `twr_uart.c` (interrupt-driven channels) | caller, task, handler, scheduler visit and tick |
| `Clocks` | the locks of `twr_system.c` and `twr_sleep.c`, the OOK transmitter `twr_rf_ook.c` | a call is a load, a store and the changes of the clock; the timer handler anywhere between |
| `Spi` | `twr_spi.c` on `twr_dma.c` | extends `Clocks`: calls, DMA handler and the two tasks |
| `PllUsers` | the holders of the PLL together | composes `UartWrite` and `Spi` with the lock calls they make |
| `Adc` | `twr_adc.c` and the sleep lock | main program, two-phase handler, task; load and store of the lock apart |
| `Config` | `twr_config.c` with the synchronous `twr_eeprom.c` | one step per programmed word, power failures between them |
| `RadioLink` | `twr_radio.c` on `twr_spirit1.c`, on several stations, with the peer table in EEPROM | a station is a record, a handler an operator on records |
| `Drivers` | twenty measuring drivers and two Sigfox modems | one machine and a table of transitions per driver |
| `Esp8266` | `twr_esp8266.c` and the WiFi modem | the same shape as `Lora`, and the power of the modem |
| `Devices` | the drivers that stand alone | one behaviour per driver: those of `Drivers`, or `Esp8266` |
| `Lora` | `twr_cmwx1zzabz.c` and the modem | the task's states as actions, lines in and out as sequences |
| `FifoProofs`, `TaskProofs` (`Scheduler` and `UartRead`), `AdcProofs`, `ConfigProofs`, `PllUsersProofs`, `RadioLinkProofs`, `LoraProofs`, `DevicesProofs` | theorems | section 5 |
| `...MC` | values for the constants of a run | |

The modules build on each other by contract: `Fifo` implements `BoundedQueue`, and
the UART, DMA and modem modules use the FIFO as that atomic queue. All use the scheduler as
`Scheduler` shows it to be: a task planned for now is visited, once per spin.
`PllUsers` puts the lock calls of the UART and the SPI in place: a step of
`UartWrite` that changes its count of locks is, in the composition, the call of
`Clocks` that takes or gives back the PLL or deep sleep, load by store.

Correspondence, module by module:

* **Fifo.** `head`, `tail` and `buffer` are the fields; `pc[c]`, `i[c]` and `bytes[c]`
  the locals of the loop of context c. A handler starts only when interrupts are
  unmasked and runs to its end, so it preempts main between any two of its
  accesses outside the masked part. Purge clears its indices in two unmasked
  steps; the model keeps the handler out of the FIFO meanwhile, which is the duty of
  a caller: nobody in the SDK calls it.
* **Scheduler.** A body makes up to `MaxCalls` calls, each with any id (stale ids are
  legal) and any tick. The test `tick_spin >= tick_execution` and the store of
  infinity are one step: a handler that plans between them is served by the body
  that starts next. Ticks are 64 bits wide on a 32-bit machine; a torn store or load
  of `tick_execution` gives what one of the two orders gives or delays a visit to
  the next spin, so plans are atomic. The sum `tick_spin + tick` wraps.
* **UartWrite.** `tdr`, `shift`, `tc`, `txeie`, `tcie` are the peripheral; an append finds
  a write in progress. `UartWrite` has two clients: a patient one, as the modem
  drivers are, and one that appends, which `twr_uart_async_write` provides for.
* **UartRead.** `plan` is the tick of the read task's slot, `fresh` records that a byte
  arrived after the last report.
* **Clocks, Spi, PllUsers.** `pll`, `hsi16`, `disable_sleep` and `deep_sleep` are the
  counts, `source` the clock of the core. `call` is where the main program is in
  `twr_system_pll_enable` or `_disable`; `caller_is` who called. `stray` counts the
  locks known to be lost: a decrement of the OOK handler that a store of main
  overwrites, and an asynchronous SPI transfer without a handler, which never gives
  the PLL back. `channel5` is the DMA channel of the SPI; events of other channels
  go to the same FIFO. Its writes are not atomic: the handlers of the channels 1, 2
  and 3 have a higher priority (`twr_dma.c:83-92`) and nothing is masked, so `Preempted` are the
  contents two such writes can leave. `dropped` records that a DONE of channel 5 did not
  reach the task, `spurious` that the FIFO held one the channel had not sent.
* **Adc.** `pending` are the flags, `state` the handler's phase (reference, then
  input), `converting` the peripheral. `return` says whether a lock call came from
  a request or from the event handler. `holders` is the rest of the program,
  `lost` the decrements of the handler that a store of main overwrote.
* **Config.** A word is `Junk` when programming was cut short or failed. The bitwise
  majority of three different words may be anything. The hash is injective. The
  stored signature is the 64-bit argument cut to 32 bits.
* **RadioLink.** `state`/`desired`/`current` are the states of protocol and driver;
  `tx`, `cache` and `received` the transmit buffer, the message kept during an
  acknowledgement and the receive buffer. A frame has its sender, number, kind,
  addressee and one number of payload. Time is abstracted to its comparisons:
  `late` (the tick has reached `rx_timeout`), `expired` (the driver's deadline),
  `window` (the listening window is open), and `timeout` says which of them
  `rx_timeout` was taken from. `stored` is the peer table in the EEPROM as the vote
  over its copies reads it: `Cut` are the tables a save leaves that stops in an
  entry or in the length, by a refused write (then the task saves again) or by a
  power failure (`Reboot`, from `Images`). A station comes back after the others have
  read and acknowledged what they hold: a start takes longer than that. History
  variables record what was aired, heard and reported done, and `boot` which start
  of its sender a frame is from. `serial` is who a station is, `MyId` who it takes itself
  for: 0 until its serial number has been read (`ReadSerial`, line 323). Until then it
  listens, acknowledges and attaches, but its task does nothing. An acknowledgement
  names `MyId`, so that a node can pair with the gateway 0 (`Nobody`).
* **Drivers.** A table gives each state of each driver its outcomes: the next state,
  the delay it plans, the event it raises, whether it can fail. `settling` says that
  the delay the driver itself prescribed for its device is not over; `plan` is the
  slot of its task; `resume` is what the task does after the event handler, from
  which the application may call `measure` again. The four kinds of `measure` (at
  the tick the device is ready, now, after the running one, and those of `sps30`,
  `lp8`) are actions of their own. `calibrating` says that an `lp8` measurement carries a
  calibration the sensor may ask to repeat (`Calibrates`). I2C is a transfer that succeeds or fails.
* **Lora.** `tx` and `rx` are the commands and lines in the two FIFOs, `stored`, `aired`
  and `telling` the modem: its configuration, the message it took and the line it
  will send unasked. Lines arrive whole; the transmit FIFO always has room. Where the
  driver reads the FIFO empty before a command, and where it does not, is the
  code's. An error of the duty-cycle setting counts as OK, as the code takes it.
  `in_step`, `doubtful`, `nested` and `overtaken` are history: they name the
  exceptions the properties make.
* **Esp8266.** `state` and `after_init` are the fields of the driver, `pc` is where its task
  is, `powered` is CH_PD with the UART. A disconnect leaves the end of a command in the
  transmit FIFO or not. `rx` holds lines by what the driver makes of them ("ok", "error",
  "ipd", ... or a text without an end of line); the modem repeats commands until the
  first one of the initialization, takes what follows a send for its data, and says nothing when a
  fault is spent. `full` marks a message of the greatest length, for which the transmit FIFO
  lacks a byte. A message that comes in has a first line and a rest. `Devices` adds
  the driver to those of `Drivers`, with `state` and `pc` in common.

## 3. Runs

| Run | Question | Bounds | Answer |
|---|---|---|---|
| `fifo` | Is every FIFO call, purge included, atomic when main and a handler both call? | ring of 3, calls of up to 3 bytes: full, empty, wrapped and over-long calls | yes |
| `scheduler` | Does the loop serve what is due, whatever bodies and handlers do? | 3 slots, 2 calls per body, delays including infinity, infinity = 3 so that sums wrap | yes |
| `uart_write` | UART, SPI on the DMA and the OOK transmitter over the locks they share: do all bytes leave, in order, at the right clock, is every lock given back, does every write and transfer end? | FIFO of 2, chunks of 2, calls of up to 3, 8 bytes; 2 pending DMA events; 1 lost lock | yes |
| `uart_early_done` | Is DONE true for a caller that appends? | FIFO of 2, chunks of 2, calls of up to 3 | **no**, finding 1 |
| `uart_read` | Is no byte without a wakeup, no report after cancel? | FIFO of 2, ticks to 3, finite and infinite timeouts | yes |
| `uart_timeout` | Is a timeout a duration? | a finite timeout and infinity | **no**, finding 2 |
| `adc` | Is the core awake during a conversion, the converter released, every request answered? | 3 channels, 1 other holder of the lock, 2 lost decrements | yes |
| `config` | Does a completed save survive, is a mixture never accepted? | 2 words, 2 signatures, 3 saves, 2 faults | yes |
| `radio` | Safety of the link in twelve scenarios | 2 stations, `TX_MAX_COUNT` 2 (6 in the code), 3 peer slots (4), receive queue of 1, publish queue of 2, 1 failing save | yes |
| `radio_live` | Does every exchange end and every message leave its queue, when both stations publish at once and when they restart? | the scenarios `Exchange`, `RestartingNode`, `Losing`, `Moving` | yes |
| `drivers` | Is the device ready when it is talked to, is what is asked for reported and nothing else, is no driver stuck? WiFi: is a success true, does it always settle? | 22 drivers, 2 polls before a deadline, 2 changes of resolution or scale; WiFi: 3 requests, 1 disconnect, 1 message received, 1 lost or late answer, 2 commands of 7 to initialize, 2 polls of an answer (20 and 10) | yes |
| `lora` | Does DONE mean the modem took the message, is a set value kept, is what is asked for done? | 1 item of 2 values, 1 send, 2 sets, 1 join, 1 downlink, 1 lost, late or refused answer | yes |

The scenarios of `RadioLinkMC` are pairing, a two-way exchange with listening
after the acknowledgement, attaching and detaching, automatic pairing, listening
windows with a withdrawn message, messages that are for nobody or for a
subscription the station lacks, a gateway and a node that restart in the middle
of an exchange, a gateway whose table shrinks while its power fails and a save is refused,
a node that changes its gateway under the same faults, one that pairs with a gateway
which does not know its own identity yet, and one whose names are too long to pair.

Why the bounds are enough. In `Fifo` a ring of 3 has every relation of head, tail and
end of the array, and `FifoSafe` covers all sizes for what it proves. Three slots
let the bound of the pool move up and down by more than one and let a body free
a slot below, at and above itself. Two transmissions are the least for which
a repeated message and a repeated acknowledgement overlap with each other and
with the acknowledgements to the peer; more copies repeat the same states with a larger
count. One place in the receive queue makes it full at the first message the
task has not fetched. Three peer slots hold two peers (the last is never given
away), enough to move the last entry into the place of a removed one. Two faults
in `Config` cover every pair of failure and failure, such as a torn save followed
by a torn repair. Three ADC channels are the least in which one waits behind two
that take turns; the proofs cover any number. In `Lora` two sets of one item are the
least for which the second can meet the save of the first; one fault is enough to
bring an answer into the dialogue of another command, and every later one starts from
the same states. Two polls of a device separate the first, a repeated and the last
before a deadline. One DMA write that preempts another leaves every wrong content there is, up to the
stale bytes, of which one DONE may come back (a second one finds the SPI as the first
did). For the WiFi modem two polls are also the least with which a
connection succeeds, and three requests let a second one follow a failed one and a new
connection follow a lost one; the commands of the initialization differ only in that
the first ends the echo.

What the less obvious properties say:

* `AtomicQueue` is refinement: under a mapping that shows the transfer in progress as
  not yet begun, each behaviour of `Fifo` is one of `BoundedQueue`.
* `SpinServesAll` and `Served` (of `Scheduler`) differ: the first is about one spin
  (what was due when it began is served in it), the second about all of time (no
  due task starves, even if planned just before the processor sleeps).
* `WakeupKept` is why the read task plans its timeout before it looks at the FIFO.
* `ClockFollows` counts the holders from the states of UART, SPI and OOK and demands
  that PLL, HSI16, sleep and deep-sleep counts agree: who takes a lock twice or
  gives it back on the wrong path is found out. It makes no claim after a DONE that the channel
  had not sent, on which the SPI gives the PLL back early or twice. `TransferEnds` makes
  none after a DONE that was lost. `FramesClocked` looks at the same
  from the wire: a frame is never on a wire whose clock has stopped or changed.
* `AwakeWhileBusy` holds though `++` and `--` are not atomic: the handler can make a
  decrement get lost, never an increment, so the lock is too high or right.
* `NeverMixed` holds because the hash is read from the same majority as the data.
* `OwnMessage`, `AiredBound` and `LayersAgree` hold across the acknowledgements a waiting
  station sends, which borrow its transmit buffer and its counter.
* `DoneMeansHeard` and `SubscriptionsTaken` are why the message number is compared: each
  acknowledgement is sent twice and the second copy may meet the next exchange.
* `AtMostOnceInOrder` is between two starts of the station that takes the messages: the
  message numbers it knows are not saved. The sender may restart in between.
* `PeersKept` says that the table in the EEPROM loads as the peers the station has now,
  or a save is outstanding: whoever changes the table asks for a save, and a save
  that stops half-way is repeated. A peer 0 is saved but never loaded; it can only
  be the first peer, and it is the only one lost.
* `WorkPlanned` has the two early ends of the radio task as its exception (`left`): names
  that do not fit in a packet (line 352) and a message for a subscription the station does
  not have (435). After these, work waits until something else plans the task.
* `Answered` (of `Drivers`) does not speak of `sps30`, nor of an `lp8` while it calibrates:
  both go on for as long as the device says so.
* `DeviceReady` is about requests in the middle of a delay. Nine states break it as the
  code is written and are named in `Hasty`: their `measure` plans the task now.
* `DoneMeansAccepted`, `ValueKept` and `Served` (of `Lora`) hold with the exceptions their
  comments name; each exception is a behaviour of the code (section 4).
* `SuccessIsTrue` and `Settling` (of `Esp8266`) are about each request at each moment: the
  first excludes an answer left over or late, the second the two loops of section 4.

### Deadlock

Deadlock is checked except where the system may stop: the UART writer and the
radio stations when their bounded work is done, `Config` when saves and faults
are used up, `Lora` when its bounds are, and a driver nobody asks for anything.

### Fairness

* `Scheduler`: the processor keeps executing, task bodies return (they have no way to
  block), and the RTC interrupt keeps ticking.
* `UartWrite`: main, handler and peripheral each go on. The line is never
  stopped: the SDK uses no flow control.
* `PllUsers`: the same; a call goes on, and a planned task is visited whatever the
  application calls in between (strong fairness of the tasks, which a call of the
  application interrupts again and again). No fairness on the application or
  the OOK timer.
* `UartRead`: calls return and the scheduler goes on spinning and visiting its slots.
  Nothing is assumed of arriving bytes.
* `Adc`: a conversion ends; the interrupt is taken (strong, because the bound on
  lost decrements takes it back now and then); the main program goes on, comes back to the
  task and returns from its handler however often it calls meanwhile (strong).
* `RadioLink`: both tasks are visited (what `Served` shows of the scheduler), time
  passes, and a transmission ends. The last is an assumption about the
  transceiver: the code has no timeout in its TX state (`twr_spirit1.c:334-364`).
  The serial number is read in the end: the task asks for it until the chip answers.
  No packet is assumed to be heard, ever, and no fairness is put on the
  application or on the closing of a window.
* `Drivers`: time passes, what is due is run, tasks and handlers end. No request,
  interrupt or change of a setting is assumed to happen.
* `Lora`, `Esp8266`: the task and its handlers go on, the UART reports received data, and the modem
  answers or one of the bounded faults takes the answer. A downlink need not come.

## 4. Findings

1. `twr_uart.c:435`: an append to a write in progress can be reported
   `ASYNC_WRITE_DONE` before its bytes have left (`uart_early_done`).
2. `twr_uart.c:460`: the first timeout of a read is used as an absolute tick
   (`uart_timeout`). The same property fails for an infinite timeout after the first
   event: `tick_spin + 2^64-1` wraps (`twr_uart.c:588` with `twr_scheduler.c:138`) and
   the read times out at every spin.

One more contradiction has no run, for there is nothing to check in it: `twr_config_save`
returns true whatever becomes of the writes (`twr_config.c:114`), where `twr_config.h:30`
says "return false When there is a write error". `Durable` and `SaveRepairs` speak of saves
without a refused write, which the caller cannot tell from others.

Behaviours seen while modelling which contradict no statement in the repository;
those that can do harm are listed as hazards:

* Radio: an exchange may end with neither `TX_DONE` nor `TX_ERROR` (`twr_radio.c:687` and
  694-709); a message is acknowledged though the receive queue had no room (885); a
  copy is not acknowledged again (863), which a restarted sender meets when its
  first number is the last the peer heard; a subscription message out of range
  leaves later messages waiting for the next plan of the task (435), and so does a
  pairing request with names too long for a packet, which is forgotten (352). A node that pairs with a
  gateway before that has read its serial number (813) gets the gateway 0, which it
  saves and which its next start leaves out (963). While a save of the
  peer table is outstanding, a power failure in the second copy of an entry drops
  it, and one in the length byte may bring a removed peer back.
* Clocks: the OOK handler gives the PLL back without a mask. Between the load and the
  store of a call of main its decrement is lost (the PLL stays on), or, when main had loaded
  a count for enabling, the PLL is switched off under it (`raced`).
* SPI: an asynchronous transfer without an event handler never gives the PLL back; a
  DONE that finds the DMA's FIFO full, or whose write is preempted by the handler of
  another channel, leaves the SPI not ready for good; a preempted write can also bring
  back an old DONE, which ends a transfer early.
* ADC: an overwritten decrement leaves the sleep lock too high for good.
* Drivers: `module_rs485` keeps its measurement active after an error and refuses all
  that follow; `sps30` polls without limit, and its states ERROR, INITIALIZE and
  GET_SERIAL_NUMBER follow one another inside the task, with no return to the scheduler, while I2C
  keeps failing; `lp8` repeats a calibration without limit and without an event
  (`twr_lp8.c:460-475`); the `Hasty` states cut a delay short.
* LoRa modem: a value set while the save of the one before awaits its answer loses its
  mark; `send_message` does not purge, so a line of an earlier dialogue may be taken
  for its answer; lines after a received message overwrite the shared buffer when
  the application sends from the handler; a request that meets a reception waits
  until something else happens; a join without a result waits without limit.
* WiFi modem: only the initialization purges, so a line of an earlier dialogue may be
  taken for an answer; SEND_SUCCESS is the modem's agreement to take data, what becomes
  of them is not looked at; an ERROR handler that disconnects is overruled and the task
  initializes a UART that is off, in a loop; so does the wait for the rest of a message that
  was lost, or of one whose first carriage return is its last byte: it is complete before the
  first comparison of line 863, which then never holds (the model's messages have a
  rest). A message of the greatest length never fits the FIFO and ends in ERROR.
* `Config` leaves out one case: if two versions of the firmware both tear a save and three
  different banks remain, the bitwise majority is free to combine a header and
  data that match.

## 5. Proofs

All for every value of the constants that the named assumptions allow.

* **`FifoProofs!FifoSafe`**: `Spec => [](TypeOK /\ InBounds /\ Exclusive)`, for any ring,
  byte set and call length. `InBounds` is not inductive: that a store stays inside
  rests on the index having been wrapped, which rests on nobody else being inside
  the loop (`Exclusive`), which rests on the mask. `Progress` adds how far a
  transfer has come. One lemma per group of steps (write, read, is_empty, purge),
  each split into the conjuncts that can change.
* **`TaskProofs!PoolSafe`**: `Spec => [](TypeOK /\ Reachable /\ Tight)`: the loop bound
  is the highest live slot under any sequence of registrations and removals. The three lemmas
  `PlanStep`, `RegisterStep` and `UnregisterStep` say what a call keeps and serve both
  the bodies and the handlers.
* **`TaskProofs!SpinComplete`**: `Spec => []SpinServesAll`. The strengthening `Ahead`
  says that what is still promised in this spin lies ahead of the loop variable,
  and, by `Reachable`, not beyond the bound: when the variable passes the bound,
  nothing is left.
* **`TaskProofs!ReadSafe`**: `ReadSpec => [](ReadTypeOK /\ WakeupKept /\ PlansOwnTask /\ LockHeld)`,
  and **`NoReportAfterCancel`**: `ReadSpec => ReportsInProgress`, for any FIFO and timeouts.
  Start and cancel change flag, interrupt enable, slot and lock one after the other;
  `Stages` says which of them holds at each place in between, and `Kept` that a wakeup is
  kept from the moment the interrupt is enabled, which is before the read is in progress.
  `LockHeld` says that the PLL is held exactly during a read.
* **`AdcProofs!NeverAsleepInConversion`**: `Spec => []AwakeWhileBusy`, for any number of
  channels, holders and lost decrements. `Balance` is the strengthening: the lock is
  the number of holders, the conversion and the lost decrements, and between a
  load and a store what the store will leave is. **`ConverterReleased`**:
  `Spec => []NeverWedged`, with `InTurn`: release, next start and report come in turn,
  and a conversion does not run while the task that ends one is planned. That the search
  for the next channel finds one of those pending rests on a least distance (`NearestExists`,
  by well-foundedness of the naturals).

* **`FifoProofs!CallsAreAtomic`**: `Spec => AtomicQueue`, the refinement of `BoundedQueue`,
  for every array size. The abstract queue is what lies in the ring between the
  indices, less what an unfinished read has taken or an unfinished write has put
  there. `Transfer` relates a transfer to the call it will turn out to be; `Meaning`
  says what the queue is in terms of the ring, once, and each step of the loops is then
  a stutter, its last step the call. That the index arithmetic turns a part of the
  ring into a sequence is a lemma of its own (`RingIsSequence`).
* **`ConfigProofs!SavedIsDurable`**, **`LoadsNoMixture`**, **`SaveRepairsBanks`**: `Spec => Durable`,
  `Spec => NeverMixed`, `Spec => []SaveRepairs`, for any configuration length and
  any number of saves and faults. `Verified`: while no write has failed, the words
  whose calls have returned are right, bank by bank. `Whole`: after a whole save
  banks 1 and 3 hold its row and the one that may lose words, bank 2, loses words to
  nothing but junk. `HashKnown`: a hash in any bank belongs to a save that was asked
  for, which is why a mixture is refused (the hash is injective, and voted with the data).
* **`PllUsersProofs!LineKeepsOrder`**, **`DoneIsTrue`**, **`ClocksFollowHolders`**,
  **`FramesKeepTheirClock`**: `PSpec => []InOrder`, `[]PatientDoneMeansSent`, `[]ClockFollows`,
  `[]FramesClocked`. One inductive invariant in two parts. For the UART, `Registered`
  (the write task exists from the first write to the end of a transfer) and `Patient`:
  a patient application finds each phase of the channel clean, at rest no interrupt is
  enabled, in a transfer one of the two is until the task is planned. For the clocks,
  `Count`: the count is off its holders by just what the call in progress has yet to
  store, `Source`: the clock is as far as that call has come, and `OneTransfer`, that the
  SPI has one transfer, which is on the channel, in the FIFO or before its task, as
  long as no DONE was lost or came back.
* **`RadioLinkProofs!LayersAlwaysAgree`**, **`RepeatsItsOwn`**, **`AiredIsBounded`**, **`PeersAreKept`**:
  `Spec => []LayersAgree`, `[]OwnMessage`, `[]AiredBound`, `[]PeersKept`, for any
  network, repeat count, table size and scenario. A station's handlers are operators on its record,
  called by each other, so the proof goes operator by operator. `RadioOK` holds
  between and inside handlers, `Agree` where a handler hands over to the transceiver,
  `SpiritOK` between events: what was aired and what is still to be repeated make no more
  than the limit, counted once, while the message is in the cache too.
  `TableOK` is the table and the EEPROM: lemmas say what a start reads from a table written whole
  (`LoadWhole`) and from any other (`LoadTyped`), and that a peer 0 is the first or none.
* **`RadioLinkProofs!DoneIsHeard`**, **`SubscriptionsAreTaken`**:
  `Spec /\ []NoWrap => []DoneMeansHeard`, `[]SubscriptionsTaken`. The strengthening is about the
  frames in transit (`Transit`): a message that waits to be read is its sender's current one
  or an earlier one of the same start (`Recent`); an acknowledgement that is sent or waits
  to be read and that names its addressee's current message names one that was
  taken (`Tells`). `StepOn` says what a handler may do to the numbers, the transmit buffer and
  the cache, operator by operator; who takes a message acknowledges it in the same handler.
  `NoWrap` is the hypothesis that no station has used up its 2^16 - 1 message numbers since
  its latest start. It is needed: with `ID_MODULUS = 2` TLC reports a message as done on the
  strength of an acknowledgement of the one before. Starting anew does not matter, because a
  start outlasts the exchanges it interrupts (guard of `Reboot`).
* **`RadioLinkProofs!TakenOnceInOrder`**:
  `Spec /\ []NoWrap /\ [][Steady]_vars => []AtMostOnceInOrder`. `Notes` relates three places: the
  receiver's history since its start, the number kept in the sender's slot, and the message
  that waits to be read: the number is not behind anything taken, nothing that waits is behind
  the number, and the start of the sender tells apart what is from before it. `Tabled` says
  which slot a handler may write, `SlotStays` that slots do not move while no peer goes.
  `Steady` is the hypothesis that a station loses no peer, nor gives its slot to
  another, except in a start of its own. It is needed too: a slot that is vacated keeps
  its number, and a peer that is attached again takes over whichever number is there.
* **`RadioLinkProofs!WorkIsPlanned`**: `Spec => []WorkPlanned`. Station by station
  `WorkOK` is inductive under every handler: each leaves the work alone, plans the task or
  leaves the radio busy (`Unconcerned`, `Busy`). Only the radio's own task clears the plan, and
  it clears everything there is to do, starts a transmission, or says by `left` that it
  ended early.
* **`LoraProofs!DoneIsAccepted`**, **`ValuesAreKept`**: `Spec => []DoneMeansAccepted`,
  `[]ValueKept`, for any number of items, requests and faults. `Dialogue` is the
  strengthening: in step, there is one command without an answer and no answer in
  the FIFO, or no command, and then each answer in the FIFO is true of the modem. `Marked`
  and `Kept` carry the values: a marked item has in the driver what was set last, of any other
  no older save is on its way.

* **`DevicesProofs!TalksWhenReady`**, **`ActiveIsPlanned`**, **`ReportsOnDemand`**:
  `DSpec => []DeviceReady`, `[]NeverStuck`, `OnDemand`, for every set of drivers of the table
  (`DriverAssumption`) and every bound. What twenty-two drivers have in common is not in
  their machine but in their tables, so the proof has two halves. The first is about a
  row: `RowTyped`, `RowSettles` (where a row may prescribe a delay, and what may be
  done before its end), `RowAsks` (a row goes on by itself only where a request led, and
  gives the flag back with the event that ends it) and `RowAnswers` (an UPDATE
  comes only where a request led). There is one lemma per driver, and `AllRowsFit`
  collects them. The second is an inductive invariant of the machine over *any* table
  of such rows. `DelayKept`, with `WorkAsked` and `PlanOfRequest`, gives `DeviceReady`: a task
  runs or is due in a delay only in an early state. `FlagPlanned` gives `NeverStuck`:
  the properties alone are not inductive, for a handler returns to the middle of a row,
  and what it left to do (`ResumeFits`, `Upcoming`) has to fit as well. `OwedKnown` ties the
  flag, or in drivers without one the state, to a request without an answer. A driver
  added to the table, or a row changed, costs the lemma of its rows and nothing else. The
  exceptions in the properties (`Hasty`, `module_rs485`, `zssc3123`, `lp8`) are those of the code,
  section 4.
* **`DevicesProofs!SuccessfulIsAgreed`**: `DSpec => []SuccessIsTrue`, for every number
  of initialization commands, every timeout and any faults. `Dialogue`: while a dialogue is in step,
  nothing is on its way to the modem but the request the state waits for (and its data), and
  an "ok" in the FIFO means that the modem has agreed to that request. Between the join and its report
  lie four states of the network time, whose own "ok" must not be taken for it: there
  the agreement to join itself is carried along.

The assumptions are those of the modules: positive sizes, `MaxTick < Infinity`, delays and
timeouts that are ticks, `JunkAssumption` (a row that cannot be read is none of the rows),
`IdAssumption` (`NoId`, the erased entry, is no station's id), `CommandAssumption` (the
modem takes one command to initialize at least), `DriverAssumption` (a driver is one of
the table) and `ScenarioAssumption` (a scenario starts with a peer table that fits and
calls the interface has).

What is only model-checked:

* all liveness (`Served`, `EverythingLeaves`, `TransferEnds`, `DataReported`, `ExchangeEnds`,
  `Published`, `Answered`, `AlarmReported`, `Settling`), which is out of the prover's reach;
* what the radio does once message numbers come round or a peer is attached anew between
  two starts: the hypotheses of the three theorems above;
* the two properties that must fail (section 4), which are no theorems.

Every invariant and every action property of a passing run is thus a theorem, three of them
under a named condition on the behaviour (`NoWrap`, `Steady`).

## 6. Plan

What is left, in this order.

1. *UART2*: reception by DMA with a lap of the ring between two polls; deinit during a write.
2. *Radio*: the scan list; an abstract mailbox (each message taken at most once, in
   order) that `RadioLink` implements.
3. *Algorithms*: the queue's byte layout, data stream statistics, RTC calendar, radio
   codecs, base64 and CRC, each against a reference over bounded inputs.

Runs stay few: new modules are composed where they interact, and shallow properties
give way to deeper ones.

## 7. Not modelled

* Vendored and generated code (`stm/`, `sys/`, `lib/`, `fonts/`, `bcl/`, font tables) and the
  examples.
* Rendering, colours and text: graphics, displays, LED effects, the console, the log.
* Ciphers and hashes: bit-level arithmetic with published test vectors, out of
  reach of an explicit-state checker.
* Timing of pulses (1-Wire slots, servo, IR, the bits of OOK): properties of hardware
  timers.
* I2C and 1-Wire: blocking, with one master and nothing beside them.
* GPIO, DAC, PWM, USB CDC, watchdog: register access or state of the
  peripheral and its vendor library.
* Drivers without the machine of `Drivers`: `sam_m8q` (a parser of lines), `cp201t` and
  `cy8cmbr3102` (one transfer per call), `chester_a`; inputs and outputs that sample a
  pin or play a pattern.
* In the modelled parts: UART2's DMA reception, the blocking UART read, deinit during a
  write, the baud rate; the asynchronous EEPROM write (no caller in the SDK); the scan
  list, the mode and signal strength of a peer and the length of radio payloads; the
  blocking ADC read and calibration; the network time, signal strength and text of the WiFi modem; DMA transfer errors, which reset the core; several
  sensors on one `ds18b20` or `soil_sensor` bus, the measured values, the endless measuring of `zssc3123`; the nesting of
  `twr_irq_disable` beyond what one call needs.
