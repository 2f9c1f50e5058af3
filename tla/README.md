# TLA+ models of the drivers of the i.MX6 SABRE ARD BSP (QNX SDP 6.6)

The repository is a board support package: boot code, and a set of independent
driver processes and driver libraries.  There is no test suite; most of what can
go wrong in it is an interleaving of an interrupt handler, a driver thread, a
client's thread and a device.  This directory models the five
drivers that have the most concurrency of their own (Ethernet, CAN, SD/MMC, SPI,
serial), checks them with TLC, and proves their safety properties and one
refinement with TLAPS.

Paths below are relative to `src/src/hardware/` of the repository unless they
start with `src/`.

## 1. Inventory

| Component | State | Operations | Interacts with | Hard behaviour | Correct when |
|---|---|---|---|---|---|
| **devnp-mx6x, transmit** (`devnp/mx6x/transmit.c`, `event.c`, `detect.c`, `mii.c`, `ptp.c`) | descriptor ring (`TXBD_R`, `TXBD_L`, `BD_BDU`), `tx_pidx`, `tx_cidx`, `tx_descr_inuse`, `tx_pkts`, `tx_full`, `tx_reaped`, `if_snd`, `IFF_OACTIVE`, `IFF_RUNNING` | start, output, tx, transmit_complete, isr, process_interrupt, MonitorPhy, stop, init | io-pkt threads, NIC's DMA, interrupt | two threads under one lock, an interrupt and a NIC under none; silicon erratum ERR006358; stop at any time | count and indices agree; a READY descriptor is never overwritten; NIC and driver agree where they are; every frame leaves, every mbuf is freed |
| **devnp-mx6x, receive** (`receive.c`, `event.c`, `detect.c`) | descriptor ring, `rx_cidx`, `rpkt`, `length`, `rx_queue`, `rx_running`, `rx_full`, `rx_mutex`, `IMASK_RFIEN` | isr, rx_thread, receive, process_queue, enable_queue, stop, init | NIC, Rx thread, io-pkt thread | three parties mask and unmask one interrupt; queue at its limit; allocation failure in the middle of a frame | only whole frames go up; no packet and no masked interrupt is forgotten |
| devnp-mx6x, rest (`mii.c`, `bsd_media.c`, `sqi.c`, `ptp.c`, `timer.c`, `devctl.c`, `multicast.c`, `stats.c`, attach/destroy in `detect.c`) | PHY state, time stamp rings, hash filters, counters | callouts, ioctls | io-pkt, PHY | acquisition with numbered error exits; second roll-over of the PTP clock | everything acquired is released |
| **can-mx6x** (`can/mx6x/canmx6x.c`, `driver.c`, `mdriver.c`) | per mailbox `free_queue`, `msg_queue`, `TX_ENABLED`; flag registers | can_intr, can_drvr_transmit, devctl, init, mini-driver handover | libcan (clients), FlexCAN | lock-free test-and-dequeue against the interrupt handler; flags cleared in bulk; overwriting the oldest message | no element lost, messages in order, no mailbox stuck |
| **devb-sdmmc, command engine** (`devb/sdmmc/sdiodi/base.c`, `card.c`, `hc/imx6.c`, `sim_sdmmc.c`) | `hc->wspc.cmd`, `cmd->status`, free list of commands, `HC_FLAG_RST`, interrupt status and enable registers | issue, start, wait, complete, abort, reset, retry; `sdmmc_rw`, `sdmmc_reset` | CAM, host controller thread, uSDHC, card | a time-out against a late completion; a reset that sends commands itself; a command looked up without the lock | one outcome per command, known to its caller; success means executed; every request returns |
| **devb-sdmmc, card detection** (`base.c`, `card.c`, `sim_sdmmc.c`, `arm/mx6_generic.le.v7/bs.c`) | device flags (`PRESENT`, `MEDIA_CHANGE`, `INVALID_CARD`, `RMV_PENDING`), `usage`, the GPIO's edge selection and latch | `sdio_cd`, attach, detach, `_sdio_synchronize` | user, GPIO, three threads | removal and insertion at any point, with commands in progress | no command on a device that is gone or on another card; detection never blocks |
| **devc-sermx1** (`devc/sermx1`) | `tx_xfer_active`, `tx_tmr`, `usedma`, DMA buffers, `tty.flags`, `event_queue` | tto, pulse handlers, ser_intr, dev_cleanup | io-char, SDMA, UART | a time-out against the completion pulse; a flag word shared by three contexts | characters leave once, in order; output does not stall |
| **spi-mx51ecspi** (`spi/mx51ecspi`) | `xlen`, `rlen`, `tlen`, `bxlen`, `brlen`, `btlen`, `lsb_adjust`; FIFOs | xfer, wait, spi_intr | SPI master, ECSPI | burst arithmetic of thread and handler on one buffer; a pulse that outlives its time-out | every byte moved once, inside the buffer |
| spi-master (`spi/master`) | device lock list | lock, unlock, exchange | clients | - (one thread per bus) | only the owner gets through |
| i2c-imx (`i2c/imx`), SDMA library (`src/src/lib/dma/sdma`) | bus state; channel table shared by processes | send, recv, reset; alloc, setup, complete | clients | arbitration loss, time outs; crash of an owner | bus is left idle; channel has one owner |
| deva, wfd, flash, startup, ipl, support, rtc | registers, tables | straight-line set-up | - | none before there is concurrency | - |

The full list of hazards, each with its line and the properties that watch it,
is `hazards` in `PROJECT.json`.

## 2. Modules and how they fit together

| Module | Models | State |
|---|---|---|
| `Mx6qTx`, `Mx6qTxProofs` | Ethernet transmission | checked, safety proved |
| `Mx6qRx`, `Mx6qRxProofs` | Ethernet reception | checked, safety proved |
| `CanMx6x`, `CanMx6xProofs` | CAN driver with the mini-driver's handover | checked, safety proved |
| `SdioCmd`, `SdioCmdProofs` | one request to an SD/MMC card and its commands | checked, safety proved |
| `SdioCard`, `SdioCardProofs` | card detection, attachment, removal | checked, safety and the refinement of `SdioDevice` proved |
| `SdioDevice` | abstract: what the SDIO layer promises to a client | - |
| `Ecspi`, `EcspiProofs` | SPI transfers | checked, safety proved |
| `SerTx`, `SerTxProofs` | serial output | checked, safety proved |

Each component is a module of its own.  The two halves of the Ethernet driver
share only `IFF_RUNNING`, the interrupt handler (whose halves touch disjoint
bits) and `mx6q_stop`.  The two halves of the SD/MMC driver meet in two places:
`SdioCmd` has the three states of a device that `sdio_cd` goes through
(`CdStep`), and shows that every command ends; `SdioCard` has a command as one
step with the three outcomes of `SdioCmd`, and relies on its end.
No module uses a RECURSIVE operator, so that all of them can be proved about.

Next, in this order: models of the serial driver's receive side, of I2C and of
the SDMA library.

## 3. The modules

### Mx6qTx: transmission

Two threads execute driver code: `stack` (io-pkt: output, ioctls, callouts) and
`work` (`mx6q_process_interrupt`).  `pc` says where each is, `loc` holds the
locals of `mx6q_tx`.  A packet is its number of fragments; `MaxFrags + 1` stands
for any chain that has to be defragmented, unaligned ones included.

| Actions | Code |
|---|---|
| `StartEnter`, `StartCheck`, `StartFull` | `mx6q_start`; the step between the reap and `tx_full = TRUE` is where an interrupt may come |
| `TxLoad` (`TxDropped`, `TxHitEnd`, `TxFilled`), `TxReady`, `TxKick` | `mx6q_tx`: fill, set LAST and READY, write `X_DES_ACTIVE` |
| `Output` | `mx6q_output` for tagged packets |
| `TransmitComplete`, `Reapable` | `mx6q_transmit_complete` |
| `Isr`, `LastBdActive`, `ProcessInterrupt` | Tx half of `mx6q_isr`, `mx6q_process_interrupt` |
| `MonitorPhy`, `GetTxTimestamp` | the 2 s callout, the PTP call that reaps |
| `Stop`, `StopMark`, `StopClean`, `Init_` | `mx6q_stop`, `mx6q_init` |
| `Enqueue`, `WorkBegin`, `Nic*` | io-pkt and the NIC (external) |

The NIC is modelled from what the driver relies on: it walks the ring, clears
READY, marks the last descriptor of a frame with `BD_BDU` in a later step, raises
the interrupt, may drop `X_DES_ACTIVE` early (ERR006358), and finishes the frame
it is in when put to sleep.  The test of `X_DES_ACTIVE` and the write to it in
`mx6q_tx` are one step (the NIC's poll-and-drop does not fall between them;
the four-fold retry in the code is for that race on another chip).
`mx6q_transmit_complete` is one step: under the lock only the NIC can interfere,
and all it does is complete more descriptors.

### Mx6qRx: reception

Actors: interrupt, Rx thread (`rpc`), io-pkt thread (`qpc`), NIC.  A frame is a
sequence of fragments of one unit; the NIC reports the buffer's length in every
descriptor but the last, which carries the frame's.  `RecvFrag`/`RecvLast`/
`RecvError`/`RecvEmpty` are the four outcomes of one turn of `mx6q_receive`'s
loop, `RecvInput` and `RecvQueue` the two ways up, `RecvRestart` and `RxUnmask`
its end.  An allocation may fail on any buffer of a frame (`RecvError`).
`rx_mutex` is a variable because `mx6q_process_queue` keeps it locked
for `mx6q_enable_queue`.  Two history variables: `cut` counts the buffers of the
frame at hand that were given up for want of an mbuf, `orphan` notes that
`mx6q_enable_queue` has met `rx_full` on a stopped interface.

### CanMx6x: the CAN driver

Actors: `can_intr` (`ipc`, one label per access to shared state), the resource
manager's thread (`tpc`: `can_drvr_transmit`, reads, the mini-driver handover),
the controller.  There may be any number of mailboxes each way: `driver.c:162-165`
gives the default mode many, raw mode uses one.  Messages are numbered so that
order can be stated; `written`, `sent`, `arrived`, `taken` and `unserved` are
history variables.  `unserved` is the set of mailboxes whose flag `can_intr` has
cleared without serving them: because it clears the flags of all mailboxes it has
seen and serves one (lines 333, 352), or because the flag was raised after it had
served the mailbox and before it cleared the flags (333, 393).  `canmsg_*` calls are
libcan's, atomic by their spin lock; whether a client waits
(`wait_client_queue`) is libcan's state and a free choice here.
`FrameOutlastsIsr` states the one timing assumption: no frame is started and
completed within one turn of the handler's loop (47 bit times at 1 Mbit/s
against a few register accesses).  Only `TxInProgress` needs it.

### SdioCmd: the command engine of devb-sdmmc

Actors: the driver thread (`dpc`; `fr` is its stack of commands, because the
reset after a time-out sends commands from within `_sdio_send_cmd`), the host
controller thread (`hpc`), the controller and card, the user.

| Actions | Code |
|---|---|
| `Request`, `ReturnRw`, `ReturnReset`, `MarkReadOnly` | `sdmmc_driver_thread`, `sdmmc_rw`, `sdmmc_reset` |
| `Begin`, `FreeCmd` | `sdio_alloc_cmd`, `sdio_send_cmd` with `_sdio_synchronize`, `sdio_free_cmd` |
| `Issue`, `Start`, `Wait`, `Abort`, `Done` | `sdio_issue_cmd`, `imx6_sdhcx_cmd`, `sdio_wait_cmd`, `_sdio_send_cmd` |
| `PowerCycle`, `ReturnInit` | `_sdio_reset`; one command stands for those of `mmc_init_device` |
| `BusReset` | `sd_bus_error` when a data command has failed on an SD card: `sdio_bus_error`, a reset with its retries |
| `HcRead`, `HcLookup`, `HcCmplt` | `imx6_sdhcx_intr_event`, `sdio_cmd_cmplt` |
| `CdStep` | the flags that `sdio_cd` changes |
| `Hw*`, `CardRemoved` | controller, card, user (external) |

What the card answers about its state is a free choice.  An error status of a
command is "err" for all of the codes; without a card it is "removed", for CRC
errors too, where the code tells only time-outs apart.  A time-out may come at
any moment: it is the handler that may be slow.  `ReturnRw` goes its own way for
a data command that is done but whose response has error bits
(`sim_sdmmc.c:1493-1515`).  CMD55 is left out: `sd_app_cmd` sends and frees it
before the application command is issued (`base.c:1139`), so that two command
structures at the most are in use.  `late` and `stray` are history variables:
`late` says that the host controller thread holds the status of a command that
the driver thread has given up; `stray` is set where the thread completes, with
such a status, the command that is in progress or whose transfer is still
running - and nowhere else.  Giving up a command does not set it.

### SdioCard and SdioDevice: card detection

Actors: the card-detect thread (`cpc`, with a label for each place of `sdio_cd`
where the others may change what it reads), the driver thread of the attached
device, the host controller thread (`HcEvent`), and the user who inserts and
pulls out cards at any moment.  Cards are numbered; `Bad` ones cannot be
identified.  The GPIO is modelled as the code uses it: one selected edge, a latch
that `imx6_gpio_cd` clears only when it finds a card in, an interrupt that is
masked when it is delivered.  A non-atomic update of the flags is a load
(`CdLoad`) and a store (`CdStore`).  One time-out is assumed to be long:
`CmdTimeout` waits until the host controller thread has read its event.

`SdioDevice` is the promise: a command begins only on a device that is attached
and not being removed, and the device is given back only when no command is in
progress.  `KeepsPromise` is `SdioDevice!Spec` under the mapping of `device` and
`RMV_PENDING` to the device's state and of the driver thread's position, not
the use count, to `busy`.

### Ecspi: SPI transfers

Actors: the thread in `mx51_xfer`, `spi_intr`, the controller.  All the byte
counters of the driver are variables, sent and received data share one buffer as
in the code, and each byte has its identity, so that a misplaced, lost or
doubled one shows.  The buffer is modelled with the bytes next to it.  The order
of bytes within a unit is left out (it is undone on the way back).  A unit of
17 to 24 bits takes four places of the buffer and three bytes on the bus
(`Skipped`, `mxecspi.c:800`).

The start of a burst (`mxecspi.c:664-826`) is one step, `StartBurst`, as long as
no interrupt can come into it: the handler has switched its interrupts off before
it sends the pulse that ends the wait.  A pulse left over from a transfer that
timed out ends a wait while they are on (`Overtaken`).  The start is then four
steps, `BeginBurst`, `SizeBurst` (up to `bxlen`, 675), `CutBurst` (the cut first
word, from 678) and `FillBurst` (741-764), with `spi_intr` free to run between
any two of them.

`WaitTimeout` needs that everything has come to rest: the time-out is 50 times
the length of the transfer.

### SerTx: serial output

Actors: `tto` in io-char's thread, the pulse handler's thread, the interrupt
handler, SDMA, UART and receiver.  `smp` chooses between one processor, where
the pulse handler preempts `tto` and is not interrupted by it (`pulse.c` gives it
the higher priority), and several.  Calls of `tto` for one device do not overlap.
`ms_interrupt` is two steps, `MsRead` (RTSS, `intr.c:142`) and `MsClear` (RTSD,
143), between which the receiver may change the line.  `TxInterrupt` runs when
there is room in the FIFO (TRDY, `intr.c:233`), whichever interrupt has called
the handler.
`FastLine` excludes lines so slow (2400 baud or less) that a transfer of 512
characters takes longer than the timer.

## 4. Runs

| Run | Bounds | Shows |
|---|---|---|
| `tx_ring` | 4 descriptors, 2 per packet at most, packets of 1 or 3 fragments (3 = to be defragmented into 0, 1 or 2), one packet in `if_snd` | type, `RingCount`, `LockHeld`, `NeverHitsEnd`, `NicInWindow`; `FramesLeave`, `MbufsFreed` under fairness |
| `tx_stop` | as above, single-descriptor packets, one stop and restart, link flaps | the ring invariants across a stop |
| `tx_hitend` | as `tx_stop` with packets of 2 descriptors | **violation** of `NeverHitsEnd` |
| `tx_resume` | 3 descriptors | **violation** of `TxResumes` |
| `rx` | 3 descriptors, `rx_queue` of 2, frames of one and two buffers, errors, allocations that fail on any buffer, one stop, with and without flow control | type, `NoMixedPackets`, `QueueServed`, `MaskedHasOwner`, `MaskedWhileBusy`; `RingEmptied`, `FlowStopLifted` under fairness |
| `can` | two mailboxes each way, two elements per queue, one message from the mini-driver and three from clients and the bus together, frames of any length (`FrameOutlastsIsr = FALSE`) | type, `ElementsConserved`, `TxInOrder`, `TxNotStuck`, `BusInOrder`; `RxServed` under fairness |
| `sdio_cmd` | 2 command structures, 1 retry of a command, 2 of a reset | type, `NoDangling`, `SuccessIsTrue`, `NoTransferAfterReturn`; `RequestReturns` under fairness |
| `sdio_cache` | the same with 1 retry of a reset, eMMC with its cache on | **violation** of `CacheLossGuarded` |
| `sdio_card` | 4 cards in turn, the third cannot be identified | type, `NoForeignCard`; `SlotKnown`, `CdReturns` under fairness; the refinement `KeepsPromise` |
| `ecspi` | lengths 1, 3, 16, 22, units of 1 to 4 bytes, bursts of 16 bytes, FIFOs of 2 words, 2 transfers | type, `StaysInBuffer`, `SuccessIsExchange`; `XferReturns` under fairness |
| `ser` | transfers of 2 characters, FIFO of 2, 3 characters, 1 injected, 1 stop of the line; with and without SMP | type, `OutputInOrder`; `OutputLeaves` under fairness |
| `ser_timeout` | FIFO of 1, no injected character, a fast line | **violation** of `FallbackOnlyIfHung` |

Why these bounds are enough for the cases that matter: four transmit descriptors let a
two-descriptor packet straddle the end of the ring, make the ring full
(`Avail <= MaxFrags`) with two packets in it, and leave room for the NIC to be
anywhere; two queue elements let the CAN handler overwrite the oldest message
while a client holds the other; three messages make a wrong order visible; two
mailboxes each way are enough for flags that are cleared together (that
`can_intr` finds no element at all takes queues of one element); the
SD/MMC driver never has more than two commands allocated (`TypeOK` states it: a
reset does not nest, and CMD55 is freed before the next command is issued), and
the second retry of a reset meets the completion of
the first; four cards are enough for a change of card during each of
removal, identification and the reset of a command; the SPI lengths give bursts with
and without a cut first word, one burst or two, and more words than the FIFO
holds; two SPI transfers let the pulse of the first end the wait of the second;
three characters fill one transfer, start another and leave one behind.
Other instances, checked once, agree (the invariants; for `CanMx6x` all properties):
`SdioCmd` with 3 commands and the cache (6.3 million states), `SdioCard` with 5
cards (0.8 million), `Ecspi` with 8 lengths, FIFOs of 4 words and 3 transfers
(0.3 million), `SerTx` with 4 characters and 2 stops (6.1 million), `CanMx6x` with
queues of one element (85 thousand), `TxInProgress` in raw mode with frames that
outlast a turn of the handler and 4 messages.

Deadlock checking is off where the system may really stop: in `can`, `ecspi`,
`sdio_card` and the `ser` runs because the bounded supply of messages,
transfers, characters or cards runs out; in `sdio_cmd` and `sdio_cache` because a
card that has been pulled out ends the story; in `rx` because of a stall
of the code itself (flow control stops the
Rx thread, the ring is full in the middle of a frame, so no further interrupt
comes; see the hazard at `receive.c:241`).  This is also why `RingEmptied` is
stated without flow control.

### Exceptions that the properties name

Some properties hold except after an event that the code does not guard against.
The event is named in the property, as a history variable of the model where the
state does not show it, and the property fails without the exception.  So each
of them says that the event is the *only* way to the failure.  It does not catch
the event itself: that is documented as a hazard.  Where a text of the repository
promises the opposite, the module states that promise as well (third column); TLC
refutes it on the instance of the run (section 5).

| Exception | In | The event | Refuted promise |
|---|---|---|---|
| `orphan` | `MaskedHasOwner`, `FlowStopLifted` | `mx6q_enable_queue` has met `rx_full` on a stopped interface (`event.c:53-72`) | `EnabledWhenDrained` |
| `cut` | `NoMixedPackets` | buffers at the front of this frame were given up for want of an mbuf (`receive.c:107`, `125`) | `OnlyWholeFrames` |
| `unserved` | `TxNotStuck`, `RxServed` | `can_intr` has cleared the mailbox's flag without serving it (`canmx6x.c:333`, `352`, `393`) | `TxInProgress`, `NewPreserved` |
| `stray` | `SuccessIsTrue`, `NoTransferAfterReturn` | the host controller thread had read the status of a command that then timed out, and has completed with it the command in progress, or the one whose transfer is still running | - |
| device not present | `NoTransferAfterReturn` | `_sdio_send_cmd` does not reset a device that is no longer present (`base.c:1152`) | - |
| `missed` | `SlotKnown`, `NoForeignCard` | an edge of the card-detect pin between `bs.c:108` and `bs.c:113`, or while an older one is latched | - |
| `mclost` | the same | `MEDIA_CHANGE` wiped out in `_sdio_attach` (`base.c:1222`, `1243`) | - |
| `gap` | `NoForeignCard` | a command began between the clearing of `MEDIA_CHANGE` (`base.c:1364`) and the setting of `RMV_PENDING` (`1380`) | - |
| `late` | `SuccessIsExchange`; with bursts `StaysInBuffer`, the ranges in `TypeOK` | a transfer has timed out; its pulse may end a later wait | `WholeWordsLeft` |
| `hung /\ untimed` | `OutputLeaves` | the transfer that hangs is one whose timer the pulse handler of the one before has cleared (`intr.c:40`) | `HangNoticed` |
| `torn` | `OutputLeaves` | the store of `flags \|= LOSES_TX_INTR` (`tto.c:198`) has undone a change of the flags | - |
| `missed` | `OutputLeaves` | `ms_interrupt` has cleared the interrupt of a change of the line that came after it had read the line (`intr.c:142-143`); until the line changes again | - |

### Fairness

Threads inside a driver are scheduled, an asserted and unmasked interrupt is
taken, io-pkt and io-char serve their lists and timers, the NIC goes on working,
a wait with a time-out ends.  Strong fairness is assumed only where a step
competes for a lock: the callout and `mx6q_process_interrupt` for `if_snd_ex`, the
Rx thread for `rx_mutex`; QNX's mutexes serve waiters by priority and then in
order of arrival.  Nothing is asked of clients, users, cards, receivers, nor of
the uSDHC; the ECSPI and the SDMA work until they hang, which they may do at any
time.

One assumption is weaker than it looks on one core.  After a time-out
`spi_intr` returns without disabling its interrupt (`spi/mx51ecspi/intr.c:62`),
and a receive FIFO above its mark keeps it asserted.  `XferReturns` assumes that
`mx51_xfer` goes on all the same, which several cores ensure; on a single core the
level interrupt could starve the thread.

## 5. What disagrees with the comments of the code

1. `tx_hitend`: `mx6q_stop` clears READY only on first descriptors
   (`detect.c:1313-1322`), so that "this should NEVER happen"
   (`transmit.c:176`) does happen after a restart.
2. `tx_resume`: a completion interrupt between `transmit.c:329` and `337` is
   not seen by anyone, and packets stay behind `IFF_OACTIVE`.
3. `sdio_cache`: the write protection "after a reset when eMMC cache is enabled"
   (`sim_sdmmc.c:1166`) is not set for the reset that follows a time-out
   (`base.c:1153`), which loses the cache as well.
4. `ser_timeout`: "If TX timer expires while DMA transfer is active the DMA
   transfer failed to complete" (`tto.c:187`) is not so when the completion comes
   between the two tests, or when the receiver has stopped the line for 2 s; DMA
   is disabled for good in both cases, and in the second the characters of the
   transfer are lost.

Seven more promises are stated in the modules, next to the property that holds with
an exception, and TLC refutes each when it is added to the cfg of the passing run
named (as an INVARIANT; `HangNoticed` as a PROPERTY, for which transfers of 1 character
and a fast line suffice):

| Promise | Run | What the code says, and what happens |
|---|---|---|
| `OnlyWholeFrames` | `rx` | "Half way through a packet, discard it all" (`receive.c:125`): only what came before the failed allocation is discarded, the rest of the frame goes up as a packet of its own |
| `EnabledWhenDrained` | `rx` | the interrupt stays masked "until the queue is drained" (`receive.c:236-237`): a stop while `rx_full` is set makes `mx6q_enable_queue` forget it (`event.c:53-72`), and the interrupt stays masked after the restart |
| `TxInProgress` | `can` | "Indicate transmit is in progress" (`canmx6x.c:410`): when two transmit mailboxes complete together, `can_intr` clears both flags and serves one (352), the other has `TX_ENABLED` set for good |
| `NoneLeft` | `can` | "No more transmit messages, end transmission" (`canmx6x.c:381`): a message queued between the look at the queue (370) and the clearing of `TX_ENABLED` (382) waits for the next write |
| `NewPreserved` | `can` | "A shadow register takes care of preserving new messages" (`canmx6x.c:290-291`): the flag of a message that comes between the reading of the mailbox and the clearing of the flags (333, 393) is cleared with the old one, and the message is read only when another one comes |
| `WholeWordsLeft` | `ecspi` | "The data left here must be align on 32bits word" (`spi/mx51ecspi/intr.c:137`): not when a pulse left over from a transfer that timed out has ended a wait; the handler then runs between `mxecspi.c:675` and 678, and `tlen` passes `xlen` |
| `HangNoticed` | `ser` | the timer is there "to call 'tto' if TX DMA transfer times out" (`tto.c:253`): on several processors the pulse handler of the transfer before may clear it (`intr.c:40`) |

Observations without a formula:

- The mini-driver's messages are not handed over "before we start processing new
  data" (`mdriver.c:155`): the interrupts have been enabled by then.
- `imx6_gpio_cd` does not clear the latched edge when it finds the slot empty
  (`bs.c:129`): the interrupt comes again and again until a card is inserted.
- With PIO a command is completed when its data has been moved
  (`imx6.c:324`), and the transfer-complete interrupt may then complete the next.
- In normal mode an SPI length that is not a number of whole units is exceeded to
  the end of a unit (`spi/mx51ecspi/intr.c:178`; `StaysInBuffer` excludes it).
- `tto` keeps `byte_cnt` in a static variable that all UARTs share (`tto.c:57`),
  and with DMA does not send an injected START or STOP while `OSW_PAGED`
  (`tto.c:239`); `dev_cleanup` gives up the receive DMA as well.

## 6. What is proved

Each `...Proofs` module proves, for every value of the constants that the
module's `ASSUME` admits, that an inductive invariant holds in all reachable
states, and derives the properties of the runs from it.  Further hypotheses are
in the theorem's statement.  Every inductive invariant was first checked by TLC
on the instance of the run.  `theorems` in `PROJECT.json` lists the results.

| Module | Inductive invariant | Theorems | Further hypotheses |
|---|---|---|---|
| `Mx6qTxProofs` | `RingInv`: `TxInv`, and `OneDescriptor` for packets of one descriptor | `TypeOK`, `RingCount`, `LockHeld`, `NeverHitsEnd`, `NicInWindow` | `CleanStops`: the interface is not stopped, or every packet takes one descriptor and the NIC stops within `STOP_TIMEOUT` polls |
| `Mx6qRxProofs` | `RxInv` | `TypeOK`, `QueueServed`, `MaskedWhileBusy`, `MaskedHasOwner`, `NoMixedPackets` | - |
| `CanMx6xProofs` | `CanInv` | `TypeOK`, `ElementsConserved`, `TxInOrder`, `BusInOrder`, `TxNotStuck`, `TxInProgress` | `TxInProgress`: one transmit mailbox, as in raw mode, and frames that outlast a turn of the handler; it is false with two (section 5).  The others, `TxNotStuck` among them: none |
| `SdioCmdProofs` | `CmdInv` | `TypeOK`, `NoDangling`, `SuccessIsTrue`, `NoTransferAfterReturn` | - |
| `SdioCardProofs` | `CardInv` | `TypeOK`, `NoForeignCard`, `KeepsPromise` | - |
| `SerTxProofs` | `SerInv` | `TypeOK`, `OutputInOrder` | - |
| `EcspiProofs` | `Claimed => EcspiInv /\ Reported` | `TypeOK`, `StaysInBuffer`, `SuccessIsExchange` | - |

**Transmission.**  None of the properties is inductive alone.  `TxInv` adds: the NIC
is between `tx_cidx` and `tx_pidx`; a descriptor is READY exactly when it lies
between the NIC and `tx_pidx` - except the first one of a packet that `mx6q_tx`
is still filling (`ReadyExact`, `HalfWritten`); and a thread about to load a
packet has room for all of its descriptors (`RoomToLoad`).  The argument: a reap
takes only descriptors that are not READY, hence none in front of the NIC, so
`tx_cidx` never overtakes it; loading takes only descriptors from `tx_pidx` on, of
which none is READY because all READY ones lie before `tx_pidx`; the lock keeps
the two threads out of each other's half-written packets; and since a packet
takes at most `MaxFrags` of more than `MaxFrags` free descriptors,
`tx_descr_inuse` never reaches `N`, where full and empty would look the same.
The ring arithmetic (`Plus`, `Dist`, windows that grow and shrink) is proved in
lemmas of its own.

A stop gives up the rest of the ring and restarts at `tx_cidx`; the NIC goes on
where it was.  That the two are the same place needs `OneDescriptor`: every READY
descriptor ends a frame, so that the NIC is never inside one (`WholeFrames`);
every descriptor it has fetched is closed, but for the last one as long as its
update is outstanding (`FetchedClosed`), so that the reaping of a stop gets exactly
as far as the NIC; and every descriptor it has yet to fetch carries an mbuf
(`OwedHasMbuf`), so that `mx6q_stop`, which looks for mbufs, clears all READY bits.
For any number of stops and restarts the ring is then empty and the three indices
agree.  Neither hypothesis can go.  With packets of two descriptors the READY bits
of the second ones survive (run `tx_hitend`), and the error path then met releases
`if_snd_ex` under `mx6q_start`, which breaks `LockHeld` too; with a NIC that is still
to update its descriptor, the reaping ends one descriptor short of it (TLC shows
`NicInWindow` violated on the instance of `tx_stop` with `GracefulStop = FALSE`).

**Reception.**  The masking protocol rests on `Control`: between the early return of
`mx6q_receive` (`rx_full`) and `mx6q_enable_queue` the Rx thread waits without
a pulse and the interrupt stays masked, and `mx6q_process_queue` hands
`rx_mutex` on only with an empty queue; the only place where a masked interrupt
loses its owner is the step that sets `orphan`, for any number of stops.
`NoMixedPackets` needs the whole way of a frame: the full descriptors are exactly those from `rx_cidx` up to the NIC's
(`RingShape`); along the ring, across its end and up to the NIC, each fragment is
followed by the next of its frame, the last by a first (`RingOrder`); and what
comes next continues the chain that `mx6q_receive` has in its hands, which begins
after the `cut` buffers that were given up (`ChainShape`, `ChainNext`).

**CAN.**  `OneSender` is the reason why the test of `TX_ENABLED` needs no lock: the
right to start the next message of a mailbox is at one place at the most, with
the message in the mailbox, the flag that reports it as sent, `can_intr`, or
`can_drvr_transmit`, which takes it only when `TX_ENABLED` is off.  Then the
numbers of the messages are consecutive from the last one sent, over the one
under way, to the queue (`TxOrder`), and elements are counted in
`TxElements` and `RxElements`.  On the receive side (`RxOrder`) taken, being read,
queued, in the handler's hands, in the mailbox is an ascending chain from which
overwriting removes the oldest of the queue.  `TxNotStuck` follows each flag from
the moment it is raised: it goes off because the mailbox is served, or the
mailbox is `unserved`.  `TxInProgress` needs that in raw mode none becomes so
(`RawServed`): with one mailbox the flags cleared are those of the one served,
and the second clearing, at the end of `can_intr`, clears none raised since,
because a frame outlasts the turn.

**Command engine.**  `FrameShape` describes the mutual recursion of
`_sdio_send_cmd` and `_sdio_reset` (one frame of the request, one of the reset,
never more); `WorkSpace` says that whatever sets a command's status clears
`hc->wspc.cmd`.  `StatusTrue` ties a status without an error to an execution of the
command, unless a status read too late has been used (`stray`).
`TransferOwned` is the reason why nothing is moved after the return: while data is
being transferred the command it belongs to is in progress, or has timed out
and the driver thread is on its way to the power cycle that ends the transfer, or
the device is gone, or the transfer was completed with the status of another
command.  The abort alone would not do: without the reset the theorem fails at
`Abort`.

**Card detection.**  `DeviceShape` ties the existence of the device, `RMV_PENDING` and
the use count to the places of the two threads; it alone gives the refinement:
under the mapping of section 3 the initial states of `SdioCard` are initial
states of `SdioDevice` and every step is a step of it or leaves it alone.
`NoForeignCard` needs `PinArmed` (with a card in the slot the pin waits for its
removal, an edge is latched, or one has been missed) and `ChangeSeen` (a slot that
does not hold the identified card is known or about to be known; a card that the
reset of a command has initialised in its place has no command in progress but
through the holes).

**Serial output.**  `Transfer` says who may touch `tx_dma.buf` when: while
`tx_xfer_active` is set the buffer is empty, `tto` fills and starts it only when
`tx_xfer_active` was off, which only `tto` sets, and without DMA it is empty
too.  So the queues from the line to io-char form one stream (`Stream`) that every
step leaves as it is, but for three: a write appends a later character, an
injected character goes in before io-char's buffer, and `dev_cleanup` cuts out the
transfer, whose characters are the ones lost (`StreamOK`).  The lemmas on
concatenation (`CatOrder`, `InjectOrdered`, `DropOrdered`) carry the order.

**SPI.**  `Covers(f, lo, hi, n, way)` says that a FIFO holds the bytes after `lo` up to
`hi` of the transfer, `n` in each word, with only the first word cut; `way` is
`out`, `in`, or `in24` for units of which one byte in four is not on the bus
(`Byte` maps a place to what it holds).  It is kept by
appending, reading and shifting (`CoversAppend`, `CoversRest`, `CoversHead`, ...).
As long as nothing has timed out, the transfer is either at rest, with both FIFOs
empty and all that was sent received (`Rest`), or under way (`Work`): the transmit
FIFO covers what is between the bus and `tlen`, the receive FIFO what is between
`rlen` and the bus.
Without bursts the words in the two FIFOs are never more than the FIFO holds,
because the handler sends one word for each that it reads: nothing overflows, and
a time-out means that the controller has hung (`Dead`), after which nothing moves
the counters any more.
With bursts the receive FIFO may overflow.  `Work` therefore only bounds its length
by the words that have come, and `Contents` speaks of the data received only as
long as the two are equal; they never become equal again once a word is lost, and
the end of the burst (`Rest`) needs that they are.  `BurstWork` has the arithmetic
of the cut first word: what is left of the burst is whole words for the
controller, for the handler and for the refill, each from where it is
(`BurstShape`).

The invariant is claimed up to the end of the first transfer that times out with
bursts (`Claimed`): after that a left-over pulse lets the handler overtake the
thread, and the counters mean nothing (`WholeWordsLeft`, section 5).  Without bursts it is
claimed for ever.

Only model-checked:

- liveness and fairness (`FramesLeave`, `MbufsFreed`, `RingEmptied`, `FlowStopLifted`,
  `RxServed`, `RequestReturns`, `SlotKnown`, `CdReturns`, `OutputLeaves`, `XferReturns`),
  which are out of the prover's reach;
- `TxResumes`, `CacheLossGuarded` and `FallbackOnlyIfHung`, which violation runs
  refute, and the promises of the second list of section 5.

## 7. Not modelled, and why

`components` in `PROJECT.json` lists every part.  Within the modelled ones:

- Ethernet: the path of `mx6q_stop` after `STOP_TIMEOUT` is a step of `Mx6qTx`
  (`GracefulStop = FALSE`) that no run takes, because the code promises nothing
  there; time stamps, statistics and packet contents; the extra queues of the
  Solo X build; PHY and media.
- CAN: the error register part of `can_intr`, which only counts; `devctl` calls
  and hardware set-up.
- SD/MMC: programmed I/O, retuning, power management, cache flush, the
  enumeration at start-up, card detection by the uSDHC itself or by polling, the
  identification sequences of `sd.c` and `mmc.c` (long, sequential, and decided by
  the card), the host controllers of other boards.
- Serial: reception, whose restart is decided in io-char; the event queue that
  several UARTs share; `ser_stty`.
- SPI: the DMA variant, chip select by GPIO.

Of the rest, I2C and the SDMA library are candidates for later modules.  The boot
code, flash tables, display tables, header files and utilities, which are most
of the repository's lines, are sequential code around single register accesses,
or no code at all.
