-------------------------------- MODULE SerTx --------------------------------
(***************************************************************************)
(* The output side of the UART driver devc-sermx1: tto (tto.c) for         *)
(* TTO_DATA and TTO_EVENT with DMA and, after a time-out, with programmed  *)
(* output; the handler of the transmit DMA pulse and the interrupt handler *)
(* (intr.c); dev_cleanup (main.c).                                         *)
(*                                                                         *)
(* tto runs in io-char's thread.  The pulse handler has a thread of its    *)
(* own with a higher priority (pulse.c): on one processor it preempts tto  *)
(* and runs to its end, on several the two run in parallel.  The line may  *)
(* change at any time, also within ms_interrupt.                           *)
(***************************************************************************)
EXTENDS Naturals, SequencesExt

CONSTANTS
  XferSize,   \* tx_dma.xfer_size
  FifoSize,   \* entries of the transmit FIFO
  MaxOut,     \* bound: characters that clients write
  MaxInject,  \* bound: flow control characters that io-char injects
  MaxStops,   \* bound: times that the receiver stops the line
  FastLine    \* the line sends 512 characters in less than MAX_TIMEOUT ticks

ASSUME SerTxAssumption ==
  /\ XferSize \in Nat \ {0} /\ FifoSize \in Nat \ {0}
  /\ MaxOut \in Nat /\ MaxInject \in Nat /\ MaxStops \in Nat
  /\ FastLine \in BOOLEAN

VARIABLES
  smp,           \* the threads run on several processors
  nw, ninj, nstop,  \* characters written and injected, stops so far
  obuf,          \* io-char's output buffer
  ovr,           \* OSW_PAGED_OVERRIDE
  buf,           \* tx_dma.buf up to byte_cnt
  dma,           \* what a transfer that has been started has yet to move
  pulse,         \* the transfer's pulse is queued
  usedma, active,   \* dev->usedma, dev->tx_xfer_active
  tmr,           \* tx_tmr is not 0
  evt, paged,    \* EVENT_TTO; OHW_PAGED or OSW_PAGED
  tpc, act,      \* where tto is, its action
  reg,           \* evt and paged as loaded by flags |= LOSES_TX_INTR
  hpc,           \* where the pulse handler is
  fifo, out,     \* the transmit FIFO; what has left
  txmpty,        \* MX1_UCR1_TXMPTYEN
  stopped, rtsd, \* the receiver has stopped the line; USR1_RTSD
  sr1,           \* RTSS as ms_interrupt has read it; "none": it does not run
  hung,          \* the DMA controller has stopped working
  aborted, lost, \* a transfer has been aborted; the characters lost with it
  untimed,       \* the pulse handler has cleared the timer of the transfer
                 \* after the one whose pulse it handles
  torn,          \* the store of flags has undone the end of a stop
  missed         \* ms_interrupt has cleared the RTSD of a change that its
                 \* reading of RTSS does not show

io     == <<nw, ninj, obuf, ovr>>
xfer   == <<buf, dma, pulse>>
mode   == <<usedma, active, tmr>>
flags  == <<evt, paged>>
tto    == <<tpc, act, reg>>
uart   == <<fifo, out, txmpty>>
line   == <<nstop, stopped, rtsd, sr1>>
ghost  == <<hung, aborted, lost, untimed, torn, missed>>
vars   == <<smp, io, xfer, mode, flags, tto, hpc, uart, line, ghost>>

Cntl == 0   \* an injected START or STOP character
-----------------------------------------------------------------------------
(***************************************************************************)
(* io-char: it calls tto for a write, for a flow control character, when   *)
(* tx_tmr runs out, and for EVENT_TTO.                                     *)
(***************************************************************************)
Calls(a) ==
  /\ tpc = "idle" /\ (smp \/ hpc = "idle")
  /\ tpc' = "test" /\ act' = a /\ UNCHANGED reg

Write ==
  /\ nw < MaxOut /\ nw' = nw + 1
  /\ obuf' = Append(obuf, nw')
  /\ Calls("data")
  /\ UNCHANGED <<smp, ninj, ovr, xfer, mode, flags, hpc, uart, line, ghost>>

Inject ==
  /\ ninj < MaxInject /\ ninj' = ninj + 1 /\ ~ovr
  /\ obuf' = <<Cntl>> \o obuf /\ ovr' = TRUE
  /\ Calls("data")
  /\ UNCHANGED <<smp, nw, xfer, mode, flags, hpc, uart, line, ghost>>

(* With a fast line tx_tmr outlasts a transfer that nothing holds up. *)
Timer ==
  /\ tmr /\ tmr' = FALSE
  /\ FastLine /\ usedma /\ active =>
       hung \/ (stopped /\ dma # << >> /\ Len(fifo) = FifoSize)
  /\ Calls("data")
  /\ UNCHANGED <<smp, io, xfer, usedma, active, flags, hpc, uart, line, ghost>>

Event ==
  /\ evt /\ evt' = FALSE
  /\ Calls("event")
  /\ UNCHANGED <<smp, io, xfer, mode, paged, hpc, uart, line, ghost>>
-----------------------------------------------------------------------------
(***************************************************************************)
(* tto.                                                                    *)
(***************************************************************************)
(* A step of tto; on one processor the pulse handler is not interrupted. *)
Step(a, b) ==
  tpc = a /\ tpc' = b /\ (smp \/ hpc = "idle") /\ UNCHANGED <<smp, act>>

Test ==
  /\ Step("test", IF ~usedma THEN "pio" ELSE IF active THEN "timed" ELSE "fill")
  /\ UNCHANGED <<io, xfer, mode, flags, reg, hpc, uart, line, ghost>>

(* Either a transfer is going on, or it is taken to have failed. *)
Timed ==
  /\ Step("timed", IF act = "data" /\ ~tmr THEN "cleanup" ELSE "idle")
  /\ UNCHANGED <<io, xfer, mode, flags, reg, hpc, uart, line, ghost>>

(* dev_cleanup aborts the transfer and drops its pulse; from now on without  *)
(* DMA.  The update of the flags is not atomic: they are loaded here, ...    *)
Cleanup ==
  /\ Step("cleanup", "flags")
  /\ dma' = << >> /\ pulse' = FALSE
  /\ usedma' = FALSE /\ active' = FALSE
  /\ reg' = flags
  /\ aborted' = TRUE /\ lost' = lost \cup ToSet(dma) /\ untimed' = FALSE
  /\ UNCHANGED <<io, buf, tmr, flags, hpc, uart, line, hung, torn, missed>>

(* ... and stored here. *)
SetLosesTxIntr ==
  /\ Step("flags", "pio")
  /\ evt' = reg[1] /\ paged' = reg[2]
  /\ torn' = (torn \/ (reg[2] /\ ~paged))
  /\ reg' = <<FALSE, FALSE>>
  /\ UNCHANGED <<io, xfer, mode, hpc, uart, line, hung, aborted, lost, untimed,
                 missed>>

(* Characters go on: the line is not paged, or for one of flow control. *)
MaySend == ~paged \/ ovr

(* Slip: the transfer buffer's size is not looked at. *)
FillUnbounded ==
  /\ \/ /\ Step("fill", "fill") /\ obuf # << >> /\ MaySend
        /\ buf' = Append(buf, Head(obuf)) /\ obuf' = Tail(obuf)
        /\ ovr' = FALSE
     \/ /\ Step("fill", "start") /\ ~(obuf # << >> /\ MaySend)
        /\ UNCHANGED <<buf, obuf, ovr>>
  /\ UNCHANGED <<nw, ninj, dma, pulse, mode, flags, reg, hpc, uart, line, ghost>>

(***************************************************************************)
(* The loop that fills the transfer buffer: one character (OPOST or an     *)
(* injected one) or as much as there is room for (tto_write_block).        *)
(***************************************************************************)
Fill ==
  /\ LET more == obuf # << >> /\ Len(buf) < XferSize /\ MaySend
         room == XferSize - Len(buf)
         fits == IF Len(obuf) < room THEN Len(obuf) ELSE room
     IN  \/ /\ Step("fill", "fill") /\ more
            /\ \E k \in {1} \cup (IF ovr THEN {} ELSE {fits}) :
                 /\ buf' = buf \o SubSeq(obuf, 1, k)
                 /\ obuf' = SubSeq(obuf, k + 1, Len(obuf))
            /\ ovr' = FALSE
         \/ /\ Step("fill", "start") /\ ~more
            /\ UNCHANGED <<buf, obuf, ovr>>
  /\ UNCHANGED <<nw, ninj, dma, pulse, mode, flags, reg, hpc, uart, line, ghost>>

(* Slip: the timer is not set. *)
StartNoTimer ==
  /\ \/ Step("start", "go") /\ buf # << >> /\ ~paged /\ UNCHANGED tmr
     \/ Step("start", "idle") /\ ~(buf # << >> /\ ~paged) /\ UNCHANGED tmr
  /\ UNCHANGED <<io, xfer, usedma, active, flags, reg, hpc, uart, line, ghost>>

Start ==
  /\ \/ Step("start", "go") /\ buf # << >> /\ ~paged /\ tmr' = TRUE
     \/ Step("start", "idle") /\ ~(buf # << >> /\ ~paged) /\ UNCHANGED tmr
  /\ UNCHANGED <<io, xfer, usedma, active, flags, reg, hpc, uart, line, ghost>>

(* Slip: byte_cnt is not reset. *)
GoKeepsCount ==
  /\ Step("go", "idle")
  /\ active' = TRUE /\ dma' = buf
  /\ UNCHANGED <<io, buf, pulse, usedma, tmr, flags, reg, hpc, uart, line, ghost>>

Go ==
  /\ Step("go", "idle")
  /\ active' = TRUE /\ dma' = buf /\ buf' = << >>
  /\ UNCHANGED <<io, pulse, usedma, tmr, flags, reg, hpc, uart, line, ghost>>

(* Without DMA: the loop that fills the FIFO, and what follows it. *)
Pio ==
  /\ obuf # << >> /\ Len(fifo) < FifoSize /\ MaySend
  /\ Step("pio", IF ovr THEN "pioend" ELSE "pio")
  /\ fifo' = Append(fifo, Head(obuf)) /\ obuf' = Tail(obuf)
  /\ tmr' = TRUE /\ ovr' = FALSE
  /\ UNCHANGED <<nw, ninj, xfer, usedma, active, flags, reg, hpc, out, txmpty,
                 line, ghost>>

PioEnd ==
  /\ \/ Step("pioend", "idle")
     \/ Step("pio", "idle") /\ ~(obuf # << >> /\ Len(fifo) < FifoSize /\ MaySend)
  /\ txmpty' = (txmpty \/ (~paged /\ obuf # << >>))
  /\ UNCHANGED <<io, xfer, mode, flags, reg, hpc, fifo, out, line, ghost>>

Tto ==
  \/ Test \/ Timed \/ Cleanup \/ SetLosesTxIntr \/ Fill \/ Start \/ Go
  \/ Pio \/ PioEnd
-----------------------------------------------------------------------------
(***************************************************************************)
(* mx53_tx_pulse_hdlr, in three steps.                                     *)
(***************************************************************************)
HdlrActive ==
  /\ hpc = "idle" /\ pulse
  /\ hpc' = "timer" /\ pulse' = FALSE /\ active' = FALSE /\ untimed' = FALSE
  /\ UNCHANGED <<smp, io, buf, dma, usedma, tmr, flags, tto, uart, line, hung,
                 aborted, lost, torn, missed>>

HdlrTimer ==
  /\ hpc = "timer" /\ hpc' = "event"
  /\ tmr' = FALSE /\ untimed' = (untimed \/ (tmr /\ (tpc = "go" \/ active)))
  /\ UNCHANGED <<smp, io, xfer, usedma, active, flags, tto, uart, line, hung,
                 aborted, lost, torn, missed>>

HdlrEvent ==
  /\ hpc = "event" /\ hpc' = "idle"
  /\ evt' = TRUE
  /\ UNCHANGED <<smp, io, xfer, mode, paged, tto, uart, line, ghost>>

Hdlr == HdlrActive \/ HdlrTimer \/ HdlrEvent
-----------------------------------------------------------------------------
(***************************************************************************)
(* do_interrupt, whatever it was called for: tx_interrupt, when there is   *)
(* room in the FIFO (TRDY), then ms_interrupt, which reads the state of    *)
(* the line, and after that clears RTSD; io-char's tti pages the output    *)
(* and, when it may go on, asks for tto.                                   *)
(***************************************************************************)
TxInterrupt ==
  /\ sr1 = "none" /\ ~usedma /\ txmpty /\ Len(fifo) < FifoSize
  /\ txmpty' = FALSE /\ tmr' = FALSE /\ evt' = TRUE
  /\ UNCHANGED <<smp, io, xfer, usedma, active, paged, tto, hpc, fifo, out,
                 line, ghost>>

MsRead ==
  /\ sr1 = "none" /\ rtsd
  /\ sr1' = IF stopped THEN "stop" ELSE "cont"
  /\ UNCHANGED <<smp, io, xfer, mode, flags, tto, hpc, uart, nstop, stopped,
                 rtsd, ghost>>

MsClear ==
  /\ sr1 # "none" /\ sr1' = "none"
  /\ rtsd' = FALSE
  /\ paged' = (sr1 = "stop")
  /\ evt' = (evt \/ sr1 = "cont")
  /\ missed' = (stopped # paged') /\ torn' = FALSE
  /\ UNCHANGED <<smp, io, xfer, mode, tto, hpc, uart, nstop, stopped, hung,
                 aborted, lost, untimed>>

Isr == TxInterrupt \/ MsRead \/ MsClear
-----------------------------------------------------------------------------
(***************************************************************************)
(* The SDMA, which may stop working for good; the UART; the receiver.      *)
(***************************************************************************)
DmaMove ==
  /\ dma # << >> /\ ~hung /\ Len(fifo) < FifoSize
  /\ fifo' = Append(fifo, Head(dma)) /\ dma' = Tail(dma)
  /\ pulse' = (Len(dma) = 1)
  /\ UNCHANGED <<smp, io, buf, mode, flags, tto, hpc, out, txmpty, line, ghost>>

DmaHang ==
  /\ dma # << >> /\ ~hung /\ hung' = TRUE
  /\ UNCHANGED <<smp, io, xfer, mode, flags, tto, hpc, uart, line, aborted, lost,
                 untimed, torn, missed>>

Shift ==
  /\ fifo # << >> /\ ~stopped
  /\ out' = Append(out, Head(fifo)) /\ fifo' = Tail(fifo)
  /\ UNCHANGED <<smp, io, xfer, mode, flags, tto, hpc, txmpty, line, ghost>>

Receiver ==
  /\ \/ ~stopped /\ nstop < MaxStops /\ nstop' = nstop + 1
     \/ stopped /\ UNCHANGED nstop
  /\ stopped' = ~stopped /\ rtsd' = TRUE
  /\ UNCHANGED <<smp, io, xfer, mode, flags, tto, hpc, uart, sr1, ghost>>
-----------------------------------------------------------------------------
(* create_device, with or without DMA. *)
Init ==
  /\ smp \in BOOLEAN /\ usedma \in BOOLEAN
  /\ nw = 0 /\ ninj = 0 /\ nstop = 0 /\ obuf = << >> /\ ovr = FALSE
  /\ buf = << >> /\ dma = << >> /\ pulse = FALSE
  /\ active = FALSE /\ tmr = FALSE /\ evt = FALSE /\ paged = FALSE
  /\ tpc = "idle" /\ act = "data" /\ reg = <<FALSE, FALSE>> /\ hpc = "idle"
  /\ fifo = << >> /\ out = << >> /\ txmpty = FALSE
  /\ stopped = FALSE /\ rtsd = FALSE /\ sr1 = "none"
  /\ hung = FALSE /\ aborted = FALSE /\ lost = {}
  /\ untimed = FALSE /\ torn = FALSE /\ missed = FALSE

Next ==
  \/ Write \/ Inject \/ Timer \/ Event \/ Tto \/ Hdlr \/ Isr
  \/ DmaMove \/ DmaHang \/ Shift \/ Receiver

Spec == Init /\ [][Next]_vars

(* An interrupt that must come: RTSD, or TXMPTYEN with an empty FIFO. *)
IsrDue == MsRead \/ MsClear \/ (fifo = << >> /\ TxInterrupt)

(* The threads, the interrupts, the timer and the UART run, and the SDMA   *)
(* unless it hangs.  Nothing is asked of the clients and of the receiver.  *)
FairSpec ==
  /\ Spec /\ WF_vars(Timer) /\ WF_vars(Event) /\ WF_vars(Tto) /\ WF_vars(Hdlr)
  /\ WF_vars(IsrDue) /\ WF_vars(DmaMove) /\ WF_vars(Shift)
-----------------------------------------------------------------------------
Chars == Cntl .. MaxOut

(* Every variable keeps its type; the buffers their size. *)
TypeOK ==
  /\ smp \in BOOLEAN
  /\ nw \in 0 .. MaxOut /\ ninj \in 0 .. MaxInject /\ nstop \in 0 .. MaxStops
  /\ obuf \in Seq(Chars) /\ ovr \in BOOLEAN
  /\ buf \in Seq(Chars) /\ Len(buf) <= XferSize
  /\ dma \in Seq(Chars) /\ Len(dma) <= XferSize /\ pulse \in BOOLEAN
  /\ usedma \in BOOLEAN /\ active \in BOOLEAN /\ tmr \in BOOLEAN
  /\ evt \in BOOLEAN /\ paged \in BOOLEAN
  /\ tpc \in {"idle", "test", "timed", "cleanup", "flags", "fill", "start",
             "go", "pio", "pioend"}
  /\ act \in {"data", "event"} /\ reg \in BOOLEAN \X BOOLEAN
  /\ hpc \in {"idle", "timer", "event"}
  /\ fifo \in Seq(Chars) /\ Len(fifo) <= FifoSize
  /\ out \in Seq(Chars) /\ txmpty \in BOOLEAN
  /\ stopped \in BOOLEAN /\ rtsd \in BOOLEAN /\ sr1 \in {"none", "stop", "cont"}
  /\ hung \in BOOLEAN /\ aborted \in BOOLEAN /\ untimed \in BOOLEAN
  /\ torn \in BOOLEAN /\ missed \in BOOLEAN
  /\ lost \subseteq Chars

(* All characters since the start, the one that left first at the front. *)
Stream == out \o fifo \o dma \o buf \o obuf

(***************************************************************************)
(* The characters that clients write leave in their order, each of them    *)
(* once; only those that a time-out finds in the transfer are lost.  For   *)
(* that tto fills tx_dma.buf only while no transfer is reading it, and     *)
(* with programmed output goes on exactly where DMA has left off.          *)
(***************************************************************************)
OutputInOrder ==
  /\ dma # << >> => buf = << >>
  /\ \A i, j \in DOMAIN Stream :
       i < j /\ Stream[i] # Cntl /\ Stream[j] # Cntl => Stream[i] < Stream[j]
  /\ ToSet(Stream) \ {Cntl} = (1 .. nw) \ lost

(***************************************************************************)
(* When the receiver lets it, all output leaves, although the SDMA may     *)
(* hang: the time-out then turns to programmed output.  Three exceptions,  *)
(* each for as long as nothing has made up for it: a transfer hangs whose  *)
(* timer the pulse handler of the one before has cleared; the store of the *)
(* flags in tto has undone the end of a stop; ms_interrupt has cleared the *)
(* RTSD of a release that came after it had read RTSS.                     *)
(***************************************************************************)
OutputLeaves ==
  <>[]~stopped =>
    <>[](\/ obuf \o buf \o dma \o fifo = << >>
         \/ hung /\ untimed
         \/ torn
         \/ missed)

(***************************************************************************)
(* The comment in tto: the timer is set up to call tto if the transfer     *)
(* times out.  A transfer that hangs is given up at some time.             *)
(***************************************************************************)
HangNoticed == hung /\ dma # << >> ~> dma = << >>

(***************************************************************************)
(* The comment in tto: if the timer runs out while a transfer is active,   *)
(* the transfer has failed to complete.  DMA is given up only if the SDMA  *)
(* has stopped working.                                                    *)
(***************************************************************************)
FallbackOnlyIfHung == aborted => hung
=============================================================================
