------------------------------- MODULE Ecspi -------------------------------
(***************************************************************************)
(* The i.MX SPI driver spi-mx51ecspi: a transfer (mx51_xfer of mxecspi.c,  *)
(* mx51_wait of wait.c) by the thread of the interface, its interrupt      *)
(* handler (spi_intr of intr.c) and the controller with its two FIFOs.     *)
(*                                                                         *)
(* Sent and received data share one buffer.  A byte of the buffer is p + 1 *)
(* as the client gave it, p being its place, and -j if it is the j-th byte *)
(* that came from the slave in this transfer.  The order of the bytes      *)
(* within a unit is left out: it is undone on the way back.  A 24-bit unit *)
(* takes four bytes of the buffer, of which the top one, shown first, is   *)
(* not sent.  The handler may run on another core than the thread.         *)
(***************************************************************************)
EXTENDS Integers, SequencesExt

CONSTANTS
  Lens,       \* the lengths that clients ask for, in bytes
  DLens,      \* the unit lengths in bytes (dlen), of the configured devices
  BurstMax,   \* MX51_CSPI_BURST_MAX, in bytes
  FifoSize,   \* MX51_CSPI_FIFO_SIZE, in words
  MaxXfers,   \* bound: how many transfers
  MaxPulses   \* bound: pulses beyond this number are not counted

ASSUME EcspiAssumption ==
  /\ Lens \subseteq Nat \ {0} /\ (\E m \in Lens : \A x \in Lens : x <= m)
  /\ DLens \subseteq 1 .. 4
  /\ FifoSize \in Nat \ {0} /\ FifoSize % 2 = 0
  /\ BurstMax \in Nat \ {0} /\ BurstMax % 4 = 0
  /\ MaxXfers \in Nat /\ MaxPulses \in Nat \ {0}

VARIABLES
  tpc,           \* where the thread is
  burst,         \* the option "burst"
  nx,            \* transfers so far
  xlen, dlen,    \* length of the transfer, of a unit
  rlen, tlen,    \* bytes received and sent
  bxlen, brlen, btlen,  \* bytes of the burst: in all, received, sent
  adj,           \* lsb_adjust: bytes in the first word of the burst
  result,        \* *len on return
  pulses,        \* MX51_CSPI_EVENT pulses in the channel
  ipc, count,    \* where the handler is, its count of words to read
  inten,         \* INTREG
  txf, rxf,      \* the FIFOs, of words of four bytes
  tc,            \* STATREG: transfer complete
  xch, bcnt,     \* CONTROLREG: exchange, burst length in bytes
  left,          \* bytes left of the burst on the bus
  hung,          \* the controller has stopped working
  buf,           \* the buffer and the bytes next to it
  bus,           \* the bytes the slave has got in this transfer, by their
                 \* places in the buffer; 0 for one that is not sent
  late           \* an earlier transfer has timed out

thread  == <<tpc, burst, nx, result>>
lengths == <<xlen, dlen, bxlen>>
handler == <<ipc, count>>
ctrl    == <<inten, tc, xch, bcnt, left, hung>>
vars    == <<thread, lengths, rlen, tlen, brlen, btlen, adj, pulses, handler,
             ctrl, txf, rxf, buf, bus, late>>

RxMark == FifoSize \div 2

MaxLen == Max(Lens)
Mem    == -1 .. MaxLen + 3

Least(a, b)   == IF a < b THEN a ELSE b
CeilDiv(a, b) == IF a <= 0 THEN 0 ELSE (a + b - 1) \div b

(* The word whose last n bytes are those of b from place p on; 0 stands for *)
(* the bytes that are far from the buffer.                                  *)
Word(b, p, n)     == [i \in 1 .. 4 |-> IF i <= 4 - n \/ p + i + n - 5 \notin Mem
                                      THEN 0 ELSE b[p + i + n - 5]]
Words(b, p, n, k) == [i \in 1 .. k |-> Word(b, p + (i - 1) * n, n)]

(* The buffer with the last n bytes of each of the words ws from place p on. *)
Stored(b, p, n, ws) ==
  [q \in Mem |-> IF q \in p .. p + n * Len(ws) - 1
                 THEN ws[((q - p) \div n) + 1][5 - n + ((q - p) % n)]
                 ELSE b[q]]

(* What is written to a full FIFO is lost. *)
Fill(fifo, ws) == LET all == fifo \o ws IN SubSeq(all, 1, Least(Len(all), FifoSize))

(* k words read; an empty FIFO gives zeros. *)
Read(k) == [i \in 1 .. k |-> IF i <= Len(rxf) THEN rxf[i] ELSE <<0, 0, 0, 0>>]
Left(k) == SubSeq(rxf, k + 1, Len(rxf))

(* The bytes a unit takes in the buffer, without burst. *)
Stride == IF dlen = 3 THEN 4 ELSE dlen

Pulse == pulses' = Least(pulses + 1, MaxPulses)
-----------------------------------------------------------------------------
(***************************************************************************)
(* The thread: mx51_xfer.                                                  *)
(***************************************************************************)
Return(r) == tpc' = "idle" /\ result' = r /\ inten' = FALSE

Xfer(x, d) ==
  /\ tpc = "idle" /\ nx < MaxXfers
  /\ nx' = nx + 1
  /\ xlen' = x /\ dlen' = d /\ rlen' = 0 /\ tlen' = 0 /\ bxlen' = 0 /\ adj' = 0
  /\ buf' = [p \in Mem |-> p + 1] /\ bus' = << >>
  /\ late' = (late \/ rlen < 0)
  /\ \/ x < d /\ tpc' = "idle" /\ result' = -1 /\ UNCHANGED <<inten, rxf>>
     \/ x >= d /\ tpc' = "loop" /\ inten' = FALSE /\ rxf' = << >> /\ UNCHANGED result
  /\ UNCHANGED <<burst, brlen, btlen, pulses, handler, tc, xch, bcnt, left, hung,
                 txf>>

(* Slip: the length of a burst is not bounded. *)
BurstLenUnbounded == xlen - tlen

BurstLen == Least(xlen - tlen, BurstMax)

(* The units that the first word of a burst may be cut to. *)
CutOk(first) == first = 0 \/ dlen = 1 \/ (dlen = 2 /\ first = 2)

(* Fill the transmit FIFO and start the exchange, with burst ... *)
StartBurst ==
  LET bx    == BurstLen
      first == bx % 4
      room  == FifoSize - (IF first = 0 THEN 0 ELSE 1)
      k     == Least((bx - first) \div 4, room)
      cut   == IF first = 0 THEN << >> ELSE <<Word(buf, tlen, first)>>
  IN  /\ bxlen' = bx /\ brlen' = 0
      /\ \/ /\ CutOk(first) /\ dlen # 3
            /\ txf' = Fill(txf, cut \o Words(buf, tlen + first, 4, k))
            /\ btlen' = first + 4 * k /\ tlen' = tlen + first + 4 * k
            /\ adj' = first
            /\ bcnt' = bx /\ inten' = TRUE /\ xch' = TRUE
            /\ tpc' = "wait" /\ UNCHANGED result
         \/ /\ ~(CutOk(first) /\ dlen # 3)
            /\ Return(-1)
            /\ btlen' = first
            /\ UNCHANGED <<txf, tlen, adj, bcnt, xch>>

(* ... and without. *)
StartUnits ==
  LET k == Least(FifoSize, CeilDiv(xlen - tlen, Stride))
  IN  /\ txf' = Fill(txf, Words(buf, tlen, Stride, k))
      /\ tlen' = tlen + k * Stride
      /\ brlen' = 0 /\ btlen' = 0
      /\ bcnt' = dlen /\ inten' = TRUE /\ xch' = TRUE
      /\ tpc' = "wait"
      /\ UNCHANGED <<bxlen, adj, result>>

(***************************************************************************)
(* A pulse of an earlier transfer may end the wait before its time.  Then  *)
(* the interrupt is still on and the handler runs between the statements   *)
(* that begin a burst.  As long as it does not, no one sees them one by    *)
(* one, and StartBurst is all of them.                                     *)
(***************************************************************************)
Overtaken == burst /\ rlen >= 0 /\ (inten \/ ipc # "idle")

BeginBurst ==
  /\ brlen' = 0 /\ btlen' = 0
  /\ tpc' = "size"
  /\ UNCHANGED <<txf, tlen, bcnt, xch, bxlen, adj, result, inten>>

Loop ==
  /\ tpc = "loop"
  /\ IF rlen < xlen /\ tlen < xlen
     THEN \/ Overtaken /\ BeginBurst
          \/ ~Overtaken /\ (IF burst THEN StartBurst ELSE StartUnits)
     ELSE /\ Return(rlen)
          /\ UNCHANGED <<txf, tlen, brlen, btlen, bcnt, xch, bxlen, adj>>
  /\ UNCHANGED <<burst, nx, xlen, dlen, rlen, pulses, handler, tc, left, hung,
                 rxf, buf, bus, late>>

SizeBurst ==
  /\ tpc = "size"
  /\ \/ xlen - tlen >= BurstMax /\ bxlen' = BurstMax /\ adj' = 0 /\ tpc' = "fill"
     \/ xlen - tlen < BurstMax /\ bxlen' = xlen - tlen /\ tpc' = "cut" /\ UNCHANGED adj
  /\ UNCHANGED <<burst, nx, result, xlen, dlen, rlen, tlen, brlen, btlen, pulses,
                 handler, ctrl, txf, rxf, buf, bus, late>>

CutBurst ==
  LET first == IF bxlen > 0 THEN bxlen % 4 ELSE 0
  IN  /\ tpc = "cut"
      /\ btlen' = first
      /\ \/ /\ CutOk(first)
            /\ txf' = Fill(txf, IF first = 0 THEN << >> ELSE <<Word(buf, tlen, first)>>)
            /\ tlen' = tlen + first /\ adj' = first
            /\ tpc' = "fill" /\ UNCHANGED <<result, inten>>
         \/ ~CutOk(first) /\ Return(-1) /\ UNCHANGED <<txf, tlen, adj>>
      /\ UNCHANGED <<burst, nx, lengths, rlen, brlen, pulses, handler, tc, xch, bcnt,
                     left, hung, rxf, buf, bus, late>>

(* The length of the burst is written to a field of BurstMax values. *)
FillBurst ==
  LET first == IF bxlen > 0 THEN bxlen % 4 ELSE 0
      k     == Least(CeilDiv(bxlen - btlen, 4), FifoSize - (IF first = 0 THEN 0 ELSE 1))
  IN  /\ tpc = "fill"
      /\ \/ /\ dlen # 3 \/ k = 0
            /\ txf' = Fill(txf, Words(buf, tlen, 4, k))
            /\ tlen' = tlen + 4 * k /\ btlen' = btlen + 4 * k
            /\ bcnt' = (IF bxlen > 0 THEN bxlen ELSE BurstMax + bxlen)
            /\ inten' = TRUE /\ xch' = TRUE
            /\ tpc' = "wait" /\ UNCHANGED result
         \/ dlen = 3 /\ k > 0 /\ Return(-1) /\ UNCHANGED <<txf, tlen, btlen, bcnt, xch>>
      /\ UNCHANGED <<burst, nx, lengths, rlen, brlen, adj, pulses, handler, tc, left,
                     hung, rxf, buf, bus, late>>

(* mx51_wait: a pulse ... *)
WaitPulse ==
  /\ tpc = "wait" /\ pulses > 0
  /\ pulses' = pulses - 1
  /\ tpc' = "loop"
  /\ UNCHANGED <<burst, nx, result, lengths, rlen, tlen, brlen, btlen, adj,
                 handler, ctrl, txf, rxf, buf, bus, late>>

Irq == inten /\ (tc \/ Len(rxf) > RxMark)

(* The controller has a word to exchange. *)
Busy == ~hung /\ xch /\ txf # << >>

(* Slip: with a length of 0 mx51_wait would arm no timer. *)
WaitTimeoutUnarmed == FALSE

(* Slip: the length received so far is left to be reported. *)
WaitTimeoutKeepsLen ==
  /\ tpc = "wait" /\ pulses = 0
  /\ ipc = "idle" /\ ~Irq /\ ~Busy
  /\ tpc' = "loop"
  /\ UNCHANGED <<burst, nx, result, lengths, rlen, tlen, brlen, btlen, adj,
                 pulses, handler, ctrl, txf, rxf, buf, bus, late>>

(* ... or a time-out, after 50 times what the transfer takes: the controller *)
(* and the handler have come to rest.                                        *)
WaitTimeout ==
  /\ tpc = "wait" /\ pulses = 0
  /\ ipc = "idle" /\ ~Irq /\ ~Busy
  /\ rlen' = -1
  /\ tpc' = "loop"
  /\ UNCHANGED <<burst, nx, result, lengths, tlen, brlen, btlen, adj, pulses,
                 handler, ctrl, txf, rxf, buf, bus, late>>

Thread == Loop \/ SizeBurst \/ CutBurst \/ FillBurst \/ WaitPulse \/ WaitTimeout
-----------------------------------------------------------------------------
(***************************************************************************)
(* The interrupt handler: spi_intr.                                        *)
(***************************************************************************)
IsrEnter ==
  /\ ipc = "idle" /\ Irq
  /\ ipc' = "read"
  /\ UNCHANGED <<thread, lengths, rlen, tlen, brlen, btlen, adj, pulses, count,
                 ctrl, txf, rxf, buf, bus, late>>

(* Which interrupt, and how many words; the wrong one, or after a time-out. *)
IsrRead ==
  /\ ipc = "read"
  /\ tc' = FALSE
  /\ LET right == tc \/ Len(rxf) > RxMark
     IN  /\ inten' = (inten /\ right)
         /\ \/ /\ right /\ rlen >= 0
               /\ count' = IF tc THEN Len(rxf) ELSE RxMark
               /\ ipc' = "serve" /\ UNCHANGED pulses
            \/ /\ ~(right /\ rlen >= 0)
               /\ Pulse /\ ipc' = "idle" /\ UNCHANGED count
  /\ UNCHANGED <<thread, lengths, rlen, tlen, brlen, btlen, adj, xch, bcnt,
                 left, hung, txf, rxf, buf, bus, late>>

(* The end of the handler: done, or go on. *)
Finish(done) ==
  \/ done /\ inten' = FALSE /\ Pulse /\ UNCHANGED xch
  \/ ~done /\ xch' = TRUE /\ UNCHANGED <<inten, pulses>>

(* Slip: the transmit FIFO is filled up over the end of the burst. *)
RefillPastEnd == Least(CeilDiv(xlen - tlen, 4) + 1, FifoSize - Len(txf))

(* The words that the transmit FIFO is refilled with. *)
Refill == Least(CeilDiv(bxlen - btlen, 4), FifoSize - Len(txf))

(***************************************************************************)
(* With burst: the first word if it is cut, then whole words up to what    *)
(* has been sent and to the end of the burst; then refill the transmit     *)
(* FIFO.  A count of -1 (the FIFO was empty) does not stop the loop.       *)
(***************************************************************************)
IsrBurst ==
  LET first == IF adj = 0 THEN 0 ELSE 1
      r0    == rlen + adj
      b0    == brlen + adj
      more  == Min({CeilDiv(xlen - r0, 4), CeilDiv(tlen - r0, 4),
                    CeilDiv(bxlen - b0, 4)})
      k     == IF count < first THEN more ELSE Least(count - first, more)
      ws    == Read(first + k)
      b     == Stored(IF first = 0 THEN buf ELSE Stored(buf, rlen, adj, <<ws[1]>>),
                      r0, 4, SubSeq(ws, first + 1, first + k))
      t     == Refill
  IN  /\ rlen' = r0 + 4 * k /\ brlen' = b0 + 4 * k /\ adj' = 0
      /\ rxf' = Left(first + k)
      /\ buf' = b
      /\ txf' = txf \o Words(b, tlen, 4, t)
      /\ tlen' = tlen + 4 * t /\ btlen' = btlen + 4 * t
      /\ Finish(brlen' >= bxlen \/ rlen' >= xlen)

(* Without: for every unit read another is sent, if there is one. *)
IsrUnits ==
  LET b == Stored(buf, rlen, Stride, Read(count))
      t == Least(count, CeilDiv(xlen - tlen, Stride))
  IN  /\ rlen' = rlen + count * Stride
      /\ rxf' = Left(count)
      /\ buf' = b
      /\ txf' = Fill(txf, Words(b, tlen, Stride, t))
      /\ tlen' = tlen + t * Stride
      /\ UNCHANGED <<brlen, btlen, adj>>
      /\ Finish(rlen' >= xlen)

IsrServe ==
  /\ ipc = "serve"
  /\ ipc' = "idle" /\ count' = 0
  /\ IF burst THEN IsrBurst ELSE IsrUnits
  /\ UNCHANGED <<thread, lengths, tc, bcnt, left, hung, bus, late>>

Isr == IsrEnter \/ IsrRead \/ IsrServe
-----------------------------------------------------------------------------
(***************************************************************************)
(* The controller sends n bytes of a word and receives as many, which are  *)
(* s bytes of the buffer (only for a 24-bit unit n and s differ).  Of the  *)
(* first word of a burst n makes the rest whole words.  It waits           *)
(* for data in the middle of a burst; at the end of one it goes on with    *)
(* the next or, without data, completes.                                   *)
(***************************************************************************)
HwShift ==
  /\ Busy
  /\ LET all == IF left = 0 THEN bcnt ELSE left
         n   == IF all % 4 = 0 THEN 4 ELSE all % 4
         s   == IF burst THEN n ELSE Stride
         out == [i \in 1 .. 4 |-> IF i <= 4 - n THEN 0 ELSE Head(txf)[i]]
         in  == [i \in 1 .. 4 |-> IF i <= 4 - n THEN 0 ELSE -(Len(bus) + i + s - 4)]
     IN  /\ bus' = bus \o SubSeq(out, 5 - s, 4)
         /\ rxf' = Fill(rxf, <<in>>)
         /\ left' = all - n
         /\ tc' = (tc \/ (left' = 0 /\ Len(txf) = 1))
         /\ xch' = ~(left' = 0 /\ Len(txf) = 1)
  /\ txf' = Tail(txf)
  /\ UNCHANGED <<thread, lengths, rlen, tlen, brlen, btlen, adj, pulses,
                 handler, inten, bcnt, hung, buf, late>>

(* The controller stops working for good. *)
HwHang ==
  /\ ~hung
  /\ hung' = TRUE
  /\ UNCHANGED <<thread, lengths, rlen, tlen, brlen, btlen, adj, pulses,
                 handler, inten, tc, xch, bcnt, left, txf, rxf, buf, bus, late>>
-----------------------------------------------------------------------------
Init ==
  /\ tpc = "idle" /\ burst \in BOOLEAN /\ nx = 0
  /\ xlen = 0 /\ dlen = 1 /\ rlen = 0 /\ tlen = 0
  /\ bxlen = 0 /\ brlen = 0 /\ btlen = 0 /\ adj = 0
  /\ result = 0 /\ pulses = 0
  /\ ipc = "idle" /\ count = 0
  /\ inten = FALSE /\ txf = << >> /\ rxf = << >>
  /\ tc = FALSE /\ xch = FALSE /\ bcnt = 0 /\ left = 0 /\ hung = FALSE
  /\ buf = [p \in Mem |-> p + 1] /\ bus = << >>
  /\ late = FALSE

Next == (\E x \in Lens, d \in DLens : Xfer(x, d)) \/ Thread \/ Isr
        \/ HwShift \/ HwHang

Spec == Init /\ [][Next]_vars

(* The thread, the handler and a controller that works run; a wait with a  *)
(* time-out ends.                                                          *)
FairSpec == Spec /\ WF_vars(Thread) /\ WF_vars(Isr) /\ WF_vars(HwShift)
-----------------------------------------------------------------------------
(***************************************************************************)
(* Every variable keeps its type; no burst is longer than the field that   *)
(* holds its length, as long as no earlier transfer has timed out (with    *)
(* bursts: without, such a controller has hung).                           *)
(***************************************************************************)
TypeOK ==
  /\ tpc \in {"idle", "loop", "size", "cut", "fill", "wait"}
  /\ burst \in BOOLEAN /\ inten \in BOOLEAN /\ hung \in BOOLEAN /\ late \in BOOLEAN
  /\ ipc \in {"idle", "read", "serve"}
  /\ ~(burst /\ late) =>
       /\ xlen \in 0 .. MaxLen /\ dlen \in 1 .. 4
       /\ rlen \in -1 .. MaxLen + 3 /\ tlen \in 0 .. MaxLen + 3
       /\ bxlen \in 0 .. BurstMax /\ brlen \in 0 .. BurstMax /\ btlen \in 0 .. BurstMax
       /\ adj \in 0 .. 3
       /\ result \in -1 .. MaxLen + 3 /\ pulses \in 0 .. MaxPulses
       /\ count \in 0 .. FifoSize
       /\ Len(txf) <= FifoSize /\ Len(rxf) <= FifoSize
       /\ \A p \in Mem : buf[p] \in Int
       /\ tc \in BOOLEAN /\ xch \in BOOLEAN
       /\ bcnt \in 0 .. BurstMax /\ left \in 0 .. BurstMax

(***************************************************************************)
(* What is received is put where the data has been sent already, and the   *)
(* client's buffer is not left: the counters of the handler and of the     *)
(* thread stay in step over cut first words, bursts, refills and up to the *)
(* end of a transfer that times out.  After that, with bursts, a left-over *)
(* pulse lets the handler overtake the thread, and the buffer is left      *)
(* (WholeWordsLeft).  With a length that is not a number of whole units,   *)
(* normal mode goes over the end of the buffer to the end of a unit.       *)
(***************************************************************************)
StaysInBuffer ==
  (IF burst THEN ~late ELSE xlen % Stride = 0) => rlen <= tlen /\ tlen <= xlen

(***************************************************************************)
(* What the comment in spi_intr says when it refills the transmit FIFO:    *)
(* "The data left here must be align on 32bits word", because mx51_xfer    *)
(* has sent the part of the burst that is not.  It is so unless the        *)
(* handler has overtaken mx51_xfer between the length of the burst and     *)
(* its first word; then more is sent than the buffer holds.                *)
(***************************************************************************)
WholeWordsLeft ==
  burst /\ ipc = "serve" /\ btlen < bxlen => (bxlen - btlen) % 4 = 0

(***************************************************************************)
(* What a transfer reports as transferred has been: the slave got the      *)
(* client's bytes in order and the client gets the slave's, although the   *)
(* receive FIFO may overflow when the handler is late (the driver does not *)
(* look at the overflow bit) - as long as no transfer has timed out.       *)
(***************************************************************************)
Skipped(p) == ~burst /\ dlen = 3 /\ p % 4 = 0

Exchanged(n) ==
  \A p \in 0 .. n - 1 :
    p < Len(bus) /\ (~Skipped(p) => bus[p + 1] = p + 1 /\ buf[p] = -(p + 1))

SuccessIsExchange ==
  tpc = "idle" /\ ~late /\ result > 0 => Exchanged(Least(result, xlen))

(* Every transfer returns, also when the controller hangs. *)
XferReturns == (tpc # "idle") ~> (tpc = "idle")
=============================================================================
