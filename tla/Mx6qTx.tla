------------------------------- MODULE Mx6qTx -------------------------------
(***************************************************************************)
(* Transmit side of the i.MX6 ENET driver (devnp-mx6x: transmit.c, the Tx  *)
(* half of event.c, mx6q_init and mx6q_stop of detect.c, the periodic      *)
(* mx6q_MDI_MonitorPhy of mii.c and the reaping call of ptp.c).            *)
(*                                                                         *)
(* Two threads run the driver's code: "stack", the io-pkt thread that      *)
(* outputs packets and runs ioctls and callouts, and "work", the thread    *)
(* that runs mx6q_process_interrupt.  They exclude each other with         *)
(* if_snd_ex.  The interrupt handler and the DMA engine of the NIC         *)
(* interleave with them freely.  The build for this board has one transmit *)
(* queue (NUM_TX_QUEUES = 1).                                              *)
(*                                                                         *)
(* A packet is the number of non-empty fragments of its mbuf chain;        *)
(* MaxFrags + 1 stands for every chain mx6q_tx has to defragment.          *)
(***************************************************************************)
EXTENDS Naturals, Sequences

CONSTANTS
  N,           \* num_tx_descriptors
  MaxFrags,    \* MX6Q_MAX_FRAGS
  Packets,     \* fragment counts of the packets the stack sends
  MaxSnd,      \* bound: length of if_snd, the interface's send queue
  MaxStops,    \* bound: how often the interface is stopped
  LinkFlaps,   \* may MDI_MonitorPhy report a link change?
  GracefulStop \* does the NIC always stop within STOP_TIMEOUT polls?

ASSUME TxAssumption ==
  /\ N \in Nat /\ MaxFrags \in Nat \ {0} /\ MaxFrags + 1 < N
  /\ Packets \subseteq 1 .. MaxFrags + 1
  /\ MaxSnd \in Nat /\ MaxStops \in Nat /\ LinkFlaps \in BOOLEAN
  /\ GracefulStop \in BOOLEAN

VARIABLES
  if_snd,          \* send queue of the interface
  lock,            \* holder of if_snd_ex, or "free"
  pc, loc,         \* per thread: where it is, and its local variables
  running,         \* IFF_RUNNING of if_flags and if_flags_tx, ECNTRL_SLEEP off
  link_down,       \* NIC_FLAG_LINK_DOWN
  oactive,         \* IFF_OACTIVE
  tx_full, tx_reaped,
  pidx, cidx, inuse,      \* tx_pidx, tx_cidx, tx_descr_inuse
  tx_pkts,                \* which descriptors carry an mbuf pointer
  bd_R, bd_L, bd_BDU,     \* TXBD_R, TXBD_L, BD_BDU of every descriptor
  internal_tx_errors,     \* has the error of the same name been counted?
  x_des,           \* X_DES_ACTIVE register
  tfint,           \* IEVENT_TFINT
  queued,          \* is the interrupt entry on io-pkt's list?
  hw, nic,         \* the NIC: its next descriptor and its phase
  stops            \* stops so far (bounded by MaxStops)

ring  == <<pidx, cidx, inuse, tx_pkts, bd_R, bd_L, bd_BDU>>
flags == <<running, link_down, oactive, stops>>
dev   == <<x_des, tfint, hw, nic>>
vars  == <<if_snd, lock, pc, loc, flags, tx_full, tx_reaped, ring,
           internal_tx_errors, dev, queued>>

Threads == {"stack", "work"}
Idx     == 0 .. N - 1
Labels  == {"idle", "loop", "start", "check", "full", "load", "ready", "kick",
            "stop1", "stop2"}

(***************************************************************************)
(* Ring arithmetic.  NEXT_TX is (x + 1) % num_tx_descriptors; Plus is its  *)
(* k-fold use and Dist its inverse, written without % because indices stay *)
(* below N.                                                                *)
(***************************************************************************)
(* Slip: the wrap tested with > instead of >=. *)
PlusLate(i, k) == IF i + k > N THEN (i + k) - N ELSE i + k

Plus(i, k) == IF i + k >= N THEN (i + k) - N ELSE i + k
Dist(i, j) == IF j >= i THEN j - i ELSE (j + N) - i

(* The descriptors a packet of n fragments starting at i occupies. *)
Span(i, n) == {d \in Idx : Dist(i, d) < n}

(* Slip: one descriptor too many is taken for free. *)
AvailOneMore(u) == (N - u) + 1

Avail(u) == N - u

(***************************************************************************)
(* mx6q_transmit_complete reaps from tx_cidx up to the first descriptor    *)
(* the NIC still owns.  Reapable(k) holds of the number it reaps.          *)
(***************************************************************************)
Done(i) == ~ bd_R[i] /\ (bd_L[i] => bd_BDU[i])

(* Slip: ownership tested after the descriptor was handed back. *)
ReapableOnePast(k) ==
  /\ k \in 0 .. Dist(cidx, pidx)
  /\ \A i \in Span(cidx, k) : Done(i) \/ Dist(cidx, i) = k - 1
  /\ k = Dist(cidx, pidx) \/ (k > 0 /\ ~ Done(Plus(cidx, k - 1)))

Reapable(k) ==
  /\ k \in 0 .. Dist(cidx, pidx)
  /\ \A i \in Span(cidx, k) : Done(i)
  /\ k = Dist(cidx, pidx) \/ ~ Done(Plus(cidx, k))

Reaped(f, k) == [i \in Idx |-> f[i] /\ i \notin Span(cidx, k)]

(* The assignments of mx6q_transmit_complete when it reaps k descriptors. *)
TransmitComplete(k) ==
  /\ Reapable(k)
  /\ tx_pkts' = Reaped(tx_pkts, k)
  /\ bd_L'    = Reaped(bd_L, k)
  /\ bd_BDU'  = Reaped(bd_BDU, k)
  /\ inuse'   = inuse - k
  /\ cidx'    = Plus(cidx, k)
  /\ UNCHANGED <<pidx, bd_R>>

Goto(t, l) == pc' = [pc EXCEPT ![t] = l]

(* The local variables of mx6q_tx in thread t, and their value outside it. *)
NoFrame == [ret |-> "idle", n |-> 0, first |-> 0]
SetLoc(t, ret, n, first) ==
  loc' = [loc EXCEPT ![t] = [ret |-> ret, n |-> n, first |-> first]]
Forget(t) == loc' = [loc EXCEPT ![t] = NoFrame]

(* Where a thread goes when mx6q_start returns to it. *)
Return(t) == IF t = "work" THEN "loop" ELSE "idle"

Unlock(t) == lock' = IF lock = t THEN "free" ELSE lock

-----------------------------------------------------------------------------
(***************************************************************************)
(* The stack's transmit entry: enqueue under if_snd_ex and call if_start   *)
(* unless IFF_OACTIVE is set.  External: io-pkt.                           *)
(***************************************************************************)
Enqueue(p) ==
  /\ pc["stack"] = "idle" /\ lock = "free" /\ Len(if_snd) < MaxSnd
  /\ if_snd' = Append(if_snd, p)
  /\ IF oactive
     THEN UNCHANGED <<lock, pc>>
     ELSE lock' = "stack" /\ Goto("stack", "start")
  /\ UNCHANGED <<loc, flags, tx_full, tx_reaped, ring, internal_tx_errors,
                 dev, queued>>

(* mx6q_start: nothing is sent on an interface that is down. *)
StartEnter(t) ==
  /\ pc[t] = "start"
  /\ IF ~ running \/ link_down
     THEN /\ if_snd' = << >> /\ Unlock(t) /\ Goto(t, Return(t))
          /\ UNCHANGED oactive
     ELSE oactive' = TRUE /\ Goto(t, "check") /\ UNCHANGED <<if_snd, lock>>
  /\ UNCHANGED <<loc, running, link_down, stops, tx_full, tx_reaped,
                 ring, internal_tx_errors, dev, queued>>

(***************************************************************************)
(* One turn of mx6q_start's loop, up to the call of mx6q_tx.               *)
(***************************************************************************)
StartCheck(t) ==
  /\ pc[t] = "check"
  /\ IF Avail(inuse) <= MaxFrags
     THEN \E k \in 0 .. N : TransmitComplete(k) /\ tx_reaped' = TRUE
     ELSE UNCHANGED <<ring, tx_reaped>>
  /\ \/ /\ Avail(inuse') <= MaxFrags
        /\ Goto(t, "full") /\ UNCHANGED <<if_snd, lock, oactive, loc>>
     \/ /\ Avail(inuse') > MaxFrags /\ if_snd = << >>
        /\ oactive' = FALSE /\ Unlock(t) /\ Goto(t, Return(t))
        /\ UNCHANGED <<if_snd, loc>>
     \/ /\ Avail(inuse') > MaxFrags /\ if_snd # << >>
        /\ SetLoc(t, "check", Head(if_snd), 0)
        /\ if_snd' = Tail(if_snd) /\ Goto(t, "load")
        /\ UNCHANGED <<lock, oactive>>
  /\ UNCHANGED <<running, link_down, stops, tx_full,
                 internal_tx_errors, dev, queued>>

(* The ring stayed full: remember it, keep IFF_OACTIVE, release the lock. *)
StartFull(t) ==
  /\ pc[t] = "full"
  /\ tx_full' = TRUE
  /\ Unlock(t) /\ Goto(t, Return(t))
  /\ UNCHANGED <<if_snd, loc, flags, tx_reaped, ring, internal_tx_errors,
                 dev, queued>>

(***************************************************************************)
(* mx6q_output for a tagged packet: straight to the ring, no if_snd.       *)
(***************************************************************************)
Output(p) ==
  /\ pc["stack"] = "idle" /\ lock = "free"
  /\ IF Avail(inuse) <= MaxFrags
     THEN \E k \in 0 .. N : TransmitComplete(k) /\ tx_reaped' = TRUE
     ELSE UNCHANGED <<ring, tx_reaped>>
  /\ IF Avail(inuse') <= MaxFrags
     THEN UNCHANGED <<lock, pc, loc>>               \* ENOBUFS
     ELSE /\ lock' = "stack" /\ Goto("stack", "load")
          /\ SetLoc("stack", "idle", p, 0)
  /\ UNCHANGED <<if_snd, flags, tx_full, internal_tx_errors, dev, queued>>

(* Slip: every end of mx6q_tx releases the lock, as its error path does. *)
TxReturnUnlocks(t) == Goto(t, loc[t].ret) /\ Forget(t) /\ Unlock(t)

(* What follows mx6q_tx: the next turn of mx6q_start, or mx6q_output's end. *)
TxReturn(t) ==
  /\ Goto(t, loc[t].ret) /\ Forget(t)
  /\ IF loc[t].ret = "idle" THEN Unlock(t) ELSE UNCHANGED lock

(***************************************************************************)
(* mx6q_tx, first half: defragment if need be (mx6q_defrag may fail), fill *)
(* the descriptors, set READY on all but the first, advance tx_pidx.  A    *)
(* descriptor that is still READY aborts the packet: those filled before   *)
(* it keep their READY bit and the lock is released.                       *)
(***************************************************************************)
TxDropped(t) ==
  /\ TxReturn(t)
  /\ UNCHANGED <<ring, internal_tx_errors>>

TxHitEnd(t, n) ==
  \E j \in 0 .. n - 1 :
    /\ bd_R[Plus(pidx, j)]
    /\ \A i \in Span(pidx, j) : ~ bd_R[i]
    /\ bd_R' = [i \in Idx |-> bd_R[i] \/ (i \in Span(pidx, j) /\ i # pidx)]
    /\ internal_tx_errors' = TRUE
    /\ Goto(t, loc[t].ret) /\ Forget(t) /\ Unlock(t)
    /\ UNCHANGED <<pidx, cidx, inuse, tx_pkts, bd_L, bd_BDU>>

(* Slip: tx_pidx advanced by one descriptor whatever the packet took. *)
TxFilledByOne(t, n) ==
  /\ \A i \in Span(pidx, n) : ~ bd_R[i]
  /\ bd_R'    = [i \in Idx |-> bd_R[i] \/ (i \in Span(pidx, n) /\ i # pidx)]
  /\ tx_pkts' = [tx_pkts EXCEPT ![pidx] = TRUE]
  /\ inuse'   = inuse + n
  /\ pidx'    = Plus(pidx, 1)
  /\ SetLoc(t, loc[t].ret, n, pidx)
  /\ Goto(t, "ready")
  /\ UNCHANGED <<cidx, bd_L, bd_BDU, lock, internal_tx_errors>>

TxFilled(t, n) ==
  /\ \A i \in Span(pidx, n) : ~ bd_R[i]
  /\ bd_R'    = [i \in Idx |-> bd_R[i] \/ (i \in Span(pidx, n) /\ i # pidx)]
  /\ tx_pkts' = [tx_pkts EXCEPT ![pidx] = TRUE]
  /\ inuse'   = inuse + n
  /\ pidx'    = Plus(pidx, n)
  /\ SetLoc(t, loc[t].ret, n, pidx)
  /\ Goto(t, "ready")
  /\ UNCHANGED <<cidx, bd_L, bd_BDU, lock, internal_tx_errors>>

Defrag(n) == IF n > MaxFrags THEN 0 .. MaxFrags ELSE {n}

TxLoad(t) ==
  /\ pc[t] = "load"
  /\ \E n \in Defrag(loc[t].n) :
       \/ n = 0 /\ TxDropped(t)
       \/ n > 0 /\ TxHitEnd(t, n)
       \/ n > 0 /\ TxFilled(t, n)
  /\ UNCHANGED <<if_snd, flags, tx_full, tx_reaped, dev, queued>>

(* mx6q_tx, second half: LAST on the last descriptor, READY on the first. *)
TxReady(t) ==
  /\ pc[t] = "ready"
  /\ bd_L' = [bd_L EXCEPT ![Plus(loc[t].first, loc[t].n - 1)] = TRUE]
  /\ bd_R' = [bd_R EXCEPT ![loc[t].first] = TRUE]
  /\ Goto(t, "kick")
  /\ UNCHANGED <<if_snd, lock, loc, flags, tx_full, tx_reaped, pidx, cidx,
                 inuse, tx_pkts, bd_BDU, internal_tx_errors, dev, queued>>

(* mx6q_tx, the kick: write X_DES_ACTIVE if the NIC has let it drop. *)
TxKick(t) ==
  /\ pc[t] = "kick"
  /\ x_des' = (x_des \/ running)
  /\ TxReturn(t)
  /\ UNCHANGED <<if_snd, flags, tx_full, tx_reaped, ring,
                 internal_tx_errors, tfint, hw, nic, queued>>

-----------------------------------------------------------------------------
(***************************************************************************)
(* mx6q_isr on IEVENT_TFINT.                                               *)
(***************************************************************************)
LastBdActive == bd_R[IF pidx # 0 THEN pidx - 1 ELSE N - 1]

(* Slip: the ERR006358 workaround left out. *)
IsrNoRekick ==
  /\ tfint
  /\ tfint'  = FALSE
  /\ queued' = (queued \/ tx_full)
  /\ UNCHANGED <<if_snd, lock, pc, loc, flags, tx_full, tx_reaped, ring,
                 internal_tx_errors, x_des, hw, nic>>

Isr ==
  /\ tfint
  /\ tfint'  = FALSE
  /\ x_des'  = (x_des \/ LastBdActive)
  /\ queued' = (queued \/ tx_full)
  /\ UNCHANGED <<if_snd, lock, pc, loc, flags, tx_full, tx_reaped, ring,
                 internal_tx_errors, hw, nic>>

(* io-pkt takes the entry off its list and calls mx6q_process_interrupt. *)
WorkBegin ==
  /\ pc["work"] = "idle" /\ queued
  /\ queued' = FALSE /\ Goto("work", "loop")
  /\ UNCHANGED <<if_snd, lock, loc, flags, tx_full, tx_reaped, ring,
                 internal_tx_errors, dev>>

(* mx6q_process_interrupt: call mx6q_start as long as tx_full is set. *)
ProcessInterrupt ==
  /\ pc["work"] = "loop"
  /\ \/ ~ tx_full /\ Goto("work", "idle") /\ UNCHANGED <<lock, tx_full>>
     \/ /\ tx_full /\ lock = "free"
        /\ lock' = "work" /\ tx_full' = FALSE /\ Goto("work", "start")
  /\ UNCHANGED <<if_snd, loc, flags, tx_reaped, ring, internal_tx_errors,
                 dev, queued>>

(* Slip: tx_reaped never reset, so the callout never cleans the ring again. *)
MonitorPhyNoReset ==
  /\ pc["stack"] = "idle" /\ running
  /\ link_down' \in IF LinkFlaps \/ link_down THEN BOOLEAN ELSE {link_down}
  /\ IF tx_reaped
     THEN UNCHANGED ring
     ELSE lock = "free" /\ \E k \in 0 .. N : TransmitComplete(k)
  /\ tx_reaped' = TRUE
  /\ UNCHANGED <<if_snd, lock, pc, loc, running, oactive, stops,
                 tx_full, internal_tx_errors, dev, queued>>

(***************************************************************************)
(* The 2 s callout of a running interface.  The PHY probe may change the   *)
(* link state; the ring is cleaned unless mx6q_start did so recently.      *)
(***************************************************************************)
MonitorPhy ==
  /\ pc["stack"] = "idle" /\ running
  /\ link_down' \in IF LinkFlaps \/ link_down THEN BOOLEAN ELSE {link_down}
  /\ IF tx_reaped
     THEN UNCHANGED ring
     ELSE lock = "free" /\ \E k \in 0 .. N : TransmitComplete(k)
  /\ tx_reaped' = FALSE
  /\ UNCHANGED <<if_snd, lock, pc, loc, running, oactive, stops,
                 tx_full, internal_tx_errors, dev, queued>>

(* mx6q_ptp_get_tx_timestamp reaps to collect time stamps. *)
GetTxTimestamp ==
  /\ pc["stack"] = "idle" /\ lock = "free"
  /\ \E k \in 0 .. N : TransmitComplete(k)
  /\ tx_reaped' = TRUE
  /\ UNCHANGED <<if_snd, lock, pc, loc, flags, tx_full, internal_tx_errors,
                 dev, queued>>

(***************************************************************************)
(* mx6q_stop: mark the link down, take the lock and mark the interface     *)
(* down, put the MAC to sleep; when it has stopped gracefully, or after    *)
(* STOP_TIMEOUT polls, reap, free what is left and restart the ring at     *)
(* tx_cidx.                                                                *)
(***************************************************************************)
Stop ==
  /\ pc["stack"] = "idle" /\ running /\ stops < MaxStops
  /\ link_down' = TRUE /\ stops' = stops + 1
  /\ Goto("stack", "stop1")
  /\ UNCHANGED <<if_snd, lock, loc, running, oactive, tx_full,
                 tx_reaped, ring, internal_tx_errors, dev, queued>>

StopMark ==
  /\ pc["stack"] = "stop1" /\ lock = "free"
  /\ lock' = "stack"
  /\ running' = FALSE /\ oactive' = FALSE
  /\ Goto("stack", "stop2")
  /\ UNCHANGED <<if_snd, loc, link_down, stops, tx_full, tx_reaped, ring,
                 internal_tx_errors, dev, queued>>

(* What mx6q_stop does to the ring once it has reaped k descriptors: it     *)
(* clears the descriptors that still carry an mbuf, and restarts at tx_cidx.*)
Discarded(k) == {i \in Idx : Reaped(tx_pkts, k)[i]}

(* Slip: TXBD_R of the discarded descriptors not cleared. *)
StopReadyKept(k) == UNCHANGED bd_R

StopReady(k) == bd_R' = [i \in Idx |-> bd_R[i] /\ i \notin Discarded(k)]

(* Slip: tx_descr_inuse not reset. *)
StopIndicesKeepCount(k) ==
  cidx' = Plus(cidx, k) /\ pidx' = Plus(cidx, k) /\ UNCHANGED inuse

(* Slip: queueing restarts at descriptor 0, not where the hardware stopped. *)
StopIndicesFromZero(k) == cidx' = 0 /\ pidx' = 0 /\ inuse' = 0

StopIndices(k) ==
  cidx' = Plus(cidx, k) /\ pidx' = Plus(cidx, k) /\ inuse' = 0

StopClean ==
  /\ pc["stack"] = "stop2" /\ (GracefulStop => nic = "idle")
  /\ \E k \in 0 .. N :
       /\ Reapable(k)
       /\ StopReady(k) /\ StopIndices(k)
       /\ bd_L'   = [i \in Idx |-> Reaped(bd_L, k)[i] /\ i \notin Discarded(k)]
       /\ bd_BDU' = Reaped(bd_BDU, k)
  /\ tx_pkts' = [i \in Idx |-> FALSE]
  /\ tx_reaped' = TRUE
  /\ Unlock("stack") /\ Goto("stack", "idle")
  /\ UNCHANGED <<if_snd, loc, flags, tx_full, internal_tx_errors, dev, queued>>

(* mx6q_init on a stopped interface: it runs the first MonitorPhy itself. *)
Init_(lnk) ==
  /\ pc["stack"] = "idle" /\ ~ running /\ lock = "free"
  /\ running' = TRUE /\ link_down' = lnk
  /\ IF tx_reaped
     THEN UNCHANGED ring
     ELSE \E k \in 0 .. N : TransmitComplete(k)
  /\ tx_reaped' = FALSE
  /\ UNCHANGED <<if_snd, lock, pc, loc, oactive, stops, tx_full,
                 internal_tx_errors, dev, queued>>

-----------------------------------------------------------------------------
(***************************************************************************)
(* The NIC (external).  It walks the ring from its own index, closes each  *)
(* descriptor as its buffer has been fetched, and after the last one of a  *)
(* frame updates that descriptor (BD_BDU) and raises IEVENT_TFINT.  By     *)
(* ERR006358 it may then drop X_DES_ACTIVE with work still in the ring.    *)
(* Asleep, it only finishes the frame it is in.                            *)
(***************************************************************************)
NicFetch ==
  /\ x_des /\ bd_R[hw]
  /\ (nic = "idle" /\ running) \/ nic = "frame"
  /\ bd_R' = [bd_R EXCEPT ![hw] = FALSE]
  /\ nic' = IF bd_L[hw] THEN "update" ELSE "frame"
  /\ hw' = Plus(hw, 1)
  /\ UNCHANGED <<if_snd, lock, pc, loc, flags, tx_full, tx_reaped, pidx, cidx,
                 inuse, tx_pkts, bd_L, bd_BDU, internal_tx_errors, x_des,
                 tfint, queued>>

NicUpdate ==
  /\ nic = "update"
  /\ bd_BDU' = [bd_BDU EXCEPT ![Plus(hw, N - 1)] = TRUE]
  /\ tfint' = TRUE /\ nic' = "idle"
  /\ x_des' \in {x_des, FALSE}
  /\ UNCHANGED <<if_snd, lock, pc, loc, flags, tx_full, tx_reaped, pidx, cidx,
                 inuse, tx_pkts, bd_R, bd_L, internal_tx_errors, hw,
                 queued>>

NicIdle ==
  /\ x_des /\ nic # "update" /\ ~ bd_R[hw]
  /\ x_des' = FALSE /\ nic' = "idle"
  /\ UNCHANGED <<if_snd, lock, pc, loc, flags, tx_full, tx_reaped, ring,
                 internal_tx_errors, tfint, hw, queued>>

Nic == NicFetch \/ NicUpdate \/ NicIdle

-----------------------------------------------------------------------------
Init ==
  /\ if_snd = << >> /\ lock = "free"
  /\ pc = [t \in Threads |-> "idle"]
  /\ loc = [t \in Threads |-> NoFrame]
  /\ running = TRUE /\ link_down = FALSE /\ oactive = FALSE
  /\ tx_full = FALSE /\ tx_reaped = FALSE
  /\ pidx = 0 /\ cidx = 0 /\ inuse = 0
  /\ tx_pkts = [i \in Idx |-> FALSE]
  /\ bd_R = [i \in Idx |-> FALSE] /\ bd_L = [i \in Idx |-> FALSE]
  /\ bd_BDU = [i \in Idx |-> FALSE]
  /\ internal_tx_errors = FALSE
  /\ x_des = FALSE /\ tfint = FALSE /\ queued = FALSE
  /\ hw = 0 /\ nic = "idle"
  /\ stops = 0

(* The steps a thread takes once it is inside the driver. *)
Step(t) ==
  \/ StartEnter(t) \/ StartCheck(t) \/ StartFull(t)
  \/ TxLoad(t) \/ TxReady(t) \/ TxKick(t)

Next ==
  \/ \E p \in Packets : Enqueue(p) \/ Output(p)
  \/ \E t \in Threads : Step(t)
  \/ Isr \/ WorkBegin \/ ProcessInterrupt
  \/ MonitorPhy \/ GetTxTimestamp
  \/ Stop \/ StopMark \/ StopClean
  \/ \E lnk \in BOOLEAN : Init_(lnk)
  \/ NicFetch \/ NicUpdate \/ NicIdle

(***************************************************************************)
(* Fairness: threads inside the driver run on, an asserted interrupt is    *)
(* taken, io-pkt serves its interrupt list, the callout fires again and    *)
(* again, the NIC keeps working.  Nobody has to send, stop or start.       *)
(***************************************************************************)
Fairness ==
  /\ \A t \in Threads : WF_vars(Step(t))
  /\ WF_vars(Isr) /\ WF_vars(WorkBegin) /\ SF_vars(ProcessInterrupt)
  /\ SF_vars(MonitorPhy)
  /\ WF_vars(StopMark) /\ WF_vars(StopClean)
  /\ WF_vars(Nic)

Spec     == Init /\ [][Next]_vars
FairSpec == Spec /\ Fairness
-----------------------------------------------------------------------------
ThreadType ==
  /\ if_snd \in Seq(Packets) /\ lock \in Threads \cup {"free"}
  /\ pc \in [Threads -> Labels]
  /\ loc \in [Threads -> [ret : {"idle", "check"}, n : 0 .. MaxFrags + 1,
                         first : Idx]]
  /\ stops \in 0 .. MaxStops

RingType ==
  /\ pidx \in Idx /\ cidx \in Idx /\ hw \in Idx /\ inuse \in 0 .. N
  /\ tx_pkts \in [Idx -> BOOLEAN] /\ bd_R \in [Idx -> BOOLEAN]
  /\ bd_L \in [Idx -> BOOLEAN] /\ bd_BDU \in [Idx -> BOOLEAN]

FlagType ==
  /\ running \in BOOLEAN /\ link_down \in BOOLEAN /\ oactive \in BOOLEAN
  /\ tx_full \in BOOLEAN /\ tx_reaped \in BOOLEAN
  /\ internal_tx_errors \in BOOLEAN
  /\ x_des \in BOOLEAN /\ tfint \in BOOLEAN /\ queued \in BOOLEAN
  /\ nic \in {"idle", "frame", "update"}

(* Every variable keeps its type (the fields of mx6q_dev_t, the descriptor  *)
(* bits and the registers the transmit path uses); the indices stay below   *)
(* num_tx_descriptors and tx_descr_inuse between 0 and num_tx_descriptors.  *)
TypeOK == ThreadType /\ RingType /\ FlagType

(* tx_descr_inuse, kept by += and --, always agrees with the two indices,   *)
(* and never reaches num_tx_descriptors, where tx_pidx = tx_cidx would make *)
(* mx6q_transmit_complete take a full ring for an empty one.                *)
RingCount == inuse = Dist(cidx, pidx)

(* Whoever is between the first and the last line of mx6q_start, mx6q_tx or *)
(* mx6q_stop's cleaning holds if_snd_ex.                                    *)
LockHeld ==
  \A t \in Threads : pc[t] \notin {"idle", "loop", "stop1"} => lock = t

(* transmit.c: "this should NEVER happen": mx6q_tx finds a descriptor still *)
(* READY where the ring is supposed to be free.                             *)
NeverHitsEnd == ~ internal_tx_errors

(* The NIC never walks past tx_pidx: outside the window from its index to   *)
(* the producer's no descriptor is READY, so it never sends a stale buffer. *)
NicInWindow ==
  /\ Dist(cidx, hw) <= inuse
  /\ \A i \in Idx : bd_R[i] => Dist(hw, i) < Dist(hw, pidx)

(* A frame handed to the NIC of a running interface is eventually fetched,  *)
(* although the NIC may drop X_DES_ACTIVE early (ERR006358 workaround).     *)
FramesLeave ==
  \A i \in Idx : (bd_R[i] /\ running) ~> (~ bd_R[i] \/ ~ running)

(* The mbuf of a packet is eventually freed even when nothing more is sent: *)
(* that is what the periodic cleaning of the ring is for.                   *)
MbufsFreed == \A i \in Idx : tx_pkts[i] ~> ~ tx_pkts[i]

(* transmit.c: "Leave IFF_OACTIVE so the stack doesn't call us again and    *)
(* mark the queue as full so we can try again on a Tx completion interrupt":*)
(* packets left in if_snd behind IFF_OACTIVE are eventually sent.           *)
TxResumes == (oactive /\ if_snd # << >>) ~> (~ oactive \/ if_snd = << >>)
=============================================================================
