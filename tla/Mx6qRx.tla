------------------------------- MODULE Mx6qRx -------------------------------
(***************************************************************************)
(* Receive side of the i.MX6 ENET driver (devnp-mx6x: receive.c, the Rx    *)
(* half of event.c, mx6q_rx_thread, mx6q_init and mx6q_stop of detect.c).  *)
(*                                                                         *)
(* The interrupt handler masks the Rx interrupt and pulses the Rx thread;  *)
(* that thread empties the descriptor ring into rx_queue; an io-pkt thread *)
(* empties rx_queue into the stack.  The NIC fills the ring all the while. *)
(* The build for this board has one receive queue.                         *)
(*                                                                         *)
(* Every buffer holds one unit of data: a frame of k units is the k        *)
(* fragments [pos |-> 1 .. k, of |-> k].  As on the ENET, the length the   *)
(* NIC writes to a descriptor is the buffer's, but for the last one of a   *)
(* frame, where it is the frame's.                                         *)
(***************************************************************************)
EXTENDS Naturals, Sequences

CONSTANTS
  N,               \* num_rx_descriptors
  MaxLen,          \* ifq_maxlen of rx_queue
  Frames,          \* lengths of the frames on the wire
  FlowModes,       \* may flow_status be other than MX6_FLOW_NONE?
  MaxStops         \* bound: stops of the interface

ASSUME RxAssumption ==
  /\ N \in Nat \ {0} /\ MaxLen \in Nat \ {0}
  /\ Frames \subseteq Nat \ {0}
  /\ FlowModes \subseteq BOOLEAN /\ MaxStops \in Nat

VARIABLES
  rx_bd,        \* descriptors: Empty (RXBD_E) or the fragment received
  rx_cidx,
  rpkt, length, \* the chain being put together, the lengths added up so far
  done,         \* the packet that is complete and on its way up, or NoPkt
  rpc,          \* where mx6q_rx_thread is
  pulses,       \* pulses waiting for it
  rx_queue, rx_running, rx_full,
  rx_mutex,     \* "free", or held by the io-pkt thread across its two calls
  listed,       \* is inter_queue on io-pkt's list?
  qpc,          \* where the io-pkt thread is
  running,      \* IFF_RUNNING, ECNTRL_SLEEP off
  flow,         \* flow_status # MX6_FLOW_NONE
  rfint, rfien, \* IEVENT_RFINT, IMASK_RFIEN
  r_des,        \* R_DES_ACTIVE register
  hw, nic,      \* the NIC: its next descriptor, the next fragment or NoFrag
  stops,
  cut,          \* history: the buffers of the frame at hand that were given
                \* back because there was no mbuf, and all before them
  orphan        \* history: mx6q_enable_queue met rx_full on an interface that
                \* was stopped, and forgot it

ring == <<rx_bd, rx_cidx>>
pkt  == <<rpkt, length, done, cut>>
que  == <<rx_queue, rx_running, rx_full, rx_mutex>>
ifc  == <<running, flow, stops, orphan>>
irq  == <<rfint, rfien, pulses>>
dev  == <<r_des, hw, nic>>
vars == <<ring, pkt, rpc, que, listed, qpc, ifc, irq, dev>>

Idx    == 0 .. N - 1
Empty  == [full |-> FALSE]
NoFrag == [pos |-> 0, of |-> 0]
Frag   == [pos : Nat, of : Nat]
NoPkt  == [frags |-> << >>, len |-> 0, tail |-> 0]

NEXT_RX(i) == IF i = N - 1 THEN 0 ELSE i + 1

(* The length the NIC wrote with fragment f. *)
BdLength(f) == IF f.pos = f.of THEN f.of ELSE 1
-----------------------------------------------------------------------------
(* Slip: the interrupt stays open. *)
IsrNoMask ==
  /\ rfint /\ rfien
  /\ pulses' = pulses + 1
  /\ UNCHANGED <<ring, pkt, rpc, que, listed, qpc, ifc, rfint, rfien, dev>>

(* mx6q_isr on IEVENT_RFINT: mask, then pulse the Rx thread. *)
Isr ==
  /\ rfint /\ rfien
  /\ rfien' = FALSE /\ pulses' = pulses + 1
  /\ UNCHANGED <<ring, pkt, rpc, que, listed, qpc, ifc, rfint, dev>>

(* mx6q_rx_thread takes a pulse and acknowledges the interrupt. *)
RxPulse ==
  /\ rpc = "wait" /\ pulses > 0
  /\ pulses' = pulses - 1 /\ rfint' = FALSE /\ rpc' = "recv"
  /\ UNCHANGED <<ring, pkt, que, listed, qpc, ifc, rfien, dev>>

(***************************************************************************)
(* mx6q_receive.  One turn of its loop takes the descriptor at rx_cidx:    *)
(* a descriptor still empty ends the loop; an error, or a failed           *)
(* allocation with any of the buffers, gives the buffer back to the NIC    *)
(* and discards the packet begun.                                          *)
(***************************************************************************)
GiveBack ==
  /\ rx_bd' = [rx_bd EXCEPT ![rx_cidx] = Empty]
  /\ rx_cidx' = NEXT_RX(rx_cidx)

RecvEmpty ==
  /\ rpc = "recv" /\ ~ rx_bd[rx_cidx].full
  /\ rpc' = "restart"
  /\ UNCHANGED <<ring, pkt, que, listed, qpc, ifc, irq, dev>>

(* Slip: the packet begun is kept. *)
RecvErrorKeepsBegun ==
  /\ rpc = "recv" /\ rx_bd[rx_cidx].full
  /\ GiveBack
  /\ LET f == rx_bd[rx_cidx].frag IN cut' = IF f.pos = f.of THEN 0 ELSE f.pos
  /\ UNCHANGED <<rpkt, length, done, rpc, que, listed, qpc, ifc, irq, dev>>

RecvError ==
  /\ rpc = "recv" /\ rx_bd[rx_cidx].full
  /\ GiveBack
  /\ rpkt' = << >> /\ length' = 0
  /\ LET f == rx_bd[rx_cidx].frag IN cut' = IF f.pos = f.of THEN 0 ELSE f.pos
  /\ UNCHANGED <<done, rpc, que, listed, qpc, ifc, irq, dev>>

Received(bd) == bd.full /\ ~ bd.err

(* The buffer joins the chain; the NIC gets a new one. *)
RecvFrag ==
  /\ rpc = "recv" /\ Received(rx_bd[rx_cidx])
  /\ LET f == rx_bd[rx_cidx].frag IN
     /\ f.pos # f.of
     /\ rpkt' = Append(rpkt, f) /\ length' = length + BdLength(f)
  /\ GiveBack
  /\ UNCHANGED <<done, cut, rpc, que, listed, qpc, ifc, irq, dev>>

(* The last buffer completes the packet: its lengths are fixed. *)
Finish(f) == [frags |-> Append(rpkt, f), len |-> BdLength(f),
              tail |-> BdLength(f) - length]

RecvLast ==
  /\ rpc = "recv" /\ Received(rx_bd[rx_cidx])
  /\ LET f == rx_bd[rx_cidx].frag IN f.pos = f.of /\ done' = Finish(f)
  /\ GiveBack
  /\ rpc' \in {"input", "queue"}
  /\ UNCHANGED <<rpkt, length, cut, que, listed, qpc, ifc, irq, dev>>

(* Nothing of the packet is left in the driver. *)
NextPacket == rpkt' = << >> /\ length' = 0 /\ done' = NoPkt /\ cut' = 0

(* A 1722 packet goes straight up. *)
RecvInput ==
  /\ rpc = "input"
  /\ NextPacket
  /\ rpc' = "recv"
  /\ UNCHANGED <<ring, que, listed, qpc, ifc, irq, dev>>

(***************************************************************************)
(* Any other packet goes to rx_queue under rx_mutex: enqueue (or drop),    *)
(* wake the stack unless it is at work, and with flow control stop short   *)
(* of overflowing the queue.                                               *)
(***************************************************************************)
QueueFull == Len(rx_queue) >= MaxLen

Backlog(q) == flow /\ Len(q) >= MaxLen - 1

(* Slip: the early return does not record the queue as full. *)
RecvQueueForgetsFull ==
  /\ rpc = "queue" /\ rx_mutex = "free"
  /\ IF QueueFull
     THEN UNCHANGED <<rx_queue, rx_running, listed>>
     ELSE /\ rx_queue' = Append(rx_queue, done) /\ rx_running' = TRUE
          /\ listed' = (listed \/ ~ rx_running)
  /\ NextPacket
  /\ rpc' = IF Backlog(rx_queue') THEN "wait" ELSE "recv"
  /\ UNCHANGED <<ring, rx_full, rx_mutex, qpc, ifc, irq, dev>>

RecvQueue ==
  /\ rpc = "queue" /\ rx_mutex = "free"
  /\ IF QueueFull
     THEN UNCHANGED <<rx_queue, rx_running, listed>>
     ELSE /\ rx_queue' = Append(rx_queue, done) /\ rx_running' = TRUE
          /\ listed' = (listed \/ ~ rx_running)
  /\ NextPacket
  /\ rx_full' = (rx_full \/ Backlog(rx_queue'))
  /\ rpc' = IF Backlog(rx_queue') THEN "wait" ELSE "recv"
  /\ UNCHANGED <<ring, rx_mutex, qpc, ifc, irq, dev>>

(* The end of mx6q_receive: restart the NIC; then its caller unmasks. *)
RecvRestart ==
  /\ rpc = "restart"
  /\ r_des' = (r_des \/ running) /\ rpc' = "unmask"
  /\ UNCHANGED <<ring, pkt, que, listed, qpc, ifc, irq, hw, nic>>

(* Slip: the interrupt acknowledged after the ring was looked at. *)
RxUnmaskAcks ==
  /\ rpc = "unmask"
  /\ rfien' = TRUE /\ rfint' = FALSE /\ rpc' = "wait"
  /\ UNCHANGED <<ring, pkt, que, listed, qpc, ifc, pulses, dev>>

RxUnmask ==
  /\ rpc = "unmask"
  /\ rfien' = TRUE /\ rpc' = "wait"
  /\ UNCHANGED <<ring, pkt, que, listed, qpc, ifc, rfint, pulses, dev>>

-----------------------------------------------------------------------------
(* io-pkt takes inter_queue off its list and calls mx6q_process_queue. *)
QueueBegin ==
  /\ qpc = "idle" /\ listed
  /\ listed' = FALSE /\ qpc' = "process"
  /\ UNCHANGED <<ring, pkt, rpc, que, ifc, irq, dev>>

(* Slip: the mutex released when the queue is found empty. *)
ProcessQueueUnlocks ==
  /\ qpc = "process" /\ rx_mutex = "free"
  /\ IF rx_queue # << >>
     THEN rx_queue' = Tail(rx_queue) /\ UNCHANGED qpc
     ELSE qpc' = "enable" /\ UNCHANGED rx_queue
  /\ UNCHANGED <<ring, pkt, rpc, rx_running, rx_full, rx_mutex, listed, ifc, irq,
                 dev>>

(* mx6q_process_queue: one packet up, or leave with the mutex locked. *)
ProcessQueue ==
  /\ qpc = "process" /\ rx_mutex = "free"
  /\ IF rx_queue # << >>
     THEN rx_queue' = Tail(rx_queue) /\ UNCHANGED <<rx_mutex, qpc>>
     ELSE /\ rx_mutex' = "stack" /\ qpc' = "enable"
          /\ UNCHANGED rx_queue
  /\ UNCHANGED <<ring, pkt, rpc, rx_running, rx_full, listed, ifc, irq, dev>>

(* The history of mx6q_enable_queue on a stopped interface. *)
Forget == orphan' = (orphan \/ (rx_full /\ ~ running))

(* Slip: the interrupt opened whether or not the queue was full. *)
EnableQueueAlways ==
  /\ qpc = "enable"
  /\ rfien' = (rfien \/ running)
  /\ r_des' = (r_des \/ (running /\ rx_full))
  /\ rx_full' = FALSE /\ rx_running' = FALSE /\ rx_mutex' = "free"
  /\ qpc' = "idle" /\ Forget
  /\ UNCHANGED <<ring, pkt, rpc, rx_queue, listed, running, flow, stops, rfint,
                 pulses, hw, nic>>

(* Slip: rx_full cleared before it is tested. *)
EnableQueueClearsFirst ==
  /\ qpc = "enable"
  /\ rx_full' = FALSE /\ rx_running' = FALSE /\ rx_mutex' = "free"
  /\ qpc' = "idle" /\ Forget
  /\ UNCHANGED <<ring, pkt, rpc, rx_queue, listed, running, flow, stops, irq, dev>>

(* mx6q_enable_queue: undo what a full queue stopped, unlock. *)
EnableQueue ==
  /\ qpc = "enable"
  /\ rfien' = (rfien \/ (running /\ rx_full))
  /\ r_des' = (r_des \/ (running /\ rx_full))
  /\ rx_full' = FALSE /\ rx_running' = FALSE /\ rx_mutex' = "free"
  /\ qpc' = "idle" /\ Forget
  /\ UNCHANGED <<ring, pkt, rpc, rx_queue, listed, running, flow, stops, rfint,
                 pulses, hw, nic>>

-----------------------------------------------------------------------------
(* mx6q_stop and mx6q_init, as far as reception goes. *)
Stop ==
  /\ running /\ stops < MaxStops
  /\ running' = FALSE /\ stops' = stops + 1
  /\ UNCHANGED <<ring, pkt, rpc, que, listed, qpc, flow, orphan, irq, dev>>

Init_ ==
  /\ ~ running
  /\ running' = TRUE /\ r_des' = TRUE
  /\ UNCHANGED <<ring, pkt, rpc, que, listed, qpc, flow, stops, orphan,
                 irq, hw, nic>>

-----------------------------------------------------------------------------
(***************************************************************************)
(* The NIC (external): it puts a frame into the ring one buffer after the  *)
(* other; errors are reported with the last one, and then RFINT is raised. *)
(* A frame that meets a full ring stays in the FIFO until R_DES_ACTIVE is  *)
(* written again.  Asleep, it only finishes the frame it is in.            *)
(***************************************************************************)
NicFill(f, err) ==
  /\ r_des /\ ~ rx_bd[hw].full
  /\ rx_bd' = [rx_bd EXCEPT ![hw] = [full |-> TRUE, frag |-> f, err |-> err]]
  /\ hw' = NEXT_RX(hw)
  /\ nic' = IF f.pos = f.of THEN NoFrag ELSE [f EXCEPT !.pos = f.pos + 1]
  /\ rfint' = (rfint \/ f.pos = f.of)
  /\ UNCHANGED <<rx_cidx, pkt, rpc, que, listed, qpc, ifc, rfien, pulses,
                 r_des>>

NicReceive ==
  \/ /\ nic = NoFrag /\ running
     /\ \E k \in Frames, err \in BOOLEAN :
          /\ err => k = 1
          /\ NicFill([pos |-> 1, of |-> k], err)
  \/ /\ nic # NoFrag
     /\ \E err \in BOOLEAN : (err => nic.pos = nic.of) /\ NicFill(nic, err)

NicStall ==
  /\ r_des /\ rx_bd[hw].full
  /\ r_des' = FALSE
  /\ UNCHANGED <<ring, pkt, rpc, que, listed, qpc, ifc, irq, hw, nic>>

-----------------------------------------------------------------------------
Init ==
  /\ rx_bd = [i \in Idx |-> Empty] /\ rx_cidx = 0
  /\ rpkt = << >> /\ length = 0 /\ done = NoPkt
  /\ rpc = "wait" /\ pulses = 0
  /\ rx_queue = << >> /\ rx_running = FALSE /\ rx_full = FALSE
  /\ rx_mutex = "free" /\ listed = FALSE /\ qpc = "idle"
  /\ running = TRUE /\ flow \in FlowModes /\ stops = 0
  /\ rfint = FALSE /\ rfien = TRUE
  /\ r_des = TRUE /\ hw = 0 /\ nic = NoFrag
  /\ cut = 0 /\ orphan = FALSE

RxThread ==
  \/ RxPulse \/ RecvEmpty \/ RecvError \/ RecvFrag \/ RecvLast \/ RecvInput
  \/ RecvQueue \/ RecvRestart \/ RxUnmask

StackThread == QueueBegin \/ ProcessQueue \/ EnableQueue

Next ==
  \/ Isr
  \/ RxPulse \/ RecvEmpty \/ RecvError \/ RecvFrag \/ RecvLast \/ RecvInput
  \/ RecvQueue \/ RecvRestart \/ RxUnmask
  \/ QueueBegin \/ ProcessQueue \/ EnableQueue
  \/ Stop \/ Init_
  \/ NicReceive \/ NicStall

(***************************************************************************)
(* Fairness: an unmasked interrupt is taken and the two threads run.  The  *)
(* Rx thread may lose the race for rx_mutex any number of times, but not   *)
(* for ever.  Nobody has to send frames, stop or start.                    *)
(***************************************************************************)
Fairness ==
  WF_vars(Isr) /\ WF_vars(RxThread) /\ SF_vars(RecvQueue) /\ WF_vars(StackThread)

Spec     == Init /\ [][Next]_vars
FairSpec == Spec /\ Fairness
-----------------------------------------------------------------------------
Descriptor == {Empty} \cup [full : {TRUE}, frag : Frag, err : BOOLEAN]
Packet     == [frags : Seq(Frag), len : Nat, tail : Nat]

(* Every variable keeps its type; rx_queue never grows past ifq_maxlen and  *)
(* the interrupt is masked before the thread is pulsed, so one pulse waits  *)
(* at the most.                                                             *)
TypeOK ==
  /\ rx_bd \in [Idx -> Descriptor] /\ rx_cidx \in Idx /\ hw \in Idx
  /\ rpkt \in Seq(Frag) /\ length \in Nat /\ done \in Packet
  /\ rpc \in {"wait", "recv", "input", "queue", "restart", "unmask"}
  /\ pulses \in 0 .. 1
  /\ rx_queue \in Seq(Packet) /\ Len(rx_queue) <= MaxLen
  /\ rx_mutex \in {"free", "stack"} /\ qpc \in {"idle", "process", "enable"}
  /\ nic \in Frag /\ cut \in Nat
  /\ \A b \in {rx_running, rx_full, listed, running, flow, rfint, rfien, r_des,
              orphan} : b \in BOOLEAN

(* A packet that goes up to the stack is made of one frame only: buffers of  *)
(* one frame, in their order and up to its last one, and the lengths of the  *)
(* mbufs add up to m_pkthdr.len, the frame's length.  All that can be        *)
(* missing is its beginning, up to a buffer of this very frame for which     *)
(* mx6q_receive had no mbuf; the last m_len counts the missing part as well. *)
OneFrame(p, missing) ==
  /\ Len(p.frags) = p.len - missing /\ missing < p.len
  /\ p.tail = p.len - (Len(p.frags) - 1)
  /\ \A i \in DOMAIN p.frags : p.frags[i] = [pos |-> missing + i, of |-> p.len]

NoMixedPackets == rpc \in {"input", "queue"} => OneFrame(done, cut)

(* receive.c:125, "Half way through a packet, discard it all": what goes up  *)
(* to the stack is a whole frame.  Not so: the buffers that follow the one   *)
(* with the failed allocation are taken for a packet of their own.           *)
OnlyWholeFrames == rpc \in {"input", "queue"} => OneFrame(done, 0)

(* Packets never sit in rx_queue with nobody at work on it: whenever the Rx *)
(* thread finds rx_running set, an io-pkt thread still is to look at the    *)
(* queue again.                                                             *)
QueueServed ==
  /\ rx_queue # << >> => rx_running
  /\ rx_running => (listed \/ qpc # "idle")

(* Somebody is going to unmask the Rx interrupt: the Rx thread or, after a   *)
(* full queue, mx6q_enable_queue.                                            *)
HasOwner == pulses > 0 \/ rpc # "wait" \/ (rx_full /\ rx_running)

(* A masked Rx interrupt always has somebody who is going to unmask it, over *)
(* stops and restarts, but for one event: mx6q_enable_queue has met rx_full  *)
(* on a stopped interface (event.c:53-72).                                   *)
MaskedHasOwner == ~ rfien => HasOwner \/ orphan

(* receive.c:236, "return 0 so the interrupt isn't enabled until the queue   *)
(* is drained": once it is drained, a running interface has its interrupt    *)
(* enabled, or somebody who will enable it.  Not so after that event.        *)
EnabledWhenDrained == running /\ ~ rfien => HasOwner

(* The interrupt is unmasked only while the Rx thread has finished with the *)
(* ring: two pulses never make it race with itself, and a pulse is never    *)
(* waiting while the interrupt is open.                                     *)
MaskedWhileBusy ==
  pulses > 0 \/ rpc # "wait" => ~ rfien

(* Without flow control every descriptor the NIC has filled is taken and    *)
(* given back, even if no further frame arrives.                            *)
RingEmptied ==
  \A i \in Idx : (~ flow /\ rx_bd[i].full /\ nic = NoFrag) ~> ~ rx_bd[i].full

(* receive.c: "Stop receiving and return 0 so the interrupt isn't enabled   *)
(* until the queue is drained": the stop for a full queue is lifted again,  *)
(* because the stack drains the queue while the Rx thread adds nothing; the *)
(* exception is the event of MaskedHasOwner.                                *)
FlowStopLifted == rx_full ~> (rfien \/ orphan)
=============================================================================
