---------------------------- MODULE Mx6qRxProofs ----------------------------
(***************************************************************************)
(* Proofs about Mx6qRx, for every size of the ring and of rx_queue and     *)
(* every choice of frame lengths: the types, that rx_queue is served, that *)
(* the Rx interrupt is masked while it must be and not for good, and that  *)
(* no packet mixes two frames, wherever an allocation fails.               *)
(***************************************************************************)
EXTENDS Mx6qRx, TLAPS

(***************************************************************************)
(* Who holds what: mx6q_process_queue leaves rx_mutex locked and rx_queue  *)
(* empty; rx_full is the state between the early return of mx6q_receive    *)
(* and mx6q_enable_queue, in which the Rx thread has nothing to do.        *)
(***************************************************************************)
Control ==
  /\ qpc = "enable" => rx_queue = << >> /\ rx_mutex = "stack"
  /\ rx_full => rpc = "wait" /\ pulses = 0 /\ ~rfien /\ flow /\ rx_running
  /\ pulses # 0 => rpc = "wait"
  /\ stops \in Nat

(***************************************************************************)
(* A frame keeps its order on its way through the ring: the descriptors    *)
(* from rx_cidx up to the NIC's are full and the others empty; each        *)
(* fragment goes before the next one of its frame, and the last of a frame *)
(* before the first of another one.                                        *)
(***************************************************************************)
InUse(i) ==
  IF rx_cidx < hw THEN rx_cidx <= i /\ i < hw
  ELSE IF hw < rx_cidx THEN rx_cidx <= i \/ i < hw
  ELSE rx_bd[rx_cidx].full

IsFrag(f) == f \in Frag /\ 1 <= f.pos /\ f.pos <= f.of

Follows(f, g) ==
  IF f.pos = f.of THEN g.pos = 1 ELSE g.pos = f.pos + 1 /\ g.of = f.of

RingShape ==
  \A i \in Idx :
    /\ rx_bd[i].full <=> InUse(i)
    /\ rx_bd[i].full => /\ IsFrag(rx_bd[i].frag)
                        /\ rx_bd[i].err => rx_bd[i].frag.pos = rx_bd[i].frag.of

RingOrder ==
  \A i \in Idx :
    rx_bd[i].full =>
      IF NEXT_RX(i) # hw THEN Follows(rx_bd[i].frag, rx_bd[NEXT_RX(i)].frag)
      ELSE IF rx_bd[i].frag.pos = rx_bd[i].frag.of THEN nic = NoFrag
      ELSE Follows(rx_bd[i].frag, nic)

(* mx6q_receive has a complete packet in its hands. *)
Delivering == rpc \in {"input", "queue"}

(***************************************************************************)
(* What comes next, from the ring or from the NIC, continues the chain     *)
(* that mx6q_receive is putting together, after what it discarded of the   *)
(* same frame.                                                             *)
(***************************************************************************)
Continues(f) ==
  f.pos = cut + length + 1 /\ (length # 0 => f.of = rpkt[1].of)

ChainNext ==
  LET f == IF rx_bd[rx_cidx].full THEN rx_bd[rx_cidx].frag ELSE nic
  IN  IF f = NoFrag THEN Delivering \/ (length = 0 /\ cut = 0)
      ELSE IF Delivering THEN f.pos = 1 ELSE Continues(f)

ChainShape ==
  /\ nic = NoFrag \/ IsFrag(nic)
  /\ length = Len(rpkt)
  /\ \A i \in 1 .. Len(rpkt) : rpkt[i].pos = cut + i /\ rpkt[i].of = rpkt[1].of
  /\ NoMixedPackets

RxInv ==
  /\ TypeOK /\ QueueServed /\ MaskedWhileBusy /\ MaskedHasOwner /\ Control
  /\ RingShape /\ RingOrder /\ ChainShape /\ ChainNext
-----------------------------------------------------------------------------
USE RxAssumption

(* TypeOK in parts, for the provers. *)
RingOK == rx_bd \in [Idx -> Descriptor] /\ rx_cidx \in Idx /\ hw \in Idx

PktOK == rpkt \in Seq(Frag) /\ length \in Nat /\ nic \in Frag /\ cut \in Nat

PlacesOK ==
  /\ rpc \in {"wait", "recv", "input", "queue", "restart", "unmask"}
  /\ pulses \in 0 .. 1
  /\ rx_mutex \in {"free", "stack"} /\ qpc \in {"idle", "process", "enable"}

QueueOK == rx_queue \in Seq(Packet) /\ Len(rx_queue) <= MaxLen

FlagsOK ==
  /\ rx_running \in BOOLEAN /\ rx_full \in BOOLEAN /\ listed \in BOOLEAN
  /\ running \in BOOLEAN /\ flow \in BOOLEAN /\ rfint \in BOOLEAN
  /\ rfien \in BOOLEAN /\ r_des \in BOOLEAN /\ orphan \in BOOLEAN

(* The parts of TypeOK, of the state of mx6q_receive and its neighbours, are *)
(* the whole of it.                                                          *)
LEMMA TypeParts ==
  TypeOK <=> RingOK /\ PktOK /\ done \in Packet /\ PlacesOK /\ QueueOK /\ FlagsOK
BY DEF TypeOK, RingOK, PktOK, PlacesOK, QueueOK, FlagsOK

(* The same after a step. *)
LEMMA TypePartsPrimed ==
  TypeOK' <=> /\ RingOK' /\ PktOK' /\ done' \in Packet
              /\ PlacesOK' /\ QueueOK' /\ FlagsOK'
BY DEF TypeOK, RingOK, PktOK, PlacesOK, QueueOK, FlagsOK

(* NEXT_RX stays in the ring and two descriptors have two successors. *)
LEMMA NextRx ==
  /\ \A i \in Idx : NEXT_RX(i) \in Idx
  /\ \A i, j \in Idx : NEXT_RX(i) = NEXT_RX(j) => i = j
BY DEF Idx, NEXT_RX

(* A descriptor is empty or has a fragment. *)
LEMMA Descriptors ==
  ASSUME NEW d \in Descriptor
  PROVE  /\ d.full \in BOOLEAN
         /\ d.full => d.frag \in Frag /\ d.err \in BOOLEAN
<1>1. CASE d = Empty
  BY <1>1 DEF Empty
<1>2. CASE d \in [full : {TRUE}, frag : Frag, err : BOOLEAN]
  <2>1. d.full \in {TRUE} /\ d.frag \in Frag /\ d.err \in BOOLEAN
    BY <1>2
  <2> QED
    BY <2>1
<1> QED
  BY <1>1, <1>2 DEF Descriptor
-----------------------------------------------------------------------------
(***************************************************************************)
(* Control: the masking of the interrupt, rx_queue and rx_full.            *)
(***************************************************************************)
ControlInv == QueueServed /\ MaskedWhileBusy /\ MaskedHasOwner /\ Control

(* The interrupt handler, the Rx thread, the io-pkt thread, mx6q_stop and    *)
(* mx6q_init keep the protocol of rx_full, rx_running and IMASK_RFIEN.       *)
LEMMA ControlStep == TypeOK /\ ControlInv /\ [Next]_vars => ControlInv'
<1> SUFFICES ASSUME TypeOK, ControlInv, [Next]_vars PROVE ControlInv'
  OBVIOUS
<1> USE DEF TypeOK, ControlInv, QueueServed, MaskedWhileBusy, Control,
            MaskedHasOwner, HasOwner, ring, pkt, que, ifc, irq, dev
<1>1. CASE Isr
  BY <1>1 DEF Isr
<1>2. CASE RxPulse
  BY <1>2 DEF RxPulse
<1>3. CASE RecvEmpty \/ RecvError \/ RecvFrag \/ RecvLast \/ RecvInput
  BY <1>3 DEF RecvEmpty, RecvError, RecvFrag, RecvLast, RecvInput
<1>4. CASE RecvQueue
  <2> USE <1>4 DEF RecvQueue, QueueFull, Backlog
  <2>1. rx_queue' # << >> /\ rx_running' = TRUE
    <3>1. rx_queue \in Seq(Packet) /\ MaxLen \in Nat \ {0}
      OBVIOUS
    <3>2. CASE Len(rx_queue) >= MaxLen
      BY <3>1, <3>2
    <3>3. CASE ~(Len(rx_queue) >= MaxLen)
      BY <3>1, <3>3
    <3> QED
      BY <3>2, <3>3
  <2>2. qpc' # "enable" /\ (listed' \/ qpc' # "idle")
    <3>1. rx_queue \in Seq(Packet) /\ MaxLen \in Nat \ {0}
      OBVIOUS
    <3>2. Len(rx_queue) >= MaxLen => rx_queue # << >>
      BY <3>1
    <3>3. qpc # "enable" /\ qpc' = qpc
      OBVIOUS
    <3>4. CASE Len(rx_queue) >= MaxLen
      BY <3>2, <3>3, <3>4
    <3>5. CASE ~(Len(rx_queue) >= MaxLen)
      BY <3>3, <3>5
    <3> QED
      BY <3>3, <3>4, <3>5
  <2>3. ~rfien' /\ pulses' = 0
    OBVIOUS
  <2>4. rx_full' => flow' /\ rpc' = "wait"
    OBVIOUS
  <2>5. rpc' = "wait" => rx_full'
    OBVIOUS
  <2> QED
    BY <2>1, <2>2, <2>3, <2>4, <2>5
<1>5. CASE RecvRestart \/ RxUnmask
  BY <1>5 DEF RecvRestart, RxUnmask
<1>6. CASE QueueBegin
  BY <1>6 DEF QueueBegin
<1>7. CASE ProcessQueue
  BY <1>7 DEF ProcessQueue
<1>8. CASE EnableQueue
  BY <1>8 DEF EnableQueue, Forget
<1>9. CASE Stop \/ Init_
  BY <1>9 DEF Stop, Init_
<1>10. CASE NicReceive
  <2>1. UNCHANGED <<pkt, rpc, que, listed, qpc, ifc, rfien, pulses>>
    BY <1>10 DEF NicReceive, NicFill
  <2> QED
    BY <2>1
<1>11. CASE NicStall \/ UNCHANGED vars
  BY <1>11 DEF NicStall, vars
<1> QED
  BY <1>1, <1>2, <1>3, <1>4, <1>5, <1>6, <1>7, <1>8, <1>9, <1>10, <1>11
     DEF Next
-----------------------------------------------------------------------------
(***************************************************************************)
(* Data: the fragments in the ring and in the chain.                       *)
(***************************************************************************)
DataInv == RingShape /\ RingOrder /\ ChainShape /\ ChainNext

(* The steps that touch neither the ring nor the packet. *)
DataIdle ==
  UNCHANGED <<rx_bd, rx_cidx, hw, nic, rpkt, length, done, cut, Delivering>>

(* They keep what is said of the ring and of the packet of mx6q_receive. *)
LEMMA IdleStep == DataInv /\ DataIdle => DataInv'
BY DEF DataInv, DataIdle, RingShape, RingOrder, ChainShape, ChainNext, InUse,
       NoMixedPackets, Delivering, Continues

(* NicFill fills the first empty descriptor of the ring. *)
LEMMA FillRing ==
  ASSUME TypeOK, DataInv,
         NEW f \in Frag, NEW err \in BOOLEAN, IsFrag(f),
         err => f.pos = f.of,
         \/ nic = NoFrag /\ f.pos = 1
         \/ nic # NoFrag /\ f = nic,
         NicFill(f, err)
  PROVE  DataInv'
<1> USE DEF DataInv, NicFill, pkt
<1>1. RingOK /\ PktOK
  BY TypeParts
<1>2. hw' \in Idx /\ hw' = NEXT_RX(hw) /\ rx_bd'[hw].full
      /\ rx_bd'[hw].frag = f /\ rx_bd'[hw].err = err
      /\ \A i \in Idx \ {hw} : rx_bd'[i] = rx_bd[i]
  BY <1>1, NextRx DEF RingOK
<1>3. RingShape'
  BY <1>1 DEF RingOK, RingShape, InUse, Idx, NEXT_RX
<1>4. IF f.pos = f.of THEN nic' = NoFrag
      ELSE Follows(f, nic') /\ nic' # NoFrag /\ IsFrag(nic')
  BY DEF IsFrag, Frag, Follows, NoFrag
<1>5. RingOrder'
  <2> SUFFICES ASSUME NEW i \in Idx, rx_bd'[i].full
               PROVE  IF NEXT_RX(i) # hw'
                      THEN Follows(rx_bd'[i].frag, rx_bd'[NEXT_RX(i)].frag)
                      ELSE IF rx_bd'[i].frag.pos = rx_bd'[i].frag.of
                           THEN nic' = NoFrag
                           ELSE Follows(rx_bd'[i].frag, nic')
    BY DEF RingOrder, Follows
  <2>1. CASE i = hw
    BY <2>1, <1>2, <1>4
  <2>2. CASE i # hw
    <3>1. NEXT_RX(i) # hw' /\ rx_bd[i].full /\ rx_bd'[i] = rx_bd[i]
      BY <2>2, <1>1, <1>2, NextRx DEF RingOK
    <3>2. CASE NEXT_RX(i) = hw
      <4>1. IsFrag(rx_bd[i].frag) /\ rx_bd'[hw].frag = f
        BY <3>1, <1>2 DEF RingShape
      <4>2. CASE rx_bd[i].frag.pos = rx_bd[i].frag.of
        BY <3>1, <3>2, <4>1, <4>2 DEF RingOrder, Follows
      <4>3. CASE rx_bd[i].frag.pos # rx_bd[i].frag.of
        <5>1. nic.pos = rx_bd[i].frag.pos + 1
          BY <3>1, <3>2, <4>3 DEF RingOrder, Follows
        <5>2. nic # NoFrag
          BY <5>1, <4>1 DEF IsFrag, Frag, NoFrag
        <5> QED
          BY <3>1, <3>2, <4>1, <4>3, <5>2 DEF RingOrder
      <4> QED
        BY <4>2, <4>3
    <3>3. CASE NEXT_RX(i) # hw
      <4>1. rx_bd'[NEXT_RX(i)] = rx_bd[NEXT_RX(i)]
        BY <3>3, <1>2, NextRx
      <4> QED
        BY <3>1, <3>3, <4>1 DEF RingOrder
    <3> QED
      BY <3>2, <3>3
  <2> QED
    BY <2>1, <2>2
<1>6. ChainShape'
  BY <1>4 DEF ChainShape, NoMixedPackets
<1>7. ChainNext'
  <2>1. CASE rx_cidx = hw
    BY <2>1, <1>1, <1>2 DEF ChainNext, Continues, Delivering, IsFrag, NoFrag
  <2>2. CASE rx_cidx # hw
    <3>1. rx_bd[rx_cidx].full
      BY <2>2, <1>1 DEF RingOK, RingShape, InUse, Idx
    <3>2. rx_bd'[rx_cidx] = rx_bd[rx_cidx]
      BY <2>2, <1>1, <1>2 DEF RingOK
    <3> QED
      BY <3>1, <3>2 DEF ChainNext, Continues, Delivering
  <2> QED
    BY <2>1, <2>2
<1> QED
  BY <1>3, <1>5, <1>6, <1>7

(* GiveBack empties the first full descriptor of the ring. *)
LEMMA GiveBackRing ==
  ASSUME TypeOK, DataInv, rx_bd[rx_cidx].full, GiveBack, UNCHANGED <<hw, nic>>
  PROVE  RingOK' /\ RingShape' /\ RingOrder'
<1> USE DEF DataInv, GiveBack
<1>1. RingOK
  BY TypeParts
<1>2. rx_cidx' = NEXT_RX(rx_cidx) /\ rx_cidx' \in Idx /\ rx_bd'[rx_cidx] = Empty
      /\ \A i \in Idx \ {rx_cidx} : rx_bd'[i] = rx_bd[i]
  BY <1>1, NextRx DEF RingOK
<1>3. RingOK'
  BY <1>1, <1>2 DEF RingOK, Descriptor
<1>4. RingShape'
  BY <1>1 DEF RingOK, RingShape, InUse, Idx, NEXT_RX, Empty
<1>5. RingOrder'
  <2> SUFFICES ASSUME NEW i \in Idx, rx_bd'[i].full
               PROVE  IF NEXT_RX(i) # hw
                      THEN Follows(rx_bd'[i].frag, rx_bd'[NEXT_RX(i)].frag)
                      ELSE IF rx_bd'[i].frag.pos = rx_bd'[i].frag.of
                           THEN nic = NoFrag
                           ELSE Follows(rx_bd'[i].frag, nic)
    BY DEF RingOrder, Follows
  <2>1. i # rx_cidx /\ rx_bd'[i] = rx_bd[i] /\ rx_bd[i].full
    BY <1>1, <1>2 DEF RingOK, Empty
  <2>2. NEXT_RX(i) # hw => NEXT_RX(i) # rx_cidx
    BY <2>1, <1>1 DEF RingOK, RingShape, InUse, Idx, NEXT_RX
  <2>3. NEXT_RX(i) # hw => rx_bd'[NEXT_RX(i)] = rx_bd[NEXT_RX(i)]
    BY <2>2, <1>2, NextRx
  <2> QED
    BY <2>1, <2>3 DEF RingOrder
<1> QED
  BY <1>3, <1>4, <1>5

(* The fragment behind the one that mx6q_receive takes, in the ring or still *)
(* to come from the NIC.                                                     *)
LEMMA GiveBackNext ==
  ASSUME TypeOK, DataInv, rx_bd[rx_cidx].full, GiveBack, UNCHANGED <<hw, nic>>,
         NEW f, f = rx_bd[rx_cidx].frag,
         NEW g, g = IF rx_bd'[rx_cidx'].full THEN rx_bd'[rx_cidx'].frag ELSE nic'
  PROVE  /\ IsFrag(f)
         /\ f.pos = f.of => g = NoFrag \/ g.pos = 1
         /\ f.pos # f.of => g.pos = f.pos + 1 /\ g.of = f.of /\ g # NoFrag
<1> USE DEF DataInv, GiveBack
<1>1. RingOK /\ RingOK' /\ RingShape'
  BY TypeParts, GiveBackRing
<1>2. rx_cidx' = NEXT_RX(rx_cidx) /\ rx_cidx' \in Idx /\ rx_bd'[rx_cidx] = Empty
      /\ \A i \in Idx \ {rx_cidx} : rx_bd'[i] = rx_bd[i]
  BY <1>1, NextRx DEF RingOK
<1>3. IsFrag(f)
  BY <1>1 DEF RingShape, RingOK
<1>4. CASE NEXT_RX(rx_cidx) = hw
  <2>1. ~rx_bd'[rx_cidx'].full
    BY <1>1, <1>2, <1>4 DEF RingOK, RingShape, InUse, Idx, NEXT_RX, Empty
  <2>2. g = nic
    BY <2>1
  <2> QED
    BY <1>1, <1>3, <1>4, <2>2 DEF RingOrder, RingOK, Follows, IsFrag, Frag,
       NoFrag
<1>5. CASE NEXT_RX(rx_cidx) # hw
  <2>1. rx_cidx' # rx_cidx /\ rx_bd'[rx_cidx'].full
    BY <1>1, <1>2, <1>5 DEF RingOK, RingShape, InUse, Idx, NEXT_RX
  <2>2. g = rx_bd[NEXT_RX(rx_cidx)].frag
    BY <1>2, <2>1
  <2> QED
    BY <1>1, <1>3, <1>5, <2>2 DEF RingOrder, RingOK, Follows, IsFrag, Frag,
       NoFrag
<1> QED
  BY <1>3, <1>4, <1>5

(* The fragment at rx_cidx continues the chain. *)
LEMMA FragContinues ==
  ASSUME TypeOK, DataInv, rx_bd[rx_cidx].full, rpc = "recv"
  PROVE  Continues(rx_bd[rx_cidx].frag)
<1>1. IsFrag(rx_bd[rx_cidx].frag)
  BY TypeParts DEF DataInv, RingShape, RingOK
<1>2. rx_bd[rx_cidx].frag # NoFrag
  BY <1>1 DEF IsFrag, NoFrag
<1> QED
  BY <1>2 DEF DataInv, ChainNext, Delivering

(* A discarded packet: mx6q_receive begins again with the next fragment, be  *)
(* it of the same frame or of another one.                                   *)
LEMMA ErrorData == TypeOK /\ DataInv /\ RecvError => DataInv'
<1> SUFFICES ASSUME TypeOK, DataInv, RecvError PROVE DataInv'
  OBVIOUS
<1> USE DEF RecvError, dev
<1>1. RingShape' /\ RingOrder'
  BY GiveBackRing
<1>2. ChainShape'
  BY DEF DataInv, ChainShape, NoMixedPackets
<1>3. ChainNext'
  <2> DEFINE f == rx_bd[rx_cidx].frag
             g == IF rx_bd'[rx_cidx'].full THEN rx_bd'[rx_cidx'].frag ELSE nic'
  <2>1. /\ IsFrag(f)
        /\ f.pos = f.of => g = NoFrag \/ g.pos = 1
        /\ f.pos # f.of => g.pos = f.pos + 1 /\ g.of = f.of /\ g # NoFrag
    BY GiveBackNext
  <2>2. length' = 0 /\ rpc' = "recv" /\ cut' = IF f.pos = f.of THEN 0 ELSE f.pos
    OBVIOUS
  <2>3. f.pos \in Nat
    BY <2>1 DEF IsFrag, Frag
  <2> HIDE DEF f, g
  <2>4. IF g = NoFrag THEN cut' = 0 ELSE g.pos = cut' + length' + 1
    BY <2>1, <2>2, <2>3
  <2> USE DEF g
  <2> QED
    BY <2>2, <2>4 DEF ChainNext, Continues, Delivering
<1> QED
  BY <1>1, <1>2, <1>3 DEF DataInv

(* A fragment joins the chain, and the next one continues it. *)
LEMMA FragData == TypeOK /\ DataInv /\ RecvFrag => DataInv'
<1> SUFFICES ASSUME TypeOK, DataInv, RecvFrag PROVE DataInv'
  OBVIOUS
<1> USE DEF RecvFrag, Received, dev
<1>1. RingShape' /\ RingOrder'
  BY GiveBackRing
<1> DEFINE f == rx_bd[rx_cidx].frag
           g == IF rx_bd'[rx_cidx'].full THEN rx_bd'[rx_cidx'].frag ELSE nic'
<1>2. IsFrag(f) /\ g.pos = f.pos + 1 /\ g.of = f.of /\ g # NoFrag
  BY GiveBackNext
<1>3. Continues(f)
  BY FragContinues
<1>4. /\ rpkt \in Seq(Frag) /\ rpkt' = Append(rpkt, f) /\ length = Len(rpkt)
      /\ length' = length + 1 /\ rpc' = "recv" /\ UNCHANGED <<nic, done, cut>>
  BY DEF BdLength, TypeOK, DataInv, ChainShape
<1>5. f \in Frag
  BY <1>2 DEF IsFrag
<1>6. rpkt'[1].of = IF length = 0 THEN f.of ELSE rpkt[1].of
  BY <1>4, <1>5
<1> HIDE DEF f
<1>7. ChainShape'
  <2>1. length' = Len(rpkt')
    BY <1>4, <1>5
  <2>2. ASSUME NEW i \in 1 .. Len(rpkt')
        PROVE  rpkt'[i].pos = cut + i /\ rpkt'[i].of = rpkt'[1].of
    <3>1. CASE i = Len(rpkt')
      <4>1. rpkt'[i] = f /\ i = length + 1
        BY <1>4, <1>5, <2>1, <3>1
      <4>2. cut \in Nat /\ length \in Nat
        BY DEF TypeOK
      <4>3. f.pos = cut + length + 1
        BY <1>3 DEF Continues
      <4>4. f.pos = cut + i
        BY <4>1, <4>2, <4>3
      <4>5. f.of = rpkt'[1].of
        BY <1>3, <1>6 DEF Continues
      <4> QED
        BY <4>1, <4>4, <4>5
    <3>2. CASE i # Len(rpkt')
      <4>1. i \in 1 .. Len(rpkt) /\ rpkt'[i] = rpkt[i] /\ length # 0
        BY <1>4, <1>5, <2>1, <3>2
      <4> QED
        BY <1>6, <2>2, <4>1 DEF DataInv, ChainShape
    <3> QED
      BY <3>1, <3>2
  <2>3. nic' = NoFrag \/ IsFrag(nic')
    BY <1>4 DEF DataInv, ChainShape
  <2> QED
    BY <1>4, <2>1, <2>2, <2>3 DEF ChainShape, NoMixedPackets
<1>8. g.pos = cut' + length' + 1 /\ g.of = rpkt'[1].of
  <2>1. length \in Nat /\ f.pos \in Nat /\ cut \in Nat
    BY <1>5 DEF TypeOK, Frag
  <2> HIDE DEF g
  <2> QED
    <3>1. f.pos = cut + length + 1 /\ (length # 0 => f.of = rpkt[1].of)
      BY <1>3 DEF Continues
    <3> QED
      BY <1>2, <1>4, <1>6, <2>1, <3>1
<1>9. ChainNext'
  BY <1>2, <1>4, <1>8 DEF ChainNext, Continues, Delivering
<1> QED
  BY <1>1, <1>7, <1>9 DEF DataInv

(* The last fragment completes the frame, and a new one begins behind it. *)
LEMMA LastData == TypeOK /\ DataInv /\ RecvLast => DataInv' /\ done' \in Packet
<1> SUFFICES ASSUME TypeOK, DataInv, RecvLast PROVE DataInv' /\ done' \in Packet
  OBVIOUS
<1> USE DEF RecvLast, Received, dev
<1>1. RingShape' /\ RingOrder'
  BY GiveBackRing
<1> DEFINE f == rx_bd[rx_cidx].frag
           g == IF rx_bd'[rx_cidx'].full THEN rx_bd'[rx_cidx'].frag ELSE nic'
<1>2. IsFrag(f) /\ (g = NoFrag \/ g.pos = 1)
  BY GiveBackNext
<1>3. Continues(f)
  BY FragContinues
<1>4. /\ rpkt \in Seq(Frag) /\ length = Len(rpkt) /\ length \in Nat
      /\ rpc' \in {"input", "queue"} /\ UNCHANGED <<nic, rpkt, length, cut>>
      /\ cut \in Nat
  BY DEF TypeOK, DataInv, ChainShape
<1>5. /\ f \in Frag /\ f.pos = f.of /\ f.pos \in Nat
      /\ done' = [frags |-> Append(rpkt, f), len |-> f.of, tail |-> f.of - length]
  BY <1>2 DEF IsFrag, Finish, BdLength, Frag
<1> HIDE DEF f
<1>6. done' \in Packet
  <2>1. f.of - length \in Nat /\ f.of \in Nat
    BY <1>3, <1>4, <1>5 DEF Continues
  <2>2. Append(rpkt, f) \in Seq(Frag)
    BY <1>4, <1>5
  <2> QED
    BY <1>5, <2>1, <2>2 DEF Packet
<1>7. OneFrame(done', cut)
  <2>1. f.pos = cut + length + 1 /\ (length # 0 => f.of = rpkt[1].of)
    BY <1>3 DEF Continues
  <2>2. Len(Append(rpkt, f)) = f.of - cut /\ cut < f.of
        /\ f.of - length = f.of - (Len(Append(rpkt, f)) - 1)
    BY <1>4, <1>5, <2>1
  <2>3. ASSUME NEW i \in DOMAIN Append(rpkt, f)
        PROVE  Append(rpkt, f)[i] = [pos |-> cut + i, of |-> f.of]
    <3>1. CASE i = length + 1
      <4>1. Append(rpkt, f)[i] = f
        BY <1>4, <1>5, <3>1
      <4>2. f.pos = cut + i
        BY <1>4, <2>1, <3>1
      <4> QED
        BY <1>5, <4>1, <4>2 DEF Frag
    <3>2. CASE i # length + 1
      <4>1. i \in 1 .. Len(rpkt) /\ Append(rpkt, f)[i] = rpkt[i] /\ length # 0
        BY <1>4, <1>5, <2>3, <3>2
      <4>2. rpkt[i] \in Frag /\ rpkt[i].pos = cut + i /\ rpkt[i].of = f.of
        BY <1>4, <2>1, <4>1 DEF DataInv, ChainShape
      <4> QED
        BY <4>1, <4>2 DEF Frag
    <3> QED
      BY <3>1, <3>2
  <2> QED
    BY <1>5, <2>2, <2>3 DEF OneFrame
<1>8. ChainShape'
  BY <1>4, <1>7 DEF DataInv, ChainShape, NoMixedPackets
<1>9. ChainNext'
  BY <1>2, <1>4 DEF ChainNext, Delivering
<1> QED
  BY <1>1, <1>6, <1>8, <1>9 DEF DataInv

(* The packet has gone up: mx6q_receive begins the next one. *)
LEMMA NextData ==
  ASSUME TypeOK, DataInv, Delivering, NextPacket, rpc' \in {"recv", "wait"},
         UNCHANGED <<rx_bd, rx_cidx, hw, nic>>
  PROVE  DataInv'
<1>1. RingShape' /\ RingOrder'
  BY DEF DataInv, RingShape, RingOrder, InUse
<1>2. ChainShape'
  BY DEF DataInv, ChainShape, NextPacket, NoMixedPackets
<1>3. ChainNext'
  BY DEF DataInv, ChainNext, NextPacket, Delivering, Continues
<1> QED
  BY <1>1, <1>2, <1>3 DEF DataInv

(* Every step of the driver and of the NIC keeps the fragments in order. *)
LEMMA DataStep == TypeOK /\ DataInv /\ [Next]_vars => DataInv'
<1> SUFFICES ASSUME TypeOK, DataInv, [Next]_vars PROVE DataInv'
  OBVIOUS
<1> USE DEF ring, pkt, que, ifc, irq, dev
<1>1. CASE Isr \/ QueueBegin \/ ProcessQueue \/ EnableQueue \/ Stop \/ Init_ \/ NicStall
  BY <1>1, IdleStep DEF DataIdle, Delivering, Isr, QueueBegin, ProcessQueue,
     EnableQueue, Stop, Init_, NicStall
<1>2. CASE RxPulse \/ RecvEmpty \/ RecvRestart \/ RxUnmask
  BY <1>2, IdleStep DEF DataIdle, Delivering, RxPulse, RecvEmpty, RecvRestart,
     RxUnmask
<1>3. CASE RecvInput
  BY <1>3, NextData DEF RecvInput, Delivering
<1>4. CASE RecvQueue
  BY <1>4, NextData DEF RecvQueue, Delivering
<1>5. CASE NicReceive
  <2>1. CASE /\ nic = NoFrag
             /\ \E k \in Frames, err \in BOOLEAN :
                  (err => k = 1) /\ NicFill([pos |-> 1, of |-> k], err)
    <3>1. PICK k \in Frames, err \in BOOLEAN :
            (err => k = 1) /\ NicFill([pos |-> 1, of |-> k], err)
      BY <2>1
    <3> DEFINE f == [pos |-> 1, of |-> k]
    <3>2. f \in Frag /\ IsFrag(f) /\ f.pos = 1 /\ (err => f.pos = f.of)
      BY <3>1 DEF Frag, IsFrag
    <3> HIDE DEF f
    <3>3. NicFill(f, err)
      BY <3>1 DEF f
    <3> QED
      BY <2>1, <3>2, <3>3, FillRing
  <2>2. CASE /\ nic # NoFrag
             /\ \E err \in BOOLEAN : (err => nic.pos = nic.of) /\ NicFill(nic, err)
    <3>1. nic \in Frag /\ IsFrag(nic)
      BY <2>2 DEF TypeOK, DataInv, ChainShape
    <3> QED
      BY <2>2, <3>1, FillRing
  <2> QED
    BY <1>5, <2>1, <2>2 DEF NicReceive
<1>6. CASE UNCHANGED vars
  BY <1>6, IdleStep DEF DataIdle, Delivering, vars
<1> QED
  BY <1>1, <1>2, <1>3, <1>4, <1>5, <1>6, ErrorData, FragData, LastData DEF Next
-----------------------------------------------------------------------------
(* Every variable of the receive side keeps its type: mx6q_isr pulses only   *)
(* with the interrupt open, mx6q_receive enqueues only below ifq_maxlen.     *)
LEMMA TypeStep == TypeOK /\ ControlInv /\ DataInv /\ [Next]_vars => TypeOK'
<1> SUFFICES ASSUME TypeOK, ControlInv, DataInv, [Next]_vars PROVE TypeOK'
  OBVIOUS
<1> USE DEF ring, pkt, que, ifc, irq, dev
<1>1. RingOK /\ PktOK /\ done \in Packet /\ PlacesOK /\ QueueOK /\ FlagsOK
  BY TypeParts
<1>2. CASE RecvError \/ RecvFrag \/ RecvLast
  <2>1. rx_bd[rx_cidx].full /\ GiveBack /\ UNCHANGED <<hw, nic>>
    BY <1>2 DEF RecvError, RecvFrag, RecvLast, Received
  <2>2. RingOK'
    BY <2>1, GiveBackRing
  <2>3. PktOK'
    <3>1. rx_bd[rx_cidx].frag \in Frag
      BY <1>1, <2>1, Descriptors DEF RingOK
    <3>2. BdLength(rx_bd[rx_cidx].frag) \in Nat
      BY <3>1 DEF BdLength, Frag
    <3>3. CASE RecvFrag
      <4>1. /\ rpkt' = Append(rpkt, rx_bd[rx_cidx].frag) /\ UNCHANGED <<nic, cut>>
            /\ length' = length + BdLength(rx_bd[rx_cidx].frag)
        BY <3>3 DEF RecvFrag
      <4> QED
        BY <1>1, <3>1, <3>2, <4>1 DEF PktOK
    <3>4. CASE RecvError \/ RecvLast
      <4>1. \/ /\ rpkt' = << >> /\ length' = 0 /\ UNCHANGED nic
               /\ cut' \in {0, rx_bd[rx_cidx].frag.pos}
            \/ UNCHANGED <<rpkt, length, nic, cut>>
        BY <3>4 DEF RecvError, RecvLast
      <4>2. << >> \in Seq(Frag) /\ 0 \in Nat /\ rx_bd[rx_cidx].frag.pos \in Nat
        BY <3>1 DEF Frag
      <4>3. rpkt' \in Seq(Frag) /\ length' \in Nat /\ nic' \in Frag /\ cut' \in Nat
        BY <1>1, <4>1, <4>2 DEF PktOK
      <4> QED
        BY <4>3 DEF PktOK
    <3> QED
      BY <1>2, <3>3, <3>4
  <2>4. done' \in Packet
    BY <1>1, <1>2, LastData DEF RecvError, RecvFrag
  <2>5. PlacesOK' /\ QueueOK'
    BY <1>1, <1>2 DEF PlacesOK, QueueOK, RecvError, RecvFrag, RecvLast
  <2>6. FlagsOK'
    BY <1>1, <1>2 DEF FlagsOK, RecvError, RecvFrag, RecvLast
  <2> QED
    BY <2>2, <2>3, <2>4, <2>5, <2>6, TypePartsPrimed
<1>3. CASE RecvInput \/ RecvQueue
  <2>1. NextPacket /\ UNCHANGED <<ring, dev>>
    BY <1>3 DEF RecvInput, RecvQueue
  <2>2. RingOK' /\ PktOK' /\ done' \in Packet
    BY <1>1, <2>1 DEF RingOK, PktOK, NextPacket, NoPkt, Packet
  <2>3. PlacesOK'
    BY <1>1, <1>3 DEF PlacesOK, RecvInput, RecvQueue
  <2>4. QueueOK'
    BY <1>1, <1>3 DEF QueueOK, RecvInput, RecvQueue, QueueFull
  <2>5. FlagsOK'
    BY <1>1, <1>3 DEF FlagsOK, RecvInput, RecvQueue, Backlog
  <2> QED
    BY <2>2, <2>3, <2>4, <2>5, TypePartsPrimed
<1>4. CASE NicReceive
  <2>1. ASSUME NEW f \in Frag, NEW err \in BOOLEAN, NicFill(f, err)
        PROVE  RingOK' /\ PktOK' /\ FlagsOK'
    <3>1. hw' \in Idx
      BY <1>1, <2>1, NextRx DEF RingOK, NicFill
    <3>2. [full |-> TRUE, frag |-> f, err |-> err] \in Descriptor
      BY DEF Descriptor
    <3>3. RingOK'
      BY <1>1, <2>1, <3>1, <3>2 DEF RingOK, NicFill
    <3>4. PktOK'
      <4>1. UNCHANGED <<rpkt, length, cut>>
        BY <2>1 DEF NicFill
      <4>2. nic' \in Frag
        BY <2>1, SMTT(30) DEF NicFill, Frag, NoFrag
      <4> QED
        BY <1>1, <4>1, <4>2 DEF PktOK
    <3>5. FlagsOK'
      BY <1>1, <2>1 DEF FlagsOK, NicFill
    <3> QED
      BY <3>3, <3>4, <3>5
  <2>2. \E f \in Frag, err \in BOOLEAN : NicFill(f, err)
    BY <1>1, <1>4 DEF NicReceive, Frag, PktOK
  <2>3. UNCHANGED <<done, rpc, pulses, rx_mutex, qpc, rx_queue>>
    BY <2>2 DEF NicFill
  <2>4. done' \in Packet /\ PlacesOK' /\ QueueOK'
    BY <1>1, <2>3 DEF PlacesOK, QueueOK
  <2> QED
    BY <2>1, <2>2, <2>4, TypePartsPrimed
<1>5. CASE \/ Isr \/ RxPulse \/ RecvEmpty \/ RecvRestart \/ RxUnmask \/ QueueBegin
           \/ ProcessQueue \/ EnableQueue \/ Stop \/ Init_ \/ NicStall
  <2>0. FlagsOK'
    <3>1. CASE Isr
      BY <1>1, <3>1 DEF FlagsOK, Isr
    <3>2. CASE RxPulse
      BY <1>1, <3>2 DEF FlagsOK, RxPulse
    <3>3. CASE RecvEmpty
      BY <1>1, <3>3 DEF FlagsOK, RecvEmpty
    <3>4. CASE RecvRestart
      BY <1>1, <3>4 DEF FlagsOK, RecvRestart
    <3>5. CASE RxUnmask
      BY <1>1, <3>5 DEF FlagsOK, RxUnmask
    <3>6. CASE QueueBegin
      BY <1>1, <3>6 DEF FlagsOK, QueueBegin
    <3>7. CASE ProcessQueue
      BY <1>1, <3>7 DEF FlagsOK, ProcessQueue
    <3>8. CASE EnableQueue
      BY <1>1, <3>8 DEF FlagsOK, EnableQueue, Forget
    <3>9. CASE Stop
      BY <1>1, <3>9 DEF FlagsOK, Stop
    <3>10. CASE Init_
      BY <1>1, <3>10 DEF FlagsOK, Init_
    <3>11. CASE NicStall
      BY <1>1, <3>11 DEF FlagsOK, NicStall
    <3> QED
      BY <1>5, <3>1, <3>2, <3>3, <3>4, <3>5, <3>6,
         <3>7, <3>8, <3>9, <3>10, <3>11
  <2> USE <1>5 DEF Isr, RxPulse, RecvEmpty, RecvRestart, RxUnmask, QueueBegin,
                   ProcessQueue, EnableQueue, Stop, Init_, NicStall
  <2>1. RingOK' /\ PktOK' /\ done' \in Packet
    BY <1>1 DEF RingOK, PktOK
  <2>2. PlacesOK'
    BY <1>1 DEF PlacesOK, ControlInv, MaskedWhileBusy
  <2>3. QueueOK'
    BY <1>1 DEF QueueOK
  <2> QED
    BY <2>0, <2>1, <2>2, <2>3, TypePartsPrimed
<1>6. CASE UNCHANGED vars
  BY <1>6 DEF TypeOK, vars
<1> QED
  BY <1>2, <1>3, <1>4, <1>5, <1>6 DEF Next

(***************************************************************************)
(* The inductive invariant of the receive side (mx6q_isr, mx6q_rx_thread,  *)
(* mx6q_receive, mx6q_process_queue, mx6q_enable_queue) holds at all       *)
(* times.                                                                  *)
(***************************************************************************)
THEOREM RxInvariant == Spec => []RxInv
<1>1. Init => RxInv
  <2> SUFFICES ASSUME Init PROVE RxInv
    OBVIOUS
  <2> USE DEF Init
  <2>1. TypeOK
    <3>1. RingOK
      BY DEF RingOK, Idx, Descriptor
    <3>2. PktOK /\ done \in Packet /\ QueueOK
      BY DEF PktOK, NoFrag, Frag, NoPkt, Packet, QueueOK
    <3>3. PlacesOK
      BY DEF PlacesOK
    <3>4. FlagsOK
      BY DEF FlagsOK
    <3> QED
      BY <3>1, <3>2, <3>3, <3>4, TypeParts
  <2>2. QueueServed /\ MaskedWhileBusy /\ Control /\ MaskedHasOwner
    BY DEF QueueServed, MaskedWhileBusy, Control, MaskedHasOwner
  <2>3. \A i \in Idx : rx_bd[i].full = FALSE
    BY DEF Empty
  <2>4. 0 \in Idx
    BY DEF Idx
  <2>5. RingShape /\ RingOrder
    BY <2>3, <2>4 DEF RingShape, RingOrder, InUse
  <2>6. ChainShape /\ ChainNext
    BY <2>3, <2>4 DEF ChainShape, ChainNext, NoMixedPackets
  <2> QED
    BY <2>1, <2>2, <2>5, <2>6 DEF RxInv
<1>2. RxInv /\ [Next]_vars => RxInv'
  <2>1. RxInv <=> TypeOK /\ ControlInv /\ DataInv
    BY DEF RxInv, ControlInv, DataInv
  <2>2. RxInv' <=> TypeOK' /\ ControlInv' /\ DataInv'
    BY DEF RxInv, ControlInv, DataInv
  <2> QED
    BY <2>1, <2>2, TypeStep, ControlStep, DataStep
<1> QED
  BY <1>1, <1>2, PTL DEF Spec

(* The receive side keeps every variable in its type: one pulse at the most  *)
(* waits for mx6q_rx_thread, and rx_queue never outgrows ifq_maxlen.         *)
THEOREM RxTypeCorrect == Spec => []TypeOK
<1>1. RxInv => TypeOK
  BY DEF RxInv
<1> QED
  BY <1>1, RxInvariant, PTL

(* No packet is left in rx_queue with nobody at work on it, whatever the     *)
(* order of mx6q_receive and mx6q_process_queue.                             *)
THEOREM RxQueueServed == Spec => []QueueServed
<1>1. RxInv => QueueServed
  BY DEF RxInv
<1> QED
  BY <1>1, RxInvariant, PTL

(* The Rx interrupt is open only while mx6q_rx_thread has finished with the  *)
(* ring and no pulse waits for it.                                           *)
THEOREM RxMaskedWhileBusy == Spec => []MaskedWhileBusy
<1>1. RxInv => MaskedWhileBusy
  BY DEF RxInv
<1> QED
  BY <1>1, RxInvariant, PTL

(* A masked Rx interrupt has somebody who is going to unmask it, over any    *)
(* number of stops and restarts, unless mx6q_enable_queue has met rx_full on *)
(* a stopped interface.                                                      *)
THEOREM RxMaskedHasOwner == Spec => []MaskedHasOwner
<1>1. RxInv => MaskedHasOwner
  BY DEF RxInv
<1> QED
  BY <1>1, RxInvariant, PTL

(* No packet mixes two frames, and only its beginning, up to a buffer of the *)
(* same frame for which m_getcl_wtp failed, can be missing.                  *)
THEOREM RxNoMixedPackets == Spec => []NoMixedPackets
<1>1. RxInv => NoMixedPackets
  BY DEF RxInv, ChainShape
<1> QED
  BY <1>1, RxInvariant, PTL
=============================================================================
