---------------------------- MODULE CanMx6xProofs ----------------------------
(***************************************************************************)
(* Proofs about CanMx6x, for every set of mailboxes and every queue size:  *)
(* the types, that no queue element is lost, that the messages of a        *)
(* transmit mailbox go out in order and each once, that a receive mailbox  *)
(* keeps the order of the bus, and that a transmission marked as in        *)
(* progress is.                                                            *)
(***************************************************************************)
EXTENDS CanMx6x, SequenceTheorems, TLAPS

(* What the places of can_intr and of the resource manager's thread say of  *)
(* their local variables.                                                   *)
Locals ==
  /\ imsg # None <=> ipc \in {"rxack", "txnext"}
  /\ tmsg # None <=> tpc \in {"set", "send"}
  /\ tpc \in {"test", "take", "set", "send"} => tdev \in TxBoxes
  /\ tpc = "read" => tdev \in RxBoxes
  /\ \A m \in RxBoxes : reading[m] # None <=> tpc = "read" /\ tdev = m
  /\ ipc = "rx" => irqsrc \cap RxBoxes \subseteq iflag
  /\ ipc = "rxack" => mbxid \in irqsrc
  /\ ipc \in {"rx", "rxack", "tx"} => irqsrc \cap TxBoxes \subseteq iflag

(* The message of a mailbox that can_intr or can_drvr_transmit works on. *)
IsrMsg(m)    == IF mbxid = m THEN imsg ELSE None
ThreadMsg(m) == IF tdev = m THEN tmsg ELSE None

(* How many elements a variable holds. *)
Count(x) == IF x = None THEN 0 ELSE 1

TxElements(m) ==
  free_queue[m] + Len(msg_queue[m]) + Count(IsrMsg(m)) + Count(ThreadMsg(m))
    = QSize

RxElements(m) ==
  free_queue[m] + Len(msg_queue[m]) + Count(IsrMsg(m)) + Count(reading[m])
    = QSize

(* can_drvr_transmit has found no transmission in progress. *)
Sending(m) == tdev = m /\ tpc \in {"take", "set", "send"}

(***************************************************************************)
(* The right to start the next message of a transmit mailbox is in one     *)
(* place at the most: with the message in the mailbox, with the flag that  *)
(* reports it as sent, with can_intr, or with can_drvr_transmit, which     *)
(* takes it when TX_ENABLED is off.                                        *)
(***************************************************************************)
OneSender(m) ==
  /\ canmcf[m] # None => m \notin iflag
  /\ canmcf[m] # None \/ m \in iflag => mbxid # m
  /\ canmcf[m] # None \/ m \in iflag \/ mbxid = m =>
       m \in tx_enabled /\ ~Sending(m)
  /\ Sending(m) => (m \in tx_enabled <=> tpc = "send")

(* The message that comes before those in the queue. *)
Front(m) ==
  IF canmcf[m] # None THEN canmcf[m]
  ELSE IF IsrMsg(m) # None THEN IsrMsg(m) ELSE ThreadMsg(m)

TxOrder(m) ==
  /\ Front(m) # None => Front(m) = sent[m] + 1
  /\ \A i \in 1 .. Len(msg_queue[m]) :
       msg_queue[m][i] = sent[m] + Count(Front(m)) + i
  /\ written[m] = sent[m] + Count(Front(m)) + Len(msg_queue[m])

(***************************************************************************)
(* A receive mailbox holds a newer message than any that was read from it. *)
(* A flag stands for a message, but while can_intr has it in its hands.    *)
(***************************************************************************)
Before(x, y) == FromBus(x) /\ FromBus(y) => x < y

RxAround(m) ==
  /\ taken[m] <= arrived /\ reading[m] <= arrived
  /\ canmcf[m] <= arrived /\ IsrMsg(m) <= arrived
  /\ canmcf[m] # None => FromBus(canmcf[m])
  /\ Before(taken[m], reading[m])
  /\ Before(taken[m], IsrMsg(m)) /\ Before(reading[m], IsrMsg(m))
  /\ Before(taken[m], canmcf[m]) /\ Before(reading[m], canmcf[m])
  /\ Before(IsrMsg(m), canmcf[m])

RxQueued(m) ==
  \A i \in 1 .. Len(msg_queue[m]) :
    /\ msg_queue[m][i] <= arrived
    /\ Before(taken[m], msg_queue[m][i])
    /\ Before(reading[m], msg_queue[m][i])
    /\ Before(msg_queue[m][i], IsrMsg(m))
    /\ Before(msg_queue[m][i], canmcf[m])

RxSorted(m) ==
  \A i, j \in 1 .. Len(msg_queue[m]) :
    i < j => Before(msg_queue[m][i], msg_queue[m][j])

RxOrder(m) == RxAround(m) /\ RxQueued(m) /\ RxSorted(m)

FlagIsMsg(m) == m \in iflag /\ mbxid # m => canmcf[m] # None

(* Raw mode, with one transmit mailbox, and frames that outlast a turn of    *)
(* can_intr: the flags that the handler clears once more are not set again.  *)
OneTxBox == FrameOutlastsIsr /\ \A m, k \in TxBoxes : m = k

ClearedOnce ==
  ipc \in {"txnext", "txend", "clear"} =>
    \A m \in TxBoxes \cap irqsrc :
      m \notin iflag /\ (canmcf[m] # None => m \in fresh)

(* Then no flag is cleared without its mailbox being served. *)
RawServed == unserved \cap TxBoxes = {}

CanInv ==
  /\ TypeOK /\ Locals /\ MdriverRx <= arrived
  /\ \A m \in TxBoxes : TxElements(m) /\ OneSender(m) /\ TxOrder(m)
  /\ \A m \in RxBoxes : RxElements(m) /\ FlagIsMsg(m) /\ RxOrder(m)
  /\ TxNotStuck
  /\ OneTxBox => ClearedOnce /\ RawServed
-----------------------------------------------------------------------------
(* TypeOK in parts, for the provers. *)
QueuesOK ==
  /\ free_queue \in [Boxes -> 0 .. QSize]
  /\ msg_queue \in [Boxes -> Seq(Nat \ {None})]

IsrOK ==
  /\ ipc \in {"off", "read", "rx", "rxack", "tx", "txnext", "txend", "clear"}
  /\ irqsrc \subseteq Boxes /\ imsg \in Nat
  /\ mbxid \in CASE ipc = "rxack"               -> RxBoxes
                 [] ipc \in {"txnext", "txend"} -> TxBoxes
                 [] OTHER                       -> {None}

ThreadOK ==
  /\ tpc \in {"mdriver", "idle", "test", "take", "set", "send", "read"}
  /\ tdev \in Boxes \cup {None} /\ tmsg \in Nat
  /\ reading \in [RxBoxes -> Nat] /\ mdone \in 0 .. MdriverRx

DevOK ==
  /\ tx_enabled \subseteq TxBoxes /\ fresh \subseteq TxBoxes
  /\ canmcf \in [Boxes -> Nat] /\ iflag \subseteq Boxes

HistOK ==
  /\ written \in [TxBoxes -> Nat] /\ sent \in [TxBoxes -> Nat]
  /\ arrived \in Nat /\ taken \in [RxBoxes -> Nat]
  /\ unserved \subseteq Boxes

(* The parts of TypeOK, of the state of can_intr and can_drvr_transmit, are *)
(* the whole of it.                                                         *)
LEMMA TypeParts == TypeOK <=> QueuesOK /\ IsrOK /\ ThreadOK /\ DevOK /\ HistOK
BY DEF TypeOK, QueuesOK, IsrOK, ThreadOK, DevOK, HistOK

(* The same after a step. *)
LEMMA TypePartsPrimed ==
  TypeOK' <=> QueuesOK' /\ IsrOK' /\ ThreadOK' /\ DevOK' /\ HistOK'
BY DEF TypeOK, QueuesOK, IsrOK, ThreadOK, DevOK, HistOK

(* The mailboxes of the two kinds are different, and none has the number 0. *)
LEMMA BoxFacts ==
  /\ \A m \in TxBoxes : m \in Boxes /\ m \notin RxBoxes /\ m # None
  /\ \A m \in RxBoxes : m \in Boxes /\ m \notin TxBoxes /\ m # None
BY CanAssumption DEF Boxes, None

(* canmsg_dequeue on a mailbox's message queue: the oldest message goes. *)
LEMMA Dequeued ==
  ASSUME QueuesOK, NEW k \in Boxes, msg_queue[k] # << >>, DequeueMsg(k)
  PROVE  /\ msg_queue' \in [Boxes -> Seq(Nat \ {None})]
         /\ \A m \in Boxes \ {k} : msg_queue'[m] = msg_queue[m]
         /\ Len(msg_queue[k]) \in Nat /\ Len(msg_queue[k]) >= 1
         /\ Len(msg_queue'[k]) = Len(msg_queue[k]) - 1
         /\ \A i \in 1 .. Len(msg_queue'[k]) :
              i + 1 \in 1 .. Len(msg_queue[k]) /\ msg_queue'[k][i] = msg_queue[k][i + 1]
         /\ Head(msg_queue[k]) = msg_queue[k][1]
         /\ msg_queue[k][1] \in Nat \ {None}
<1> DEFINE q == msg_queue[k]
<1>1. q \in Seq(Nat \ {None}) /\ q # << >>
  BY DEF QueuesOK
<1>2. /\ Tail(q) \in Seq(Nat \ {None}) /\ Len(q) \in Nat /\ Len(q) >= 1
      /\ Len(Tail(q)) = Len(q) - 1 /\ Head(q) = q[1] /\ q[1] \in Nat \ {None}
      /\ \A i \in 1 .. Len(Tail(q)) : i + 1 \in 1 .. Len(q) /\ Tail(q)[i] = q[i + 1]
  <2> HIDE DEF q
  <2> QED
    BY <1>1
<1>3. /\ msg_queue'[k] = Tail(q)
      /\ \A m \in Boxes \ {k} : msg_queue'[m] = msg_queue[m]
      /\ msg_queue' = [msg_queue EXCEPT ![k] = Tail(q)]
  BY DEF DequeueMsg, QueuesOK
<1>4. msg_queue' \in [Boxes -> Seq(Nat \ {None})]
  BY <1>2, <1>3 DEF QueuesOK
<1> QED
  BY <1>2, <1>3, <1>4

(* canmsg_queue on a mailbox's message queue: a message joins at the end. *)
LEMMA Enqueued ==
  ASSUME QueuesOK, NEW k \in Boxes, NEW x \in Nat \ {None}, QueueMsg(k, x)
  PROVE  /\ msg_queue' \in [Boxes -> Seq(Nat \ {None})]
         /\ \A m \in Boxes \ {k} : msg_queue'[m] = msg_queue[m]
         /\ Len(msg_queue[k]) \in Nat
         /\ Len(msg_queue'[k]) = Len(msg_queue[k]) + 1
         /\ \A i \in 1 .. Len(msg_queue[k]) : msg_queue'[k][i] = msg_queue[k][i]
         /\ msg_queue'[k][Len(msg_queue[k]) + 1] = x
<1> DEFINE q == msg_queue[k]
<1>1. q \in Seq(Nat \ {None})
  BY DEF QueuesOK
<1>2. /\ Append(q, x) \in Seq(Nat \ {None}) /\ Len(q) \in Nat
      /\ Len(Append(q, x)) = Len(q) + 1 /\ Append(q, x)[Len(q) + 1] = x
      /\ \A i \in 1 .. Len(q) : Append(q, x)[i] = q[i]
  <2> HIDE DEF q
  <2> QED
    BY <1>1
<1>3. /\ msg_queue'[k] = Append(q, x)
      /\ \A m \in Boxes \ {k} : msg_queue'[m] = msg_queue[m]
      /\ msg_queue' = [msg_queue EXCEPT ![k] = Append(q, x)]
  BY DEF QueueMsg, QueuesOK
<1>4. msg_queue' \in [Boxes -> Seq(Nat \ {None})]
  BY <1>2, <1>3 DEF QueuesOK
<1> QED
  BY <1>2, <1>3, <1>4

(* What TypeOK says of one mailbox. *)
LEMMA BoxTypes ==
  ASSUME TypeOK, NEW m \in Boxes
  PROVE  /\ free_queue[m] \in 0 .. QSize /\ Len(msg_queue[m]) \in Nat
         /\ \A i \in 1 .. Len(msg_queue[m]) : msg_queue[m][i] \in Nat \ {None}
         /\ canmcf[m] \in Nat /\ imsg \in Nat /\ tmsg \in Nat
         /\ m \in TxBoxes => written[m] \in Nat /\ sent[m] \in Nat
         /\ m \in RxBoxes => reading[m] \in Nat /\ taken[m] \in Nat
<1>1. msg_queue[m] \in Seq(Nat \ {None})
  BY DEF TypeOK
<1>2. /\ Len(msg_queue[m]) \in Nat
      /\ \A i \in 1 .. Len(msg_queue[m]) : msg_queue[m][i] \in Nat \ {None}
  BY <1>1
<1> QED
  BY <1>2 DEF TypeOK
-----------------------------------------------------------------------------
(***************************************************************************)
(* Transmission.                                                           *)
(***************************************************************************)
TxSame(m) ==
  UNCHANGED <<free_queue[m], msg_queue[m], canmcf[m], written[m], sent[m],
              IsrMsg(m), ThreadMsg(m)>>

(* A step of can_intr or of a thread on another mailbox. *)
LEMMA TxFrame ==
  ASSUME NEW m \in TxBoxes, TxElements(m), TxOrder(m), TxSame(m)
  PROVE  TxElements(m)' /\ TxOrder(m)'
<1>1. UNCHANGED <<free_queue[m], Len(msg_queue[m]), Count(IsrMsg(m)), Count(ThreadMsg(m))>>
  BY DEF TxSame, Count
<1>2. UNCHANGED <<Front(m), Count(Front(m)), sent[m], written[m], msg_queue[m]>>
  BY DEF TxSame, Front, Count
<1>3. TxElements(m)'
  BY <1>1 DEF TxElements
<1> QED
  BY <1>2, <1>3 DEF TxOrder

(* A message leaves the queue for can_intr or for can_drvr_transmit, which    *)
(* finds nothing before it.                                                   *)
LEMMA TxTaken ==
  ASSUME TypeOK, NEW m \in TxBoxes, TxElements(m), TxOrder(m),
         msg_queue[m] # << >>, DequeueMsg(m), canmcf[m] = None, canmcf'[m] = None,
         IsrMsg(m) = None, ThreadMsg(m) = None,
         \/ IsrMsg(m)' = Head(msg_queue[m]) /\ ThreadMsg(m)' = None
         \/ ThreadMsg(m)' = Head(msg_queue[m]) /\ IsrMsg(m)' = None,
         UNCHANGED <<free_queue[m], sent[m], written[m]>>
  PROVE  TxElements(m)' /\ TxOrder(m)'
<1>1. m \in Boxes
  BY BoxFacts
<1>2. /\ Len(msg_queue[m]) \in Nat /\ Len(msg_queue[m]) >= 1
      /\ Len(msg_queue'[m]) = Len(msg_queue[m]) - 1
      /\ \A i \in 1 .. Len(msg_queue'[m]) :
           i + 1 \in 1 .. Len(msg_queue[m]) /\ msg_queue'[m][i] = msg_queue[m][i + 1]
      /\ Head(msg_queue[m]) = msg_queue[m][1] /\ Head(msg_queue[m]) # None
  BY <1>1, Dequeued, TypeParts
<1>3. sent[m] \in Nat /\ written[m] \in Nat /\ free_queue[m] \in Nat
  BY <1>1, BoxTypes, CanAssumption
<1>4. Front(m) = None /\ Front(m)' = Head(msg_queue[m])
  BY DEF Front
<1>5. Head(msg_queue[m]) = sent[m] + 1
  BY <1>2, <1>3, <1>4 DEF TxOrder, Count
<1>6. TxElements(m)'
  BY <1>2, <1>3 DEF TxElements, Count
<1>7. TxOrder(m)'
  <2>1. Count(Front(m)) = 0 /\ Count(Front(m)') = 1
    BY <1>2, <1>4 DEF Count
  <2>2. written[m]' = sent[m]' + 1 + Len(msg_queue'[m])
    BY <1>2, <1>3, <1>4 DEF TxOrder, Count
  <2>3. \A i \in 1 .. Len(msg_queue'[m]) : msg_queue'[m][i] = sent[m]' + 1 + i
    BY <1>2, <1>3, <1>4, SMTT(30) DEF TxOrder, Count
  <2> QED
    BY <1>4, <1>5, <2>1, <2>2, <2>3 DEF TxOrder, Count
<1> QED
  BY <1>6, <1>7

(* can_ringo_tx: the message goes to the mailbox, its element becomes free. *)
LEMMA TxStarted ==
  ASSUME TypeOK, NEW m \in TxBoxes, TxElements(m), TxOrder(m),
         canmcf[m] = None, canmcf'[m] = Front(m), Front(m) # None,
         free_queue'[m] = free_queue[m] + 1,
         Count(IsrMsg(m)) + Count(ThreadMsg(m)) = 1,
         IsrMsg(m)' = None, ThreadMsg(m)' = None,
         UNCHANGED <<msg_queue[m], sent[m], written[m]>>
  PROVE  TxElements(m)' /\ TxOrder(m)'
<1>1. m \in Boxes
  BY BoxFacts
<1>2. free_queue[m] \in Nat /\ Len(msg_queue[m]) \in Nat
  BY <1>1, BoxTypes, CanAssumption
<1>3. Front(m)' = Front(m)
  BY DEF Front
<1>4. TxElements(m)'
  <2>1. Count(IsrMsg(m)') = 0 /\ Count(ThreadMsg(m)') = 0
    BY DEF Count
  <2>2. Count(IsrMsg(m)) \in Nat /\ Count(ThreadMsg(m)) \in Nat
    BY DEF Count
  <2> QED
    BY <1>2, <2>1, <2>2 DEF TxElements, Count
<1> QED
  BY <1>3, <1>4 DEF TxOrder, Count

(* libcan queues a client's message behind all others. *)
LEMMA TxWritten ==
  ASSUME TypeOK, Locals, NEW m \in TxBoxes, TxElements(m), TxOrder(m), Write(m)
  PROVE  TxElements(m)' /\ TxOrder(m)'
<1>1. m \in Boxes
  BY BoxFacts
<1>2. /\ sent[m] \in Nat /\ written[m] \in Nat
      /\ free_queue[m] \in Nat /\ Len(msg_queue[m]) \in Nat
      /\ written[m] + 1 \in Nat \ {None}
  BY <1>1, BoxTypes, CanAssumption DEF None
<1>3. /\ Len(msg_queue'[m]) = Len(msg_queue[m]) + 1
      /\ \A i \in 1 .. Len(msg_queue[m]) : msg_queue'[m][i] = msg_queue[m][i]
      /\ msg_queue'[m][Len(msg_queue[m]) + 1] = written[m] + 1
  BY <1>1, <1>2, Enqueued, TypeParts DEF Write
<1>a. Len(msg_queue'[m]) = Len(msg_queue[m]) + 1
  BY <1>3
<1>4. free_queue'[m] = free_queue[m] - 1 /\ written'[m] = written[m] + 1
      /\ UNCHANGED <<sent, canmcf, mbxid, imsg, tmsg>>
  BY <1>1 DEF Write, DequeueFree, TypeOK, isr, dev
<1>5. ThreadMsg(m) = None /\ ThreadMsg(m)' = None
  BY DEF Write, ThreadMsg, Locals
<1>6. IsrMsg(m)' = IsrMsg(m) /\ Front(m)' = Front(m)
  BY <1>4, <1>5 DEF IsrMsg, Front
<1>7. TxElements(m)'
  BY <1>2, <1>a, <1>4, <1>5, <1>6, SMTT(30) DEF TxElements, Count
<1>8. TxOrder(m)'
  <2>1. PICK n \in Nat : n = Count(Front(m)) /\ n = Count(Front(m))'
    BY <1>6 DEF Count
  <2>2. written[m] = sent[m] + n + Len(msg_queue[m])
    BY <2>1 DEF TxOrder
  <2>3. \A i \in 1 .. Len(msg_queue[m]) : msg_queue[m][i] = sent[m] + n + i
    BY <2>1 DEF TxOrder
  <2>4. Front(m)' # None => Front(m)' = sent'[m] + 1
    BY <1>4, <1>6 DEF TxOrder
  <2>5. /\ sent[m] \in Nat /\ Len(msg_queue[m]) \in Nat
        /\ written'[m] = written[m] + 1 /\ sent'[m] = sent[m]
    BY <1>2, <1>4
  <2>6. written'[m] = sent'[m] + n + Len(msg_queue'[m])
    BY <1>a, <2>2, <2>5
  <2>7. \A i \in 1 .. Len(msg_queue'[m]) : msg_queue'[m][i] = sent'[m] + n + i
    <3>1. ASSUME NEW i \in 1 .. Len(msg_queue'[m])
          PROVE  i \in 1 .. Len(msg_queue[m]) \/ i = Len(msg_queue[m]) + 1
      BY <1>a, <2>5
    <3>2. msg_queue'[m][Len(msg_queue[m]) + 1]
            = sent'[m] + n + (Len(msg_queue[m]) + 1)
      BY <1>3, <2>2, <2>5
    <3>3. \A i \in 1 .. Len(msg_queue[m]) :
            msg_queue'[m][i] = sent'[m] + n + i
      BY <1>3, <2>3, <2>5
    <3> QED
      BY <3>1, <3>2, <3>3
  <2> QED
    BY <2>1, <2>4, <2>6, <2>7 DEF TxOrder
<1> QED
  BY <1>7, <1>8

(* The controller has sent the message in the mailbox. *)
LEMMA TxSent ==
  ASSUME TypeOK, NEW m \in TxBoxes, TxElements(m), TxOrder(m),
         IsrMsg(m) = None, ThreadMsg(m) = None, BusSent(m)
  PROVE  TxElements(m)' /\ TxOrder(m)'
<1>1. m \in Boxes
  BY BoxFacts
<1>2. sent[m] \in Nat /\ written[m] \in Nat /\ Len(msg_queue[m]) \in Nat
  BY <1>1, BoxTypes
<1>3. /\ sent'[m] = canmcf[m] /\ canmcf'[m] = None /\ canmcf[m] # None
      /\ UNCHANGED <<free_queue, msg_queue, written, mbxid, imsg, tdev, tmsg>>
  BY <1>1 DEF BusSent, TypeOK, queues, isr, thread
<1>4. IsrMsg(m)' = None /\ ThreadMsg(m)' = None
  BY <1>3 DEF IsrMsg, ThreadMsg
<1>5. Front(m) = canmcf[m] /\ Front(m)' = None
  BY <1>3, <1>4 DEF Front
<1>6. TxElements(m)'
  BY <1>3, <1>4 DEF TxElements, Count
<1>7. TxOrder(m)'
  BY <1>2, <1>3, <1>5 DEF TxOrder, Count
<1> QED
  BY <1>6, <1>7

(* Every step keeps the elements and the order of a transmit mailbox. *)
LEMMA TxStep ==
  ASSUME CanInv, Next, NEW m \in TxBoxes
  PROVE  TxElements(m)' /\ TxOrder(m)'
<1>1. TypeOK /\ Locals /\ TxElements(m) /\ OneSender(m) /\ TxOrder(m)
  BY DEF CanInv
<1>2. QueuesOK /\ IsrOK /\ ThreadOK /\ DevOK /\ HistOK
  BY <1>1, TypeParts
<1>3. m \in Boxes /\ m \notin RxBoxes /\ m # None
  BY BoxFacts
<1>4. CASE IsrEnter \/ IsrRead \/ IsrClear
  <2>1. TxSame(m)
    BY <1>4 DEF TxSame, IsrEnter, IsrRead, IsrClear, queues, thread, dev, hist,
       IsrMsg, ThreadMsg
  <2> QED
    BY <1>1, <2>1, TxFrame
<1>5. CASE TransmitTest \/ TransmitSet \/ ResmgrStart
  <2>1. TxSame(m)
    BY <1>5 DEF TxSame, TransmitTest, TransmitSet, ResmgrStart, queues, isr,
       dev, hist, IsrMsg, ThreadMsg
  <2> QED
    BY <1>1, <2>1, TxFrame
<1>6. CASE IsrRx
  <2>1. PICK k \in RxBoxes :
          /\ \/ DequeueFree(k) /\ UNCHANGED msg_queue
                /\ IsrLocals(k, canmcf[k]) /\ canmcf' = [canmcf EXCEPT ![k] = None]
             \/ DequeueMsg(k) /\ UNCHANGED free_queue
                /\ IsrLocals(k, canmcf[k]) /\ canmcf' = [canmcf EXCEPT ![k] = None]
             \/ UNCHANGED <<queues, mbxid, imsg, canmcf>>
          /\ UNCHANGED <<thread, hist>>
    BY <1>6 DEF IsrRx
  <2>2. mbxid = None /\ k # m
    BY <1>2, <1>3, <1>6 DEF IsrRx, IsrOK
  <2>3. free_queue'[m] = free_queue[m] /\ msg_queue'[m] = msg_queue[m]
    BY <1>2, <1>3, <2>1, <2>2 DEF QueuesOK, DequeueFree, DequeueMsg, queues
  <2>4. canmcf'[m] = canmcf[m] /\ IsrMsg(m)' = IsrMsg(m)
    BY <1>2, <1>3, <2>1, <2>2 DEF DevOK, IsrLocals, IsrMsg
  <2>5. TxSame(m)
    BY <2>1, <2>3, <2>4 DEF TxSame, thread, hist, ThreadMsg
  <2> QED
    BY <1>1, <2>5, TxFrame
<1>7. CASE IsrRxAck
  <2>1. mbxid \in RxBoxes /\ mbxid # m
    BY <1>2, <1>3, <1>7 DEF IsrRxAck, IsrOK
  <2>2. msg_queue'[m] = msg_queue[m]
    BY <1>2, <1>3, <1>7, <2>1 DEF QueuesOK, IsrRxAck, QueueMsg
  <2>3. IsrMsg(m)' = IsrMsg(m)
    BY <1>3, <1>7, <2>1 DEF IsrRxAck, IsrLocals, IsrMsg
  <2>4. TxSame(m)
    BY <1>7, <2>2, <2>3 DEF IsrRxAck, TxSame, thread, hist, ThreadMsg
  <2> QED
    BY <1>1, <2>4, TxFrame
<1>8. CASE IsrTx
  <2>1. PICK k \in TxBoxes :
          /\ IsFirst(k, irqsrc \cap TxBoxes)
          /\ IF msg_queue[k] # << >>
             THEN DequeueMsg(k) /\ IsrLocals(k, Head(msg_queue[k]))
             ELSE IsrLocals(k, None) /\ UNCHANGED msg_queue
          /\ UNCHANGED <<free_queue, thread, canmcf, written, sent, arrived, taken>>
    BY <1>8 DEF IsrTx
  <2>2. mbxid = None /\ IsrMsg(m) = None
    BY <1>2, <1>3, <1>8 DEF IsrTx, IsrOK, IsrMsg
  <2>3. k \in iflag
    BY <1>1, <1>8, <2>1 DEF IsrTx, Locals, IsFirst
  <2>4. UNCHANGED <<free_queue[m], canmcf[m], sent[m], written[m], ThreadMsg(m)>>
    BY <2>1 DEF thread, hist, ThreadMsg
  <2>5. CASE m = k /\ msg_queue[k] # << >>
    <3>1. canmcf[m] = None /\ ThreadMsg(m) = None
      BY <1>1, <2>3, <2>5 DEF OneSender, Sending, Locals, ThreadMsg
    <3>2. IsrMsg(m)' = Head(msg_queue[m]) /\ DequeueMsg(m)
      BY <2>1, <2>5 DEF IsrLocals, IsrMsg
    <3> QED
      BY <1>1, <2>2, <2>4, <2>5, <3>1, <3>2, TxTaken
  <2>6. CASE ~(m = k /\ msg_queue[k] # << >>)
    <3>1. msg_queue'[m] = msg_queue[m]
      BY <1>2, <1>3, <2>1, <2>6 DEF QueuesOK, DequeueMsg
    <3>2. IsrMsg(m)' = None
      BY <2>1, <2>6 DEF IsrLocals, IsrMsg
    <3> QED
      BY <1>1, <2>2, <2>4, <3>1, <3>2, TxFrame DEF TxSame
  <2> QED
    BY <2>5, <2>6
<1>9. CASE IsrTxNext
  <2>1. mbxid \in TxBoxes /\ imsg # None
    BY <1>1, <1>2, <1>9 DEF IsrTxNext, IsrOK, Locals
  <2>2. UNCHANGED <<msg_queue[m], sent[m], written[m], ThreadMsg(m)>>
    BY <1>9 DEF IsrTxNext, thread, hist, ThreadMsg
  <2>3. IsrMsg(m)' = None
    BY <1>9 DEF IsrTxNext, IsrLocals, IsrMsg
  <2>4. CASE m = mbxid
    <3>1. canmcf[m] = None /\ ThreadMsg(m) = None
      BY <1>1, <2>4 DEF OneSender, Sending, Locals, ThreadMsg
    <3>2. IsrMsg(m) = imsg /\ Front(m) = imsg
      BY <2>1, <2>4, <3>1 DEF Front, IsrMsg
    <3>3. free_queue'[m] = free_queue[m] + 1 /\ canmcf'[m] = imsg
      BY <1>2, <1>3, <1>9, <2>4 DEF IsrTxNext, QueueFree, QueuesOK, DevOK
    <3>4. Count(IsrMsg(m)) + Count(ThreadMsg(m)) = 1
      BY <2>1, <3>1, <3>2 DEF Count
    <3> QED
      BY <1>1, <2>1, <2>2, <2>3, <3>1, <3>2, <3>3, <3>4, TxStarted
  <2>5. CASE m # mbxid
    <3>1. free_queue'[m] = free_queue[m] /\ canmcf'[m] = canmcf[m]
      BY <1>2, <1>3, <1>9, <2>5 DEF IsrTxNext, QueueFree, QueuesOK, DevOK
    <3>2. IsrMsg(m) = None
      BY <2>5 DEF IsrMsg
    <3> QED
      BY <1>1, <2>2, <2>3, <3>1, <3>2, TxFrame DEF TxSame
  <2> QED
    BY <2>4, <2>5
<1>10. CASE IsrTxEnd
  <2>1. imsg = None /\ imsg' = None
    BY <1>1, <1>10 DEF IsrTxEnd, Locals, IsrLocals
  <2>2. IsrMsg(m) = None /\ IsrMsg(m)' = None
    BY <2>1 DEF IsrMsg
  <2>3. TxSame(m)
    BY <1>10, <2>2 DEF IsrTxEnd, TxSame, queues, thread, dev, hist, ThreadMsg
  <2> QED
    BY <1>1, <2>3, TxFrame
<1>11. ASSUME NEW k \in TxBoxes, Write(k)
       PROVE  TxElements(m)' /\ TxOrder(m)'
  <2>1. CASE m = k
    BY <1>1, <1>11, <2>1, TxWritten
  <2>2. CASE m # k
    <3>1. msg_queue'[m] = msg_queue[m] /\ free_queue'[m] = free_queue[m]
      BY <1>2, <1>3, <1>11, <2>2 DEF Write, QueuesOK, QueueMsg, DequeueFree
    <3>2. ThreadMsg(m) = None /\ ThreadMsg(m)' = None
      BY <1>1, <1>11 DEF Write, Locals, ThreadMsg
    <3>3. written'[m] = written[m] /\ sent' = sent
      BY <1>2, <1>11, <2>2 DEF Write, HistOK
    <3>4. UNCHANGED <<canmcf, IsrMsg(m)>>
      BY <1>11 DEF Write, dev, isr, IsrMsg
    <3> QED
      BY <1>1, <3>1, <3>2, <3>3, <3>4, TxFrame DEF TxSame
  <2> QED
    BY <2>1, <2>2
<1>12. ASSUME NEW k \in TxBoxes, BusSent(k)
       PROVE  TxElements(m)' /\ TxOrder(m)'
  <2>1. CASE m = k
    <3>1. canmcf[m] # None
      BY <1>12, <2>1 DEF BusSent
    <3>2. IsrMsg(m) = None /\ ThreadMsg(m) = None
      BY <1>1, <3>1 DEF OneSender, Sending, Locals, IsrMsg, ThreadMsg
    <3> QED
      BY <1>1, <1>12, <2>1, <3>2, TxSent
  <2>2. CASE m # k
    <3>1. canmcf'[m] = canmcf[m] /\ sent'[m] = sent[m]
      BY <1>2, <1>3, <1>12, <2>2 DEF BusSent, DevOK, HistOK
    <3>2. UNCHANGED <<free_queue, msg_queue, written, IsrMsg(m), ThreadMsg(m)>>
      BY <1>12 DEF BusSent, queues, isr, thread, IsrMsg, ThreadMsg
    <3> QED
      BY <1>1, <3>1, <3>2, TxFrame DEF TxSame
  <2> QED
    BY <2>1, <2>2
<1>13. ASSUME NEW k \in RxBoxes, Read(k)
       PROVE  TxElements(m)' /\ TxOrder(m)'
  <2>1. msg_queue'[m] = msg_queue[m]
    BY <1>2, <1>3, <1>13 DEF Read, QueuesOK, DequeueMsg
  <2>2. ThreadMsg(m) = None /\ ThreadMsg(m)' = None
    BY <1>1, <1>13 DEF Read, Locals, ThreadMsg
  <2>3. UNCHANGED <<free_queue, canmcf, written, sent, IsrMsg(m)>>
    BY <1>13 DEF Read, dev, hist, isr, IsrMsg
  <2> QED
    BY <1>1, <2>1, <2>2, <2>3, TxFrame DEF TxSame
<1>14. ASSUME NEW k \in RxBoxes, BusReceived(k)
       PROVE  TxElements(m)' /\ TxOrder(m)'
  <2>1. canmcf'[m] = canmcf[m]
    BY <1>2, <1>3, <1>14 DEF BusReceived, DevOK
  <2>2. UNCHANGED <<free_queue, msg_queue, written, sent, IsrMsg(m), ThreadMsg(m)>>
    BY <1>14 DEF BusReceived, queues, isr, thread, IsrMsg, ThreadMsg
  <2> QED
    BY <1>1, <2>1, <2>2, TxFrame DEF TxSame
<1>15. CASE TransmitTake
  <2>1. tmsg = None /\ tdev \in TxBoxes
    BY <1>1, <1>15 DEF TransmitTake, Locals
  <2>2. ThreadMsg(m) = None
    BY <2>1 DEF ThreadMsg
  <2>3. UNCHANGED <<free_queue, canmcf, written, sent, IsrMsg(m), tdev>>
    BY <1>15 DEF TransmitTake, dev, hist, isr, IsrMsg
  <2>4. CASE m = tdev /\ msg_queue[m] # << >>
    <3>1. canmcf[m] = None /\ IsrMsg(m) = None
      BY <1>1, <1>15, <2>4 DEF TransmitTake, OneSender, Sending, IsrMsg
    <3>2. DequeueMsg(m) /\ ThreadMsg(m)' = Head(msg_queue[m])
      BY <1>15, <2>3, <2>4 DEF TransmitTake, ThreadMsg
    <3> QED
      BY <1>1, <2>2, <2>3, <2>4, <3>1, <3>2, TxTaken
  <2>5. CASE ~(m = tdev /\ msg_queue[m] # << >>)
    <3>1. msg_queue'[m] = msg_queue[m]
      BY <1>2, <1>3, <1>15, <2>5 DEF TransmitTake, QueuesOK, DequeueMsg
    <3>2. ThreadMsg(m)' = None
      BY <1>15, <2>1, <2>3, <2>5 DEF TransmitTake, ThreadMsg
    <3> QED
      BY <1>1, <2>2, <2>3, <3>1, <3>2, TxFrame DEF TxSame
  <2> QED
    BY <2>4, <2>5
<1>16. CASE TransmitSend
  <2>1. tmsg # None /\ tdev \in TxBoxes
    BY <1>1, <1>16 DEF TransmitSend, Locals
  <2>2. UNCHANGED <<msg_queue, written, sent, IsrMsg(m)>>
    BY <1>16 DEF TransmitSend, hist, isr, IsrMsg
  <2>3. ThreadMsg(m)' = None
    BY <1>16 DEF TransmitSend, ThreadMsg
  <2>4. CASE m = tdev
    <3>1. canmcf[m] = None /\ IsrMsg(m) = None
      BY <1>1, <1>16, <2>4 DEF TransmitSend, OneSender, Sending, IsrMsg
    <3>2. ThreadMsg(m) = tmsg /\ Front(m) = tmsg
      BY <2>4, <3>1 DEF Front, ThreadMsg
    <3>3. free_queue'[m] = free_queue[m] + 1 /\ canmcf'[m] = tmsg
      BY <1>2, <1>3, <1>16, <2>4 DEF TransmitSend, QueueFree, QueuesOK, DevOK
    <3>4. Count(IsrMsg(m)) + Count(ThreadMsg(m)) = 1
      BY <2>1, <3>1, <3>2 DEF Count
    <3> QED
      BY <1>1, <2>1, <2>2, <2>3, <3>1, <3>2, <3>3, <3>4, TxStarted
  <2>5. CASE m # tdev
    <3>1. free_queue'[m] = free_queue[m] /\ canmcf'[m] = canmcf[m]
      BY <1>2, <1>3, <1>16, <2>5 DEF TransmitSend, QueueFree, QueuesOK, DevOK
    <3>2. ThreadMsg(m) = None
      BY <2>5 DEF ThreadMsg
    <3> QED
      BY <1>1, <2>2, <2>3, <3>1, <3>2, TxFrame DEF TxSame
  <2> QED
    BY <2>4, <2>5
<1>17. CASE ReadDone
  <2>1. tdev \in RxBoxes /\ tdev # m
    BY <1>1, <1>3, <1>17 DEF ReadDone, Locals
  <2>2. free_queue'[m] = free_queue[m]
    BY <1>2, <1>3, <1>17, <2>1 DEF ReadDone, QueueFree, QueuesOK
  <2>3. UNCHANGED <<msg_queue, canmcf, written, sent, IsrMsg(m), ThreadMsg(m)>>
    BY <1>17 DEF ReadDone, dev, isr, IsrMsg, ThreadMsg
  <2> QED
    BY <1>1, <2>2, <2>3, TxFrame DEF TxSame
<1>18. CASE MdriverData
  <2>1. free_queue'[m] = free_queue[m] /\ msg_queue'[m] = msg_queue[m]
    BY <1>2, <1>3, <1>18
       DEF MdriverData, DequeueFree, QueueMsg, QueuesOK, queues
  <2>2. UNCHANGED <<canmcf, written, sent, IsrMsg(m), ThreadMsg(m)>>
    BY <1>18 DEF MdriverData, dev, isr, thread, hist, IsrMsg, ThreadMsg
  <2> QED
    BY <1>1, <2>1, <2>2, TxFrame DEF TxSame
<1> QED
  BY <1>4, <1>5, <1>6, <1>7, <1>8, <1>9, <1>10, <1>11, <1>12, <1>13, <1>14,
     <1>15, <1>16, <1>17, <1>18 DEF Next

(* can_intr and can_drvr_transmit never both start a message of a mailbox,   *)
(* although TX_ENABLED is tested and set without a lock.                     *)
LEMMA OneSenderStep ==
  ASSUME CanInv, Next, NEW m \in TxBoxes
  PROVE  OneSender(m)'
<1>1. Locals /\ OneSender(m) /\ IsrOK /\ ThreadOK /\ DevOK
  BY TypeParts DEF CanInv
<1>2. m \in Boxes /\ m \notin RxBoxes /\ m # None
  BY BoxFacts
<1>3. mbxid = m => ipc \in {"txnext", "txend"}
  BY <1>1, <1>2 DEF IsrOK
<1>4. CASE IsrEnter
  BY <1>1, <1>2, <1>3, <1>4 DEF IsrEnter, OneSender, Sending, Locals, DevOK,
     IsrLocals, IsFirst, isr, thread, dev
<1>5. CASE IsrRead
  BY <1>1, <1>2, <1>3, <1>5 DEF IsrRead, OneSender, Sending, Locals, DevOK,
     IsrLocals, IsFirst, isr, thread, dev
<1>6. CASE IsrRx
  <2>1. PICK k \in RxBoxes :
          /\ \/ IsrLocals(k, canmcf[k]) /\ canmcf' = [canmcf EXCEPT ![k] = None]
             \/ UNCHANGED <<mbxid, imsg, canmcf>>
          /\ UNCHANGED <<tx_enabled, thread, iflag>>
    BY <1>6 DEF IsrRx
  <2>2. canmcf'[m] = canmcf[m] /\ (mbxid' = m => mbxid = m)
    BY <1>1, <1>2, <2>1 DEF DevOK, IsrLocals
  <2> QED
    BY <1>1, <2>1, <2>2 DEF OneSender, Sending, thread
<1>7. CASE IsrRxAck
  BY <1>1, <1>2, <1>3, <1>7 DEF IsrRxAck, ClearFlags, OneSender, Sending,
     Locals, DevOK,
     IsrLocals, IsFirst, isr, thread, dev
<1>8. CASE IsrTx
  BY <1>1, <1>2, <1>3, <1>8 DEF IsrTx, ClearFlags, OneSender, Sending, Locals,
     DevOK,
     IsrLocals, IsFirst, isr, thread, dev
<1>9. CASE IsrTxNext
  BY <1>1, <1>2, <1>3, <1>9 DEF IsrTxNext, OneSender, Sending, Locals, DevOK,
     IsrLocals, IsFirst, isr, thread, dev
<1>10. CASE IsrTxEnd
  BY <1>1, <1>2, <1>3, <1>10 DEF IsrTxEnd, OneSender, Sending, Locals, DevOK,
     IsrLocals, IsFirst, isr, thread, dev
<1>11. CASE IsrClear
  BY <1>1, <1>2, <1>3, <1>11 DEF IsrClear, ClearFlags, OneSender, Sending,
     Locals, DevOK,
     IsrLocals, IsFirst, isr, thread, dev
<1>12. ASSUME NEW k \in TxBoxes, Write(k)
      PROVE  OneSender(m)'
  BY <1>1, <1>2, <1>3, <1>12 DEF Write, OneSender, Sending, Locals, DevOK,
     IsrLocals, IsFirst, isr, thread, dev
<1>13. ASSUME NEW k \in TxBoxes, BusSent(k)
      PROVE  OneSender(m)'
  BY <1>1, <1>2, <1>3, <1>13 DEF BusSent, OneSender, Sending, Locals, DevOK,
     IsrLocals, IsFirst, isr, thread, dev
<1>14. ASSUME NEW k \in RxBoxes, Read(k)
      PROVE  OneSender(m)'
  BY <1>1, <1>2, <1>3, <1>14 DEF Read, OneSender, Sending, Locals, DevOK,
     IsrLocals, IsFirst, isr, thread, dev
<1>15. ASSUME NEW k \in RxBoxes, BusReceived(k)
      PROVE  OneSender(m)'
  <2>1. canmcf'[m] = canmcf[m] /\ (m \in iflag' <=> m \in iflag)
    BY <1>1, <1>2, <1>15 DEF BusReceived, DevOK
  <2> QED
    BY <1>1, <1>15, <2>1 DEF BusReceived, OneSender, Sending, isr, thread
<1>16. CASE TransmitTest
  BY <1>1, <1>2, <1>3, <1>16 DEF TransmitTest, OneSender, Sending, Locals,
     DevOK, IsrLocals, IsFirst, isr, thread, dev
<1>17. CASE TransmitTake
  BY <1>1, <1>2, <1>3, <1>17 DEF TransmitTake, OneSender, Sending, Locals,
     DevOK, IsrLocals, IsFirst, isr, thread, dev
<1>18. CASE TransmitSet
  BY <1>1, <1>2, <1>3, <1>18 DEF TransmitSet, OneSender, Sending, Locals,
     DevOK, IsrLocals, IsFirst, isr, thread, dev
<1>19. CASE TransmitSend
  BY <1>1, <1>2, <1>3, <1>19 DEF TransmitSend, OneSender, Sending, Locals,
     DevOK, IsrLocals, IsFirst, isr, thread, dev
<1>20. CASE ReadDone
  BY <1>1, <1>2, <1>3, <1>20 DEF ReadDone, OneSender, Sending, Locals, DevOK,
     IsrLocals, IsFirst, isr, thread, dev
<1>21. CASE MdriverData
  BY <1>1, <1>2, <1>3, <1>21 DEF MdriverData, OneSender, Sending, Locals,
     DevOK, IsrLocals, IsFirst, isr, thread, dev
<1>22. CASE ResmgrStart
  BY <1>1, <1>2, <1>3, <1>22 DEF ResmgrStart, OneSender, Sending, Locals,
     DevOK, IsrLocals, IsFirst, isr, thread, dev
<1> QED
  BY <1>4, <1>5, <1>6, <1>7, <1>8, <1>9, <1>10, <1>11, <1>12, <1>13, <1>14,
     <1>15, <1>16, <1>17, <1>18, <1>19, <1>20, <1>21, <1>22 DEF Next


(* The local variables of can_intr and can_drvr_transmit go with the places  *)
(* where they are.                                                           *)
LEMMA LocalsStep ==
  ASSUME CanInv, Next
  PROVE  Locals'
<1>1. Locals /\ QueuesOK /\ IsrOK /\ ThreadOK /\ DevOK
  BY TypeParts DEF CanInv
<1>2. \A m \in RxBoxes : FlagIsMsg(m)
  BY DEF CanInv
<1>3. /\ \A m \in TxBoxes : m \in Boxes /\ m \notin RxBoxes /\ m # None
      /\ \A m \in RxBoxes : m \in Boxes /\ m \notin TxBoxes /\ m # None
  BY BoxFacts
<1>4. CASE IsrEnter
  BY <1>1, <1>3, <1>4 DEF IsrEnter, Locals, IsrLocals, isr, thread, dev
<1>5. CASE IsrRead
  BY <1>1, <1>3, <1>5 DEF IsrRead, Locals, IsrLocals, isr, thread, dev
<1>6. CASE IsrRx
  <2>1. PICK k \in RxBoxes :
          /\ IsFirst(k, irqsrc \cap RxBoxes)
          /\ \/ IsrLocals(k, canmcf[k]) /\ ipc' = "rxack"
             \/ UNCHANGED <<mbxid, imsg>> /\ ipc' = "off"
          /\ UNCHANGED <<thread, irqsrc, reading, iflag>>
    BY <1>6 DEF IsrRx
  <2>2. k \in irqsrc /\ k \in iflag /\ mbxid = None /\ k # None /\ imsg = None
    BY <1>1, <1>3, <1>6, <2>1 DEF IsrRx, IsFirst, Locals, IsrOK
  <2>3. canmcf[k] # None
    BY <1>2, <2>2 DEF FlagIsMsg
  <2>4. ipc = "rx"
    BY <1>6 DEF IsrRx
  <2> QED
    BY <1>1, <2>1, <2>2, <2>3, <2>4 DEF Locals, IsrLocals, thread
<1>7. CASE IsrRxAck
  BY <1>1, <1>3, <1>7 DEF IsrRxAck, ClearFlags, Locals, IsrLocals, isr,
     thread, dev
<1>8. CASE IsrTx
  <2>1. PICK k \in TxBoxes :
          /\ IF msg_queue[k] # << >>
             THEN /\ DequeueMsg(k)
                  /\ IsrLocals(k, Head(msg_queue[k])) /\ ipc' = "txnext"
             ELSE IsrLocals(k, None) /\ ipc' = "txend"
          /\ UNCHANGED <<thread, reading>>
    BY <1>8 DEF IsrTx
  <2>2. msg_queue[k] # << >> => Head(msg_queue[k]) # None
    BY <1>1, <1>3, <2>1, Dequeued
  <2>3. imsg' # None <=> ipc' \in {"rxack", "txnext"}
    BY <2>1, <2>2 DEF IsrLocals
  <2>4. ipc' \in {"txnext", "txend"}
    BY <2>1
  <2> QED
    BY <1>1, <2>1, <2>3, <2>4 DEF Locals, thread
<1>9. CASE IsrTxNext
  BY <1>1, <1>3, <1>9 DEF IsrTxNext, Locals, IsrLocals, isr, thread, dev
<1>10. CASE IsrTxEnd
  BY <1>1, <1>3, <1>10 DEF IsrTxEnd, Locals, IsrLocals, isr, thread, dev
<1>11. CASE IsrClear
  BY <1>1, <1>3, <1>11 DEF IsrClear, Locals, IsrLocals, isr, thread, dev
<1>12. ASSUME NEW k \in TxBoxes, Write(k)
      PROVE  Locals'
  <2>1. /\ tpc = "idle" /\ tpc' = "test" /\ tdev' = k
        /\ UNCHANGED <<tmsg, reading, ipc, irqsrc, mbxid, imsg, iflag>>
    BY <1>12 DEF Write, isr, dev
  <2> QED
    BY <1>1, <2>1 DEF Locals
<1>13. ASSUME NEW k \in TxBoxes, BusSent(k)
      PROVE  Locals'
  <2>1. iflag \subseteq iflag' /\ UNCHANGED <<isr, thread, reading>>
    BY <1>13 DEF BusSent
  <2> QED
    BY <1>1, <2>1 DEF Locals, isr, thread
<1>14. ASSUME NEW k \in RxBoxes, Read(k)
      PROVE  Locals'
  <2>1. Head(msg_queue[k]) # None
    BY <1>1, <1>3, <1>14, Dequeued DEF Read
  <2>2. /\ tpc = "idle" /\ tpc' = "read" /\ tdev' = k /\ tmsg' = tmsg
        /\ reading' = [reading EXCEPT ![k] = Head(msg_queue[k])]
        /\ UNCHANGED <<ipc, irqsrc, mbxid, imsg, iflag>>
    BY <1>14 DEF Read, isr, dev
  <2>3. \A m \in RxBoxes : reading'[m] # None <=> m = k
    BY <1>1, <2>1, <2>2 DEF Locals, ThreadOK
  <2> QED
    BY <1>1, <2>2, <2>3 DEF Locals
<1>15. ASSUME NEW k \in RxBoxes, BusReceived(k)
      PROVE  Locals'
  <2>1. iflag \subseteq iflag' /\ UNCHANGED <<isr, thread, reading>>
    BY <1>15 DEF BusReceived
  <2> QED
    BY <1>1, <2>1 DEF Locals, isr, thread
<1>16. CASE TransmitTest
  BY <1>1, <1>3, <1>16 DEF TransmitTest, Locals, IsrLocals, isr, thread, dev
<1>17. CASE TransmitTake
  <2>1. tdev \in TxBoxes /\ tmsg = None /\ tpc = "take"
    BY <1>1, <1>17 DEF TransmitTake, Locals
  <2>2. msg_queue[tdev] # << >> => Head(msg_queue[tdev]) # None
    BY <1>1, <1>3, <1>17, <2>1, Dequeued DEF TransmitTake
  <2>3. /\ tmsg' # None <=> tpc' \in {"set", "send"}
        /\ tpc' \in {"idle", "set"}
    BY <1>17, <2>1, <2>2 DEF TransmitTake
  <2>4. UNCHANGED <<tdev, reading, isr, iflag>>
    BY <1>17 DEF TransmitTake, dev
  <2> QED
    BY <1>1, <2>1, <2>3, <2>4 DEF Locals, isr
<1>18. CASE TransmitSet
  BY <1>1, <1>3, <1>18 DEF TransmitSet, Locals, IsrLocals, isr, thread, dev
<1>19. CASE TransmitSend
  BY <1>1, <1>3, <1>19 DEF TransmitSend, Locals, IsrLocals, isr, thread, dev
<1>20. CASE ReadDone
  <2>1. /\ tpc = "read" /\ tpc' = "idle" /\ UNCHANGED <<tdev, tmsg>>
        /\ reading' = [reading EXCEPT ![tdev] = None]
        /\ UNCHANGED <<ipc, irqsrc, mbxid, imsg, iflag>>
    BY <1>20 DEF ReadDone, isr, dev
  <2>2. \A m \in RxBoxes : reading'[m] = None
    BY <1>1, <2>1 DEF Locals, ThreadOK
  <2> QED
    BY <1>1, <2>1, <2>2 DEF Locals
<1>21. CASE MdriverData
  BY <1>1, <1>3, <1>21 DEF MdriverData, Locals, IsrLocals, isr, thread, dev
<1>22. CASE ResmgrStart
  BY <1>1, <1>3, <1>22 DEF ResmgrStart, Locals, IsrLocals, isr, thread, dev
<1> QED
  BY <1>4, <1>5, <1>6, <1>7, <1>8, <1>9, <1>10, <1>11, <1>12, <1>13, <1>14,
     <1>15, <1>16, <1>17, <1>18, <1>19, <1>20, <1>21, <1>22 DEF Next


(* The flag of a receive mailbox stands for a message that can_intr has not  *)
(* read yet: it clears no flag of one.                                       *)
LEMMA FlagStep ==
  ASSUME CanInv, Next, NEW m \in RxBoxes
  PROVE  FlagIsMsg(m)'
<1>1. Locals /\ FlagIsMsg(m) /\ IsrOK /\ ThreadOK /\ DevOK
  BY TypeParts DEF CanInv
<1>2. m \in Boxes /\ m \notin TxBoxes /\ m # None
  BY BoxFacts
<1>3. mbxid = m => ipc = "rxack"
  BY <1>1, <1>2 DEF IsrOK
<1>4. CASE IsrEnter
  BY <1>1, <1>2, <1>3, <1>4 DEF IsrEnter, FlagIsMsg, Locals, IsrLocals, isr,
     dev
<1>5. CASE IsrRead
  BY <1>1, <1>2, <1>3, <1>5 DEF IsrRead, FlagIsMsg, Locals, IsrLocals, isr, dev
<1>6. CASE IsrRx
  <2>1. PICK k \in RxBoxes :
          /\ \/ IsrLocals(k, canmcf[k]) /\ canmcf' = [canmcf EXCEPT ![k] = None]
             \/ UNCHANGED <<mbxid, imsg, canmcf>>
          /\ UNCHANGED iflag
    BY <1>6 DEF IsrRx
  <2>2. mbxid # m
    BY <1>3, <1>6 DEF IsrRx
  <2> QED
    BY <1>1, <1>2, <2>1, <2>2 DEF FlagIsMsg, IsrLocals, DevOK
<1>7. CASE IsrRxAck
  BY <1>1, <1>2, <1>3, <1>7 DEF IsrRxAck, ClearFlags, FlagIsMsg, Locals,
     IsrLocals, isr,
     dev
<1>8. CASE IsrTx
  BY <1>1, <1>2, <1>3, <1>8 DEF IsrTx, ClearFlags, FlagIsMsg, Locals,
     IsrLocals, isr, dev
<1>9. CASE IsrTxNext
  <2>1. canmcf'[m] = canmcf[m] /\ mbxid # m
    BY <1>1, <1>2, <1>3, <1>9 DEF IsrTxNext, DevOK, Locals
  <2> QED
    BY <1>1, <1>9, <2>1 DEF IsrTxNext, FlagIsMsg
<1>10. CASE IsrTxEnd
  BY <1>1, <1>2, <1>3, <1>10 DEF IsrTxEnd, FlagIsMsg, Locals, IsrLocals, isr,
     dev
<1>11. CASE IsrClear
  BY <1>1, <1>2, <1>3, <1>11 DEF IsrClear, ClearFlags, FlagIsMsg, Locals,
     IsrLocals, isr,
     dev
<1>12. ASSUME NEW k \in TxBoxes, Write(k)
      PROVE  FlagIsMsg(m)'
  BY <1>1, <1>2, <1>3, <1>12 DEF Write, FlagIsMsg, Locals, IsrLocals, isr, dev
<1>13. ASSUME NEW k \in TxBoxes, BusSent(k)
      PROVE  FlagIsMsg(m)'
  <2>1. canmcf'[m] = canmcf[m] /\ (m \in iflag' <=> m \in iflag)
    BY <1>1, <1>2, <1>13 DEF BusSent, DevOK
  <2> QED
    BY <1>1, <1>13, <2>1 DEF BusSent, FlagIsMsg, isr
<1>14. ASSUME NEW k \in RxBoxes, Read(k)
      PROVE  FlagIsMsg(m)'
  BY <1>1, <1>2, <1>3, <1>14 DEF Read, FlagIsMsg, Locals, IsrLocals, isr, dev
<1>15. ASSUME NEW k \in RxBoxes, BusReceived(k)
      PROVE  FlagIsMsg(m)'
  <2>1. m = k => canmcf'[m] # None
    BY <1>1, <1>2, <1>15 DEF BusReceived, DevOK, None, CanInv, TypeOK
  <2>2. m # k => canmcf'[m] = canmcf[m] /\ (m \in iflag' <=> m \in iflag)
    BY <1>1, <1>2, <1>15 DEF BusReceived, DevOK
  <2> QED
    BY <1>1, <1>15, <2>1, <2>2 DEF BusReceived, FlagIsMsg, isr
<1>16. CASE TransmitTest
  BY <1>1, <1>2, <1>3, <1>16 DEF TransmitTest, FlagIsMsg, Locals, IsrLocals,
     isr, dev
<1>17. CASE TransmitTake
  BY <1>1, <1>2, <1>3, <1>17 DEF TransmitTake, FlagIsMsg, Locals, IsrLocals,
     isr, dev
<1>18. CASE TransmitSet
  BY <1>1, <1>2, <1>3, <1>18 DEF TransmitSet, FlagIsMsg, Locals, IsrLocals,
     isr, dev
<1>19. CASE TransmitSend
  <2>1. canmcf'[m] = canmcf[m]
    BY <1>1, <1>2, <1>19 DEF TransmitSend, DevOK, Locals
  <2> QED
    BY <1>1, <1>19, <2>1 DEF TransmitSend, FlagIsMsg, isr
<1>20. CASE ReadDone
  BY <1>1, <1>2, <1>3, <1>20 DEF ReadDone, FlagIsMsg, Locals, IsrLocals, isr,
     dev
<1>21. CASE MdriverData
  BY <1>1, <1>2, <1>3, <1>21 DEF MdriverData, FlagIsMsg, Locals, IsrLocals,
     isr, dev
<1>22. CASE ResmgrStart
  BY <1>1, <1>2, <1>3, <1>22 DEF ResmgrStart, FlagIsMsg, Locals, IsrLocals,
     isr, dev
<1> QED
  BY <1>4, <1>5, <1>6, <1>7, <1>8, <1>9, <1>10, <1>11, <1>12, <1>13, <1>14,
     <1>15, <1>16, <1>17, <1>18, <1>19, <1>20, <1>21, <1>22 DEF Next
-----------------------------------------------------------------------------
(***************************************************************************)
(* Reception.                                                              *)
(***************************************************************************)
(* No message is numbered 0, and 0 is not a message of the bus. *)
LEMMA BeforeNone == \A x \in Nat : Before(x, None) /\ Before(None, x)
BY CanAssumption DEF Before, FromBus, None

(* A message that a mini-driver has buffered is not one of the bus. *)
LEMMA BeforeMdriver ==
  ASSUME NEW y \in Nat, y <= MdriverRx
  PROVE  \A x \in Nat : Before(x, y) /\ Before(y, x)
BY CanAssumption DEF Before, FromBus

(* A message that arrives is later than all that have. *)
LEMMA BeforeLatest ==
  ASSUME NEW x \in Nat, NEW y \in Nat, x <= y
  PROVE  Before(x, y + 1)
BY CanAssumption DEF Before, FromBus

(* A step of can_intr, a client or the bus on another mailbox. *)
LEMMA RxFrame ==
  ASSUME TypeOK, NEW m \in RxBoxes, RxElements(m), RxOrder(m),
         arrived' \in Nat, arrived <= arrived',
         UNCHANGED <<free_queue[m], msg_queue[m], canmcf[m], reading[m],
                     taken[m], IsrMsg(m)>>
  PROVE  RxElements(m)' /\ RxOrder(m)'
<1>1. m \in Boxes
  BY BoxFacts
<1>2. /\ taken[m] \in Nat /\ reading[m] \in Nat /\ canmcf[m] \in Nat
      /\ IsrMsg(m) \in Nat /\ arrived \in Nat
      /\ \A i \in 1 .. Len(msg_queue[m]) : msg_queue[m][i] \in Nat
  BY <1>1, BoxTypes DEF IsrMsg, TypeOK, None
<1>3. RxElements(m)'
  BY DEF RxElements, Count
<1>4. RxAround(m)'
  BY <1>2 DEF RxOrder, RxAround, Before, FromBus
<1>5. RxQueued(m)'
  BY <1>2 DEF RxOrder, RxQueued, Before, FromBus
<1>6. RxSorted(m)'
  BY DEF RxOrder, RxSorted, Before, FromBus
<1> QED
  BY <1>3, <1>4, <1>5, <1>6 DEF RxOrder

(* can_intr reads a mailbox into a free element or into that of the oldest   *)
(* message.                                                                  *)
LEMMA RxTaken ==
  ASSUME TypeOK, NEW m \in RxBoxes, RxElements(m), RxOrder(m),
         IsrMsg(m) = None, IsrMsg(m)' = canmcf[m], canmcf[m] # None,
         canmcf'[m] = None,
         \/ free_queue'[m] = free_queue[m] - 1 /\ msg_queue'[m] = msg_queue[m]
         \/ /\ free_queue'[m] = free_queue[m]
            /\ msg_queue[m] # << >> /\ DequeueMsg(m),
         UNCHANGED <<reading[m], taken[m], arrived>>
  PROVE  RxElements(m)' /\ RxOrder(m)'
<1>1. m \in Boxes
  BY BoxFacts
<1>2. /\ taken[m] \in Nat /\ reading[m] \in Nat /\ canmcf[m] \in Nat
      /\ IsrMsg(m) \in Nat /\ arrived \in Nat
      /\ \A i \in 1 .. Len(msg_queue[m]) : msg_queue[m][i] \in Nat
  BY <1>1, BoxTypes DEF IsrMsg, TypeOK, None
<1>3. free_queue[m] \in Nat /\ Len(msg_queue[m]) \in Nat /\ QSize \in Nat
  BY <1>1, BoxTypes, CanAssumption
<1>4. RxAround(m)'
  <2>1. None <= arrived
    BY <1>2 DEF None
  <2> QED
    BY <1>2, <2>1, BeforeNone DEF RxOrder, RxAround
<1>5. CASE free_queue'[m] = free_queue[m] - 1 /\ msg_queue'[m] = msg_queue[m]
  <2>1. RxElements(m)'
    BY <1>3, <1>5 DEF RxElements, Count
  <2>2. RxQueued(m)' /\ RxSorted(m)'
    BY <1>2, <1>5, BeforeNone DEF RxOrder, RxQueued, RxSorted
  <2> QED
    BY <1>4, <2>1, <2>2 DEF RxOrder
<1>6. CASE /\ free_queue'[m] = free_queue[m]
           /\ msg_queue[m] # << >> /\ DequeueMsg(m)
  <2>1. /\ Len(msg_queue'[m]) = Len(msg_queue[m]) - 1
        /\ \A i \in 1 .. Len(msg_queue'[m]) :
             i + 1 \in 1 .. Len(msg_queue[m])
               /\ msg_queue'[m][i] = msg_queue[m][i + 1]
    BY <1>1, <1>6, Dequeued, TypeParts
  <2>2. RxElements(m)'
    <3>1. Len(msg_queue'[m]) = Len(msg_queue[m]) - 1
      BY <2>1
    <3> QED
      BY <1>3, <1>6, <3>1 DEF RxElements, Count
  <2>3. RxQueued(m)'
    BY <1>2, <2>1, BeforeNone DEF RxOrder, RxQueued
  <2>4. RxSorted(m)'
    <3>1. \A i, j \in 1 .. Len(msg_queue'[m]) : i < j => i + 1 < j + 1
      BY <1>3, <2>1
    <3> QED
      BY <2>1, <3>1 DEF RxOrder, RxSorted
  <2> QED
    BY <1>4, <2>2, <2>3, <2>4 DEF RxOrder
<1> QED
  BY <1>5, <1>6

(* can_intr queues the message it has read behind all others. *)
LEMMA RxAcked ==
  ASSUME TypeOK, NEW m \in RxBoxes, RxElements(m), RxOrder(m),
         IsrMsg(m) # None, QueueMsg(m, IsrMsg(m)), IsrMsg(m)' = None,
         UNCHANGED <<free_queue[m], canmcf[m], reading[m], taken[m], arrived>>
  PROVE  RxElements(m)' /\ RxOrder(m)'
<1>1. m \in Boxes
  BY BoxFacts
<1>2. /\ taken[m] \in Nat /\ reading[m] \in Nat /\ canmcf[m] \in Nat
      /\ IsrMsg(m) \in Nat /\ arrived \in Nat
      /\ \A i \in 1 .. Len(msg_queue[m]) : msg_queue[m][i] \in Nat
  BY <1>1, BoxTypes DEF IsrMsg, TypeOK, None
<1>3. free_queue[m] \in Nat /\ Len(msg_queue[m]) \in Nat /\ QSize \in Nat
  BY <1>1, BoxTypes, CanAssumption
<1>4. /\ Len(msg_queue'[m]) = Len(msg_queue[m]) + 1
      /\ \A i \in 1 .. Len(msg_queue[m]) : msg_queue'[m][i] = msg_queue[m][i]
      /\ msg_queue'[m][Len(msg_queue[m]) + 1] = IsrMsg(m)
  BY <1>1, <1>2, Enqueued, TypeParts
<1>5. Len(msg_queue'[m]) = Len(msg_queue[m]) + 1
  BY <1>4
<1>6. \A i \in 1 .. Len(msg_queue'[m]) :
        \/ i \in 1 .. Len(msg_queue[m]) /\ msg_queue'[m][i] = msg_queue[m][i]
        \/ i = Len(msg_queue[m]) + 1 /\ msg_queue'[m][i] = IsrMsg(m)
  BY <1>3, <1>4
<1>7. RxElements(m)'
  BY <1>3, <1>5 DEF RxElements, Count
<1>8. RxAround(m)'
  <2>1. None <= arrived
    BY <1>2 DEF None
  <2> QED
    BY <1>2, <2>1, BeforeNone DEF RxOrder, RxAround
<1>9. RxQueued(m)'
  BY <1>2, <1>6, BeforeNone DEF RxOrder, RxAround, RxQueued
<1>10. RxSorted(m)'
  <2> SUFFICES ASSUME NEW i \in 1 .. Len(msg_queue'[m]),
                      NEW j \in 1 .. Len(msg_queue'[m]), i < j
               PROVE  Before(msg_queue'[m][i], msg_queue'[m][j])
    BY DEF RxSorted, Before, FromBus
  <2>1. i \in 1 .. Len(msg_queue[m]) /\ msg_queue'[m][i] = msg_queue[m][i]
    BY <1>3, <1>5, <1>6
  <2>2. CASE j \in 1 .. Len(msg_queue[m]) /\ msg_queue'[m][j] = msg_queue[m][j]
    BY <2>1, <2>2 DEF RxOrder, RxSorted
  <2>3. CASE msg_queue'[m][j] = IsrMsg(m)
    BY <2>1, <2>3 DEF RxOrder, RxQueued
  <2> QED
    BY <1>6, <2>2, <2>3
<1> QED
  BY <1>7, <1>8, <1>9, <1>10 DEF RxOrder

(* A message of a mini-driver is queued: it is not one of the bus. *)
LEMMA RxMdriver ==
  ASSUME TypeOK, NEW m \in RxBoxes, RxElements(m), RxOrder(m),
         MdriverRx <= arrived, NEW x \in Nat, 0 < x, x <= MdriverRx,
         QueueMsg(m, x), free_queue'[m] = free_queue[m] - 1,
         UNCHANGED <<canmcf[m], reading[m], taken[m], IsrMsg(m), arrived>>
  PROVE  RxElements(m)' /\ RxOrder(m)'
<1>1. m \in Boxes
  BY BoxFacts
<1>2. /\ taken[m] \in Nat /\ reading[m] \in Nat /\ canmcf[m] \in Nat
      /\ IsrMsg(m) \in Nat /\ arrived \in Nat
      /\ \A i \in 1 .. Len(msg_queue[m]) : msg_queue[m][i] \in Nat
  BY <1>1, BoxTypes DEF IsrMsg, TypeOK, None
<1>3. free_queue[m] \in Nat /\ Len(msg_queue[m]) \in Nat /\ QSize \in Nat
  BY <1>1, BoxTypes, CanAssumption
<1>4. /\ Len(msg_queue'[m]) = Len(msg_queue[m]) + 1
      /\ \A i \in 1 .. Len(msg_queue[m]) : msg_queue'[m][i] = msg_queue[m][i]
      /\ msg_queue'[m][Len(msg_queue[m]) + 1] = x
  BY <1>1, Enqueued, TypeParts DEF None
<1>5. Len(msg_queue'[m]) = Len(msg_queue[m]) + 1
  BY <1>4
<1>6. \A i \in 1 .. Len(msg_queue'[m]) :
        \/ i \in 1 .. Len(msg_queue[m]) /\ msg_queue'[m][i] = msg_queue[m][i]
        \/ i = Len(msg_queue[m]) + 1 /\ msg_queue'[m][i] = x
  BY <1>3, <1>4
<1>7. RxElements(m)'
  <2>1. PICK a \in Nat, b \in Nat :
          /\ a = Count(IsrMsg(m)) /\ a = Count(IsrMsg(m))'
          /\ b = Count(reading[m]) /\ b = Count(reading[m])'
    BY DEF Count
  <2>2. PICK f \in Nat, n \in Nat : f = free_queue[m] /\ n = Len(msg_queue[m])
    BY <1>3
  <2>3. f + n + a + b = QSize
    BY <2>1, <2>2 DEF RxElements
  <2>4. free_queue'[m] = f - 1 /\ Len(msg_queue'[m]) = n + 1
    BY <1>5, <2>2
  <2>5. (f - 1) + (n + 1) + a + b = QSize
    BY <2>3
  <2> QED
    BY <2>1, <2>4, <2>5 DEF RxElements
<1>8. RxAround(m)'
  BY <1>2 DEF RxOrder, RxAround, Before, FromBus
<1>9. x <= arrived /\ \A y \in Nat : Before(x, y) /\ Before(y, x)
  BY <1>2, BeforeMdriver, CanAssumption
<1>10. RxQueued(m)'
  BY <1>2, <1>6, <1>9 DEF RxOrder, RxQueued
<1>11. RxSorted(m)'
  <2> SUFFICES ASSUME NEW i \in 1 .. Len(msg_queue'[m]),
                      NEW j \in 1 .. Len(msg_queue'[m]), i < j
               PROVE  Before(msg_queue'[m][i], msg_queue'[m][j])
    BY DEF RxSorted, Before, FromBus
  <2>1. i \in 1 .. Len(msg_queue[m]) /\ msg_queue'[m][i] = msg_queue[m][i]
    BY <1>3, <1>5, <1>6
  <2>2. CASE j \in 1 .. Len(msg_queue[m]) /\ msg_queue'[m][j] = msg_queue[m][j]
    BY <2>1, <2>2 DEF RxOrder, RxSorted
  <2>3. CASE msg_queue'[m][j] = x
    BY <1>2, <1>9, <2>1, <2>3
  <2> QED
    BY <1>6, <2>2, <2>3
<1> QED
  BY <1>7, <1>8, <1>10, <1>11 DEF RxOrder

(* A client takes the oldest message of the queue. *)
LEMMA RxRead ==
  ASSUME TypeOK, NEW m \in RxBoxes, RxElements(m), RxOrder(m),
         reading[m] = None, msg_queue[m] # << >>, DequeueMsg(m),
         reading'[m] = Head(msg_queue[m]),
         UNCHANGED <<free_queue[m], canmcf[m], taken[m], IsrMsg(m), arrived>>
  PROVE  RxElements(m)' /\ RxOrder(m)'
<1>1. m \in Boxes
  BY BoxFacts
<1>2. /\ taken[m] \in Nat /\ canmcf[m] \in Nat
      /\ IsrMsg(m) \in Nat /\ arrived \in Nat
  BY <1>1, BoxTypes DEF IsrMsg, TypeOK, None
<1>3. free_queue[m] \in Nat /\ Len(msg_queue[m]) \in Nat /\ QSize \in Nat
  BY <1>1, BoxTypes, CanAssumption
<1>4. /\ Len(msg_queue[m]) >= 1
      /\ Len(msg_queue'[m]) = Len(msg_queue[m]) - 1
      /\ \A i \in 1 .. Len(msg_queue'[m]) :
           i + 1 \in 1 .. Len(msg_queue[m])
             /\ msg_queue'[m][i] = msg_queue[m][i + 1]
      /\ reading'[m] = msg_queue[m][1] /\ reading'[m] # None
  BY <1>1, Dequeued, TypeParts
<1>5. Len(msg_queue'[m]) = Len(msg_queue[m]) - 1 /\ reading'[m] # None
  BY <1>4
<1>6. 1 \in 1 .. Len(msg_queue[m])
  BY <1>3, <1>4
<1>7. RxElements(m)'
  BY <1>3, <1>5 DEF RxElements, Count
<1>8. RxAround(m)'
  BY <1>2, <1>4, <1>6 DEF RxOrder, RxAround, RxQueued
<1>9. RxQueued(m)'
  <2>1. \A i \in 1 .. Len(msg_queue'[m]) : 1 < i + 1
    BY <1>3, <1>5
  <2>2. \A i \in 1 .. Len(msg_queue'[m]) : Before(reading'[m], msg_queue'[m][i])
    BY <1>4, <1>6, <2>1 DEF RxOrder, RxSorted
  <2> QED
    BY <1>4, <2>2 DEF RxOrder, RxQueued
<1>10. RxSorted(m)'
  BY <1>3, <1>4 DEF RxOrder, RxSorted
<1> QED
  BY <1>7, <1>8, <1>9, <1>10 DEF RxOrder

(* The client has copied it. *)
LEMMA RxReadDone ==
  ASSUME TypeOK, NEW m \in RxBoxes, RxElements(m), RxOrder(m),
         reading[m] # None, reading'[m] = None, taken'[m] = reading[m],
         free_queue'[m] = free_queue[m] + 1,
         UNCHANGED <<msg_queue[m], canmcf[m], IsrMsg(m), arrived>>
  PROVE  RxElements(m)' /\ RxOrder(m)'
<1>1. m \in Boxes
  BY BoxFacts
<1>2. /\ taken[m] \in Nat /\ reading[m] \in Nat /\ canmcf[m] \in Nat
      /\ IsrMsg(m) \in Nat /\ arrived \in Nat /\ None <= arrived
      /\ \A i \in 1 .. Len(msg_queue[m]) : msg_queue[m][i] \in Nat
  BY <1>1, BoxTypes DEF IsrMsg, TypeOK, None
<1>3. free_queue[m] \in Nat /\ Len(msg_queue[m]) \in Nat /\ QSize \in Nat
  BY <1>1, BoxTypes, CanAssumption
<1>4. RxElements(m)'
  BY <1>3 DEF RxElements, Count
<1>5. RxAround(m)'
  BY <1>2, BeforeNone DEF RxOrder, RxAround
<1>6. RxQueued(m)' /\ RxSorted(m)'
  BY <1>2, BeforeNone DEF RxOrder, RxQueued, RxSorted
<1> QED
  BY <1>4, <1>5, <1>6 DEF RxOrder

(* A frame from the bus replaces what is in the mailbox. *)
LEMMA RxArrived ==
  ASSUME TypeOK, NEW m \in RxBoxes, RxElements(m), RxOrder(m),
         MdriverRx <= arrived, arrived' = arrived + 1,
         canmcf'[m] = arrived + 1,
         UNCHANGED <<free_queue[m], msg_queue[m], reading[m], taken[m],
                     IsrMsg(m)>>
  PROVE  RxElements(m)' /\ RxOrder(m)'
<1>1. m \in Boxes
  BY BoxFacts
<1>2. /\ taken[m] \in Nat /\ reading[m] \in Nat /\ canmcf[m] \in Nat
      /\ IsrMsg(m) \in Nat /\ arrived \in Nat
      /\ \A i \in 1 .. Len(msg_queue[m]) : msg_queue[m][i] \in Nat
  BY <1>1, BoxTypes DEF IsrMsg, TypeOK, None
<1>3. RxElements(m)'
  BY DEF RxElements, Count
<1>4. RxAround(m)'
  <2>1. FromBus(canmcf'[m])
    BY <1>2, CanAssumption DEF FromBus
  <2>2. /\ Before(taken[m], canmcf'[m]) /\ Before(reading[m], canmcf'[m])
        /\ Before(IsrMsg(m), canmcf'[m])
    BY <1>2, BeforeLatest DEF RxOrder, RxAround
  <2>3. /\ taken[m] <= arrived' /\ reading[m] <= arrived'
        /\ canmcf'[m] <= arrived' /\ IsrMsg(m) <= arrived'
    BY <1>2 DEF RxOrder, RxAround
  <2> QED
    BY <2>1, <2>2, <2>3 DEF RxOrder, RxAround
<1>5. RxQueued(m)'
  <2>1. \A i \in 1 .. Len(msg_queue[m]) :
          /\ msg_queue[m][i] <= arrived'
          /\ Before(msg_queue[m][i], canmcf'[m])
    BY <1>2, BeforeLatest DEF RxOrder, RxQueued
  <2> QED
    BY <2>1 DEF RxOrder, RxQueued
<1>6. RxSorted(m)'
  BY DEF RxOrder, RxSorted
<1> QED
  BY <1>3, <1>4, <1>5, <1>6 DEF RxOrder

(* Every step keeps the elements and the order of a receive mailbox. *)
LEMMA RxStep ==
  ASSUME CanInv, Next, NEW m \in RxBoxes
  PROVE  RxElements(m)' /\ RxOrder(m)'
<1>1. /\ TypeOK /\ Locals /\ RxElements(m) /\ FlagIsMsg(m) /\ RxOrder(m)
      /\ MdriverRx <= arrived
  BY DEF CanInv
<1>2. QueuesOK /\ IsrOK /\ ThreadOK /\ DevOK /\ HistOK
  BY <1>1, TypeParts
<1>3. m \in Boxes /\ m \notin TxBoxes /\ m # None
  BY BoxFacts
<1>4. arrived \in Nat /\ arrived <= arrived
  BY <1>2 DEF HistOK
<1> DEFINE Same == UNCHANGED <<free_queue[m], msg_queue[m], canmcf[m], reading[m],
                               taken[m], IsrMsg(m), arrived>>
<1>5. Same => RxElements(m)' /\ RxOrder(m)'
  BY <1>1, <1>4, RxFrame
<1>6. CASE IsrEnter \/ IsrRead \/ IsrClear
  BY <1>5, <1>6 DEF IsrEnter, IsrRead, IsrClear, queues, dev, hist, IsrMsg
<1>7. CASE TransmitTest \/ TransmitSet \/ ResmgrStart
  BY <1>5, <1>7 DEF TransmitTest, TransmitSet, ResmgrStart, queues, isr, dev,
     hist, IsrMsg
<1>8. CASE IsrRx
  <2>1. PICK k \in RxBoxes :
          /\ IsFirst(k, irqsrc \cap RxBoxes)
          /\ \/ DequeueFree(k) /\ UNCHANGED msg_queue
                /\ IsrLocals(k, canmcf[k]) /\ canmcf' = [canmcf EXCEPT ![k] = None]
             \/ msg_queue[k] # << >> /\ DequeueMsg(k) /\ UNCHANGED free_queue
                /\ IsrLocals(k, canmcf[k]) /\ canmcf' = [canmcf EXCEPT ![k] = None]
             \/ UNCHANGED <<queues, mbxid, imsg, canmcf>>
          /\ UNCHANGED <<reading, hist>>
    BY <1>8 DEF IsrRx
  <2>2. mbxid = None /\ IsrMsg(m) = None
    BY <1>2, <1>3, <1>8 DEF IsrRx, IsrOK, IsrMsg
  <2>3. UNCHANGED <<reading[m], taken[m], arrived>>
    BY <2>1 DEF hist
  <2>4. CASE UNCHANGED <<queues, mbxid, imsg, canmcf>>
    BY <1>5, <2>3, <2>4 DEF queues, IsrMsg
  <2>5. CASE /\ ~UNCHANGED <<queues, mbxid, imsg, canmcf>>
             /\ m # k
    <3>1. free_queue'[m] = free_queue[m] /\ msg_queue'[m] = msg_queue[m]
      BY <1>2, <1>3, <2>1, <2>5 DEF QueuesOK, DequeueFree, DequeueMsg
    <3>2. canmcf'[m] = canmcf[m] /\ IsrMsg(m)' = None
      BY <1>2, <1>3, <2>1, <2>5 DEF DevOK, IsrLocals, IsrMsg
    <3> QED
      BY <1>5, <2>2, <2>3, <3>1, <3>2
  <2>6. CASE /\ ~UNCHANGED <<queues, mbxid, imsg, canmcf>>
             /\ m = k
    <3>1. m \in iflag
      BY <1>1, <1>8, <2>1, <2>6 DEF IsrRx, IsFirst, Locals
    <3>2. canmcf[m] # None
      BY <1>1, <1>3, <2>2, <3>1 DEF FlagIsMsg
    <3>3. canmcf'[m] = None /\ IsrMsg(m)' = canmcf[m]
      BY <1>2, <1>3, <2>1, <2>6 DEF DevOK, IsrLocals, IsrMsg
    <3>4. \/ free_queue'[m] = free_queue[m] - 1 /\ msg_queue'[m] = msg_queue[m]
          \/ /\ free_queue'[m] = free_queue[m]
             /\ msg_queue[m] # << >> /\ DequeueMsg(m)
      BY <1>2, <1>3, <2>1, <2>6 DEF QueuesOK, DequeueFree
    <3> QED
      BY <1>1, <2>2, <2>3, <3>2, <3>3, <3>4, RxTaken
  <2> QED
    BY <2>4, <2>5, <2>6
<1>9. CASE IsrRxAck
  <2>1. imsg # None /\ mbxid \in RxBoxes
    BY <1>1, <1>2, <1>9 DEF IsrRxAck, IsrOK, Locals
  <2>2. UNCHANGED <<free_queue, canmcf, reading, taken, arrived>>
    BY <1>9 DEF IsrRxAck, hist
  <2>3. IsrMsg(m)' = None
    BY <1>9 DEF IsrRxAck, IsrLocals, IsrMsg
  <2>4. CASE m = mbxid
    <3>1. IsrMsg(m) # None /\ QueueMsg(m, IsrMsg(m))
      BY <1>9, <2>1, <2>4 DEF IsrRxAck, IsrMsg
    <3> QED
      BY <1>1, <2>2, <2>3, <3>1, RxAcked
  <2>5. CASE m # mbxid
    <3>1. msg_queue'[m] = msg_queue[m] /\ IsrMsg(m) = None
      BY <1>2, <1>3, <1>9, <2>5 DEF IsrRxAck, QueueMsg, QueuesOK, IsrMsg
    <3> QED
      BY <1>5, <2>2, <2>3, <3>1
  <2> QED
    BY <2>4, <2>5
<1>10. CASE IsrTx
  <2>1. PICK k \in TxBoxes :
          /\ \/ DequeueMsg(k) /\ IsrLocals(k, Head(msg_queue[k]))
             \/ IsrLocals(k, None) /\ UNCHANGED msg_queue
          /\ UNCHANGED <<free_queue, reading, canmcf, written, sent, arrived, taken>>
    BY <1>10 DEF IsrTx
  <2>2. mbxid = None /\ m # k
    BY <1>2, <1>3, <1>10 DEF IsrTx, IsrOK
  <2>3. msg_queue'[m] = msg_queue[m]
    BY <1>2, <1>3, <2>1, <2>2 DEF QueuesOK, DequeueMsg
  <2>4. IsrMsg(m)' = IsrMsg(m)
    BY <1>3, <2>1, <2>2 DEF IsrLocals, IsrMsg
  <2> QED
    BY <1>5, <2>1, <2>3, <2>4 DEF hist
<1>11. CASE IsrTxNext
  <2>1. mbxid \in TxBoxes /\ mbxid # m
    BY <1>2, <1>3, <1>11 DEF IsrTxNext, IsrOK
  <2>2. free_queue'[m] = free_queue[m] /\ canmcf'[m] = canmcf[m]
    BY <1>2, <1>3, <1>11, <2>1 DEF IsrTxNext, QueueFree, QueuesOK, DevOK
  <2>3. IsrMsg(m)' = IsrMsg(m)
    BY <1>3, <1>11, <2>1 DEF IsrTxNext, IsrLocals, IsrMsg
  <2> QED
    BY <1>5, <1>11, <2>2, <2>3 DEF IsrTxNext, hist
<1>12. CASE IsrTxEnd
  <2>1. mbxid \in TxBoxes /\ mbxid # m
    BY <1>2, <1>3, <1>12 DEF IsrTxEnd, IsrOK
  <2>2. IsrMsg(m)' = IsrMsg(m)
    BY <1>3, <1>12, <2>1 DEF IsrTxEnd, IsrLocals, IsrMsg
  <2> QED
    BY <1>5, <1>12, <2>2 DEF IsrTxEnd, queues, dev, hist
<1>13. ASSUME NEW k \in TxBoxes, Write(k)
       PROVE  RxElements(m)' /\ RxOrder(m)'
  <2>1. msg_queue'[m] = msg_queue[m] /\ free_queue'[m] = free_queue[m]
    BY <1>2, <1>3, <1>13 DEF Write, QueuesOK, QueueMsg, DequeueFree
  <2> QED
    BY <1>5, <1>13, <2>1 DEF Write, isr, dev, IsrMsg
<1>14. ASSUME NEW k \in TxBoxes, BusSent(k)
       PROVE  RxElements(m)' /\ RxOrder(m)'
  <2>1. canmcf'[m] = canmcf[m]
    BY <1>2, <1>3, <1>14 DEF BusSent, DevOK
  <2> QED
    BY <1>5, <1>14, <2>1 DEF BusSent, queues, isr, IsrMsg
<1>15. ASSUME NEW k \in RxBoxes, Read(k)
       PROVE  RxElements(m)' /\ RxOrder(m)'
  <2>1. UNCHANGED <<free_queue, canmcf, taken, IsrMsg(m), arrived>>
    BY <1>15 DEF Read, isr, dev, hist, IsrMsg
  <2>2. CASE m = k
    <3>1. /\ reading[m] = None /\ msg_queue[m] # << >> /\ DequeueMsg(m)
          /\ reading'[m] = Head(msg_queue[m])
      BY <1>2, <1>15, <2>2 DEF Read, ThreadOK
    <3> QED
      BY <1>1, <2>1, <3>1, RxRead
  <2>3. CASE m # k
    <3>1. msg_queue'[m] = msg_queue[m] /\ reading'[m] = reading[m]
      BY <1>2, <1>3, <1>15, <2>3 DEF Read, QueuesOK, ThreadOK, DequeueMsg
    <3> QED
      BY <1>5, <2>1, <3>1
  <2> QED
    BY <2>2, <2>3
<1>16. ASSUME NEW k \in RxBoxes, BusReceived(k)
       PROVE  RxElements(m)' /\ RxOrder(m)'
  <2>1. UNCHANGED <<free_queue, msg_queue, reading, taken, IsrMsg(m)>>
    BY <1>16 DEF BusReceived, queues, isr, IsrMsg
  <2>2. arrived' = arrived + 1 /\ arrived' \in Nat /\ arrived <= arrived'
    BY <1>4, <1>16 DEF BusReceived
  <2>3. CASE m = k
    <3>1. canmcf'[m] = arrived + 1
      BY <1>2, <1>3, <1>16, <2>3 DEF BusReceived, DevOK
    <3> QED
      BY <1>1, <2>1, <2>2, <3>1, RxArrived
  <2>4. CASE m # k
    <3>1. canmcf'[m] = canmcf[m]
      BY <1>2, <1>3, <1>16, <2>4 DEF BusReceived, DevOK
    <3> QED
      BY <1>1, <2>1, <2>2, <3>1, RxFrame
  <2> QED
    BY <2>3, <2>4
<1>17. CASE TransmitTake
  <2>1. tdev \in TxBoxes /\ tdev # m
    BY <1>1, <1>3, <1>17 DEF TransmitTake, Locals
  <2>2. msg_queue'[m] = msg_queue[m]
    BY <1>2, <1>3, <1>17, <2>1 DEF TransmitTake, QueuesOK, DequeueMsg
  <2> QED
    BY <1>5, <1>17, <2>2 DEF TransmitTake, isr, dev, hist, IsrMsg
<1>18. CASE TransmitSend
  <2>1. tdev \in TxBoxes /\ tdev # m
    BY <1>1, <1>3, <1>18 DEF TransmitSend, Locals
  <2>2. free_queue'[m] = free_queue[m] /\ canmcf'[m] = canmcf[m]
    BY <1>2, <1>3, <1>18, <2>1 DEF TransmitSend, QueueFree, QueuesOK, DevOK
  <2> QED
    BY <1>5, <1>18, <2>2 DEF TransmitSend, isr, hist, IsrMsg
<1>19. CASE ReadDone
  <2>1. UNCHANGED <<msg_queue, canmcf, IsrMsg(m), arrived>>
    BY <1>19 DEF ReadDone, isr, dev, IsrMsg
  <2>2. CASE m = tdev
    <3>1. reading[m] # None
      BY <1>1, <1>19, <2>2 DEF ReadDone, Locals
    <3>2. reading'[m] = None /\ taken'[m] = reading[m]
      BY <1>2, <1>19, <2>2 DEF ReadDone, ThreadOK, HistOK
    <3>3. free_queue'[m] = free_queue[m] + 1
      BY <1>2, <1>3, <1>19, <2>2 DEF ReadDone, QueueFree, QueuesOK
    <3> QED
      BY <1>1, <2>1, <3>1, <3>2, <3>3, RxReadDone
  <2>3. CASE m # tdev
    <3>1. reading'[m] = reading[m] /\ taken'[m] = taken[m]
      BY <1>2, <1>19, <2>3 DEF ReadDone, ThreadOK, HistOK
    <3>2. free_queue'[m] = free_queue[m]
      BY <1>2, <1>3, <1>19, <2>3 DEF ReadDone, QueueFree, QueuesOK
    <3> QED
      BY <1>5, <2>1, <3>1, <3>2
  <2> QED
    BY <2>2, <2>3
<1>20. CASE MdriverData
  <2>1. UNCHANGED <<canmcf, reading, taken, IsrMsg(m), arrived>>
    BY <1>20 DEF MdriverData, isr, dev, hist, IsrMsg
  <2>2. mdone + 1 \in Nat /\ 0 < mdone + 1 /\ mdone + 1 <= MdriverRx
    BY <1>2, <1>20, CanAssumption DEF MdriverData, ThreadOK
  <2>3. CASE UNCHANGED queues
    BY <1>5, <2>1, <2>3 DEF queues
  <2>4. ASSUME NEW k \in RxBoxes, DequeueFree(k), QueueMsg(k, mdone + 1)
        PROVE  RxElements(m)' /\ RxOrder(m)'
    <3>1. CASE m = k
      <4>1. free_queue'[m] = free_queue[m] - 1 /\ QueueMsg(m, mdone + 1)
        BY <1>2, <1>3, <2>4, <3>1 DEF DequeueFree, QueuesOK
      <4> QED
        BY <1>1, <2>1, <2>2, <4>1, RxMdriver
    <3>2. CASE m # k
      BY <1>2, <1>3, <1>5, <2>1, <2>4, <3>2 DEF DequeueFree, QueueMsg, QueuesOK
    <3> QED
      BY <3>1, <3>2
  <2> QED
    BY <1>20, <2>3, <2>4 DEF MdriverData
<1> QED
  BY <1>6, <1>7, <1>8, <1>9, <1>10, <1>11, <1>12, <1>13, <1>14, <1>15, <1>16,
     <1>17, <1>18, <1>19, <1>20 DEF Next
-----------------------------------------------------------------------------
(***************************************************************************)
(* The types.                                                              *)
(***************************************************************************)
(* canmsg_dequeue on a free queue that is not empty. *)
LEMMA FreeTaken ==
  ASSUME QueuesOK, NEW k \in Boxes, free_queue[k] > 0, DequeueFree(k)
  PROVE  free_queue' \in [Boxes -> 0 .. QSize]
<1>1. free_queue[k] - 1 \in 0 .. QSize
  BY CanAssumption DEF QueuesOK
<1> QED
  BY <1>1 DEF QueuesOK, DequeueFree

(* canmsg_queue on a free queue: some element was not in it. *)
LEMMA FreeGiven ==
  ASSUME QueuesOK, NEW k \in Boxes, free_queue[k] < QSize, QueueFree(k)
  PROVE  free_queue' \in [Boxes -> 0 .. QSize]
<1>1. free_queue[k] + 1 \in 0 .. QSize
  BY CanAssumption DEF QueuesOK
<1> QED
  BY <1>1 DEF QueuesOK, QueueFree

(* While can_intr or can_drvr_transmit works on a message, not every element *)
(* of the mailbox is free.                                                   *)
LEMMA NotAllFree ==
  ASSUME TypeOK, NEW m \in TxBoxes, TxElements(m),
         IsrMsg(m) # None \/ ThreadMsg(m) # None
  PROVE  free_queue[m] < QSize
<1>1. free_queue[m] \in Nat /\ Len(msg_queue[m]) \in Nat /\ QSize \in Nat
  BY BoxFacts, BoxTypes, CanAssumption
<1>2. PICK a \in Nat, b \in Nat :
        a = Count(IsrMsg(m)) /\ b = Count(ThreadMsg(m)) /\ a + b >= 1
  BY DEF Count
<1>3. free_queue[m] + Len(msg_queue[m]) + a + b = QSize
  BY <1>2 DEF TxElements
<1> QED
  BY <1>1, <1>2, <1>3

(* The same while a client copies a message. *)
LEMMA NotAllFreeRx ==
  ASSUME TypeOK, NEW m \in RxBoxes, RxElements(m), reading[m] # None
  PROVE  free_queue[m] < QSize
<1>1. free_queue[m] \in Nat /\ Len(msg_queue[m]) \in Nat /\ QSize \in Nat
  BY BoxFacts, BoxTypes, CanAssumption
<1>2. PICK a \in Nat : a = Count(IsrMsg(m))
  BY DEF Count
<1>3. free_queue[m] + Len(msg_queue[m]) + a + 1 = QSize
  BY <1>2 DEF RxElements, Count
<1> QED
  BY <1>1, <1>2, <1>3

(* The queues of canmsg_list_t keep their types. *)
LEMMA QueuesStep ==
  ASSUME CanInv, Next
  PROVE  QueuesOK'
<1>1. TypeOK /\ Locals /\ QueuesOK /\ IsrOK /\ ThreadOK /\ HistOK
  BY TypeParts DEF CanInv
<1>2. /\ \A m \in TxBoxes : TxElements(m)
      /\ \A m \in RxBoxes : RxElements(m)
  BY DEF CanInv
<1>3. /\ \A m \in TxBoxes : m \in Boxes /\ m # None
      /\ \A m \in RxBoxes : m \in Boxes /\ m # None
  BY BoxFacts
<1>4. CASE IsrEnter \/ IsrRead \/ IsrTxEnd \/ IsrClear \/ TransmitTest
            \/ TransmitSet \/ ResmgrStart
  BY <1>1, <1>4 DEF IsrEnter, IsrRead, IsrTxEnd, IsrClear, TransmitTest,
     TransmitSet, ResmgrStart, QueuesOK, queues
<1>5. CASE \/ \E k \in TxBoxes : BusSent(k)
           \/ \E k \in RxBoxes : BusReceived(k)
  BY <1>1, <1>5 DEF BusSent, BusReceived, QueuesOK, queues
<1>6. CASE IsrRx
  <2>1. PICK k \in RxBoxes :
          \/ free_queue[k] > 0 /\ DequeueFree(k) /\ UNCHANGED msg_queue
          \/ msg_queue[k] # << >> /\ DequeueMsg(k) /\ UNCHANGED free_queue
          \/ UNCHANGED queues
    BY <1>6 DEF IsrRx
  <2>2. CASE free_queue[k] > 0 /\ DequeueFree(k) /\ UNCHANGED msg_queue
    BY <1>1, <1>3, <2>2, FreeTaken DEF QueuesOK
  <2>3. CASE msg_queue[k] # << >> /\ DequeueMsg(k) /\ UNCHANGED free_queue
    BY <1>1, <1>3, <2>3, Dequeued DEF QueuesOK
  <2>4. CASE UNCHANGED queues
    BY <1>1, <2>4 DEF QueuesOK, queues
  <2> QED
    BY <2>1, <2>2, <2>3, <2>4
<1>7. CASE IsrRxAck
  <2>1. mbxid \in Boxes /\ imsg \in Nat \ {None}
    BY <1>1, <1>3, <1>7 DEF IsrRxAck, IsrOK, Locals
  <2>2. QueueMsg(mbxid, imsg) /\ UNCHANGED free_queue
    BY <1>7 DEF IsrRxAck
  <2> QED
    BY <1>1, <2>1, <2>2, Enqueued DEF QueuesOK
<1>8. CASE IsrTx
  <2>1. PICK k \in TxBoxes :
          \/ msg_queue[k] # << >> /\ DequeueMsg(k)
          \/ UNCHANGED msg_queue
    BY <1>8 DEF IsrTx
  <2>2. UNCHANGED free_queue
    BY <1>8 DEF IsrTx
  <2> QED
    BY <1>1, <1>3, <2>1, <2>2, Dequeued DEF QueuesOK
<1>9. CASE IsrTxNext
  <2>1. mbxid \in TxBoxes /\ IsrMsg(mbxid) # None
    BY <1>1, <1>9 DEF IsrTxNext, IsrOK, Locals, IsrMsg
  <2>2. free_queue[mbxid] < QSize
    BY <1>1, <1>2, <2>1, NotAllFree
  <2>3. QueueFree(mbxid) /\ UNCHANGED msg_queue
    BY <1>9 DEF IsrTxNext
  <2> QED
    BY <1>1, <1>3, <2>1, <2>2, <2>3, FreeGiven DEF QueuesOK
<1>10. ASSUME NEW k \in TxBoxes, Write(k)
      PROVE  QueuesOK'
  <2>1. written[k] + 1 \in Nat \ {None}
    BY <1>1 DEF HistOK, None
  <2>2. /\ free_queue[k] > 0 /\ DequeueFree(k)
        /\ QueueMsg(k, written[k] + 1)
    BY <1>10 DEF Write
  <2>3. free_queue' \in [Boxes -> 0 .. QSize]
    BY <1>1, <1>3, <2>2, FreeTaken
  <2>4. msg_queue' \in [Boxes -> Seq(Nat \ {None})]
    BY <1>1, <1>3, <2>1, <2>2, Enqueued
  <2> QED
    BY <2>3, <2>4 DEF QueuesOK
<1>11. ASSUME NEW k \in RxBoxes, Read(k)
      PROVE  QueuesOK'
  <2>1. msg_queue[k] # << >> /\ DequeueMsg(k) /\ UNCHANGED free_queue
    BY <1>11 DEF Read
  <2> QED
    BY <1>1, <1>3, <2>1, Dequeued DEF QueuesOK
<1>12. CASE TransmitTake
  <2>1. tdev \in Boxes /\ UNCHANGED free_queue
    BY <1>1, <1>3, <1>12 DEF TransmitTake, Locals
  <2>2. \/ msg_queue[tdev] # << >> /\ DequeueMsg(tdev)
        \/ UNCHANGED msg_queue
    BY <1>12 DEF TransmitTake
  <2> QED
    BY <1>1, <2>1, <2>2, Dequeued DEF QueuesOK
<1>13. CASE TransmitSend
  <2>1. tdev \in TxBoxes /\ ThreadMsg(tdev) # None
    BY <1>1, <1>13 DEF TransmitSend, Locals, ThreadMsg
  <2>2. free_queue[tdev] < QSize
    BY <1>1, <1>2, <2>1, NotAllFree
  <2>3. QueueFree(tdev) /\ UNCHANGED msg_queue
    BY <1>13 DEF TransmitSend
  <2> QED
    BY <1>1, <1>3, <2>1, <2>2, <2>3, FreeGiven DEF QueuesOK
<1>14. CASE ReadDone
  <2>1. tdev \in RxBoxes /\ reading[tdev] # None
    BY <1>1, <1>14 DEF ReadDone, Locals
  <2>2. free_queue[tdev] < QSize
    BY <1>1, <1>2, <2>1, NotAllFreeRx
  <2>3. QueueFree(tdev) /\ UNCHANGED msg_queue
    BY <1>14 DEF ReadDone
  <2> QED
    BY <1>1, <1>3, <2>1, <2>2, <2>3, FreeGiven DEF QueuesOK
<1>15. CASE MdriverData
  <2>1. mdone + 1 \in Nat \ {None}
    BY <1>1 DEF ThreadOK, None
  <2>2. ASSUME NEW k \in RxBoxes, free_queue[k] > 0, DequeueFree(k),
               QueueMsg(k, mdone + 1)
        PROVE  QueuesOK'
    <3>1. free_queue' \in [Boxes -> 0 .. QSize]
      BY <1>1, <1>3, <2>2, FreeTaken
    <3>2. msg_queue' \in [Boxes -> Seq(Nat \ {None})]
      BY <1>1, <1>3, <2>1, <2>2, Enqueued
    <3> QED
      BY <3>1, <3>2 DEF QueuesOK
  <2>3. CASE UNCHANGED queues
    BY <1>1, <2>3 DEF QueuesOK, queues
  <2> QED
    BY <1>15, <2>2, <2>3 DEF MdriverData
<1> QED
  BY <1>4, <1>5, <1>6, <1>7, <1>8, <1>9, <1>10, <1>11, <1>12, <1>13, <1>14,
     <1>15 DEF Next


(* The locals of can_intr keep their types. *)
LEMMA IsrStep ==
  ASSUME CanInv, Next
  PROVE  IsrOK'
<1>1. TypeOK /\ Locals /\ QueuesOK /\ IsrOK /\ ThreadOK /\ DevOK
  BY TypeParts DEF CanInv
<1>2. None \in Nat
  BY DEF None
<1>3. /\ \A m \in TxBoxes : m \in Boxes
      /\ \A m \in RxBoxes : m \in Boxes
  BY BoxFacts
<1>4. CASE \/ \E k \in TxBoxes : Write(k) \/ BusSent(k)
           \/ \E k \in RxBoxes : Read(k) \/ BusReceived(k)
  BY <1>1, <1>4 DEF Write, BusSent, Read, BusReceived, IsrOK, isr
<1>5. CASE TransmitTest \/ TransmitTake \/ TransmitSet \/ TransmitSend
           \/ ReadDone \/ MdriverData \/ ResmgrStart
  BY <1>1, <1>5 DEF TransmitTest, TransmitTake, TransmitSet, TransmitSend,
     ReadDone, MdriverData, ResmgrStart, IsrOK, isr
<1>6. CASE IsrEnter
  BY <1>1, <1>2, <1>6 DEF IsrEnter, IsrOK, IsrLocals
<1>7. CASE IsrRead
  <2>1. ipc' \in {"off", "rx", "tx"} /\ mbxid' = None /\ imsg' = imsg
    BY <1>1, <1>7 DEF IsrRead, IsrOK
  <2>2. irqsrc' \subseteq Boxes
    BY <1>1, <1>7 DEF IsrRead, DevOK
  <2> QED
    BY <1>1, <2>1, <2>2 DEF IsrOK
<1>8. CASE IsrRx
  <2>1. PICK k \in RxBoxes :
          \/ IsrLocals(k, canmcf[k]) /\ ipc' = "rxack"
          \/ ipc' = "off" /\ UNCHANGED <<mbxid, imsg>>
    BY <1>8 DEF IsrRx
  <2>2. canmcf[k] \in Nat /\ UNCHANGED irqsrc /\ mbxid = None
    BY <1>1, <1>3, <1>8 DEF IsrRx, DevOK, IsrOK
  <2> QED
    BY <1>1, <2>1, <2>2 DEF IsrOK, IsrLocals
<1>9. CASE IsrRxAck
  <2>1. /\ mbxid' = None /\ imsg' = None /\ UNCHANGED irqsrc
        /\ ipc' \in {"off", "tx", "clear"}
    BY <1>9 DEF IsrRxAck, IsrLocals
  <2> QED
    BY <1>1, <1>2, <2>1 DEF IsrOK
<1>10. CASE IsrTx
  <2>1. PICK k \in TxBoxes :
          \/ /\ msg_queue[k] # << >> /\ DequeueMsg(k)
             /\ IsrLocals(k, Head(msg_queue[k])) /\ ipc' = "txnext"
          \/ IsrLocals(k, None) /\ ipc' = "txend"
    BY <1>10 DEF IsrTx
  <2>2. imsg' \in Nat /\ mbxid' = k /\ ipc' \in {"txnext", "txend"}
    BY <1>1, <1>2, <1>3, <2>1, Dequeued DEF IsrLocals
  <2>3. UNCHANGED irqsrc
    BY <1>10 DEF IsrTx
  <2> QED
    BY <1>1, <2>2, <2>3 DEF IsrOK
<1>11. CASE IsrTxNext
  BY <1>1, <1>2, <1>11 DEF IsrTxNext, IsrOK, IsrLocals
<1>12. CASE IsrTxEnd
  BY <1>1, <1>2, <1>12 DEF IsrTxEnd, IsrOK, IsrLocals
<1>13. CASE IsrClear
  BY <1>1, <1>2, <1>13 DEF IsrClear, IsrOK, IsrLocals
<1> QED
  BY <1>4, <1>5, <1>6, <1>7, <1>8, <1>9, <1>10, <1>11, <1>12, <1>13 DEF Next


(* The locals of the resource manager's thread keep their types. *)
LEMMA ThreadStep ==
  ASSUME CanInv, Next
  PROVE  ThreadOK'
<1>1. TypeOK /\ Locals /\ QueuesOK /\ ThreadOK
  BY TypeParts DEF CanInv
<1>2. None \in Nat
  BY DEF None
<1>3. /\ \A m \in TxBoxes : m \in Boxes
      /\ \A m \in RxBoxes : m \in Boxes
  BY BoxFacts
<1>4. CASE IsrEnter \/ IsrRead \/ IsrRx \/ IsrRxAck \/ IsrTx \/ IsrTxNext
           \/ IsrTxEnd \/ IsrClear
  BY <1>1, <1>4 DEF IsrEnter, IsrRead, IsrRx, IsrRxAck, IsrTx, IsrTxNext,
     IsrTxEnd, IsrClear, ThreadOK, thread
<1>5. CASE \/ \E k \in TxBoxes : BusSent(k)
           \/ \E k \in RxBoxes : BusReceived(k)
  BY <1>1, <1>5 DEF BusSent, BusReceived, ThreadOK, thread
<1>6. ASSUME NEW k \in TxBoxes, Write(k)
      PROVE  ThreadOK'
  BY <1>1, <1>2, <1>3, <1>6 DEF Write, ThreadOK
<1>7. ASSUME NEW k \in RxBoxes, Read(k)
      PROVE  ThreadOK'
  <2>1. Head(msg_queue[k]) \in Nat
    BY <1>1, <1>3, <1>7, Dequeued DEF Read
  <2>2. reading' \in [RxBoxes -> Nat]
    BY <1>1, <1>7, <2>1 DEF Read, ThreadOK
  <2> QED
    BY <1>1, <1>3, <1>7, <2>2 DEF Read, ThreadOK
<1>8. CASE TransmitTest
  BY <1>1, <1>2, <1>3, <1>8 DEF TransmitTest, ThreadOK
<1>9. CASE TransmitTake
  <2>1. tdev \in Boxes
    BY <1>1, <1>3, <1>9 DEF TransmitTake, Locals
  <2>2. tmsg' \in Nat
    BY <1>1, <1>9, <2>1, Dequeued DEF TransmitTake, ThreadOK
  <2> QED
    BY <1>1, <1>9, <2>2 DEF TransmitTake, ThreadOK
<1>10. CASE TransmitSet
  BY <1>1, <1>2, <1>3, <1>10 DEF TransmitSet, ThreadOK
<1>11. CASE TransmitSend
  BY <1>1, <1>2, <1>3, <1>11 DEF TransmitSend, ThreadOK
<1>12. CASE ReadDone
  BY <1>1, <1>2, <1>3, <1>12 DEF ReadDone, ThreadOK
<1>13. CASE MdriverData
  <2>1. mdone' \in 0 .. MdriverRx
    BY <1>1, <1>13, CanAssumption DEF MdriverData, ThreadOK
  <2> QED
    BY <1>1, <1>13, <2>1 DEF MdriverData, ThreadOK, thread
<1>14. CASE ResmgrStart
  BY <1>1, <1>2, <1>3, <1>14 DEF ResmgrStart, ThreadOK
<1> QED
  BY <1>4, <1>5, <1>6, <1>7, <1>8, <1>9, <1>10, <1>11, <1>12, <1>13,
     <1>14 DEF Next


(* The device's registers and TX_ENABLED keep their types. *)
LEMMA DevStep ==
  ASSUME CanInv, Next
  PROVE  DevOK'
<1>1. TypeOK /\ Locals /\ IsrOK /\ ThreadOK /\ DevOK /\ HistOK
  BY TypeParts DEF CanInv
<1>2. None \in Nat
  BY DEF None
<1>3. /\ \A m \in TxBoxes : m \in Boxes
      /\ \A m \in RxBoxes : m \in Boxes
  BY BoxFacts
<1>4. CASE TransmitTest \/ TransmitTake \/ ReadDone \/ MdriverData
           \/ ResmgrStart \/ IsrEnter
  BY <1>1, <1>4 DEF TransmitTest, TransmitTake, ReadDone, MdriverData,
     ResmgrStart, IsrEnter, DevOK, dev
<1>5. CASE \/ \E k \in TxBoxes : Write(k)
           \/ \E k \in RxBoxes : Read(k)
  BY <1>1, <1>5 DEF Write, Read, DevOK, dev
<1>6. CASE IsrRead
  BY <1>1, <1>6 DEF IsrRead, DevOK, dev
<1>7. CASE IsrRx
  <2>1. PICK k \in RxBoxes : \/ canmcf' = [canmcf EXCEPT ![k] = None]
                              \/ canmcf' = canmcf
    BY <1>7 DEF IsrRx
  <2>2. UNCHANGED <<tx_enabled, fresh, iflag>>
    BY <1>7 DEF IsrRx
  <2> QED
    BY <1>1, <1>2, <2>1, <2>2 DEF DevOK
<1>8. CASE IsrRxAck
  BY <1>1, <1>2, <1>3, <1>8 DEF IsrRxAck, ClearFlags, DevOK
<1>9. CASE IsrTx
  BY <1>1, <1>2, <1>3, <1>9 DEF IsrTx, ClearFlags, DevOK
<1>10. CASE IsrTxNext
  <2>1. mbxid \in TxBoxes /\ imsg \in Nat
    BY <1>1, <1>10 DEF IsrTxNext, IsrOK
  <2> QED
    BY <1>1, <1>3, <1>10, <2>1 DEF IsrTxNext, DevOK
<1>11. CASE IsrTxEnd
  BY <1>1, <1>2, <1>3, <1>11 DEF IsrTxEnd, DevOK, dev
<1>12. CASE IsrClear
  BY <1>1, <1>2, <1>3, <1>12 DEF IsrClear, ClearFlags, DevOK
<1>13. ASSUME NEW k \in TxBoxes, BusSent(k)
      PROVE  DevOK'
  BY <1>1, <1>2, <1>3, <1>13 DEF BusSent, DevOK
<1>14. ASSUME NEW k \in RxBoxes, BusReceived(k)
      PROVE  DevOK'
  <2>1. arrived + 1 \in Nat
    BY <1>1 DEF HistOK
  <2> QED
    BY <1>1, <1>3, <1>14, <2>1 DEF BusReceived, DevOK
<1>15. CASE TransmitSet
  <2>1. tdev \in TxBoxes
    BY <1>1, <1>15 DEF TransmitSet, Locals
  <2> QED
    BY <1>1, <1>15, <2>1 DEF TransmitSet, DevOK, dev
<1>16. CASE TransmitSend
  <2>1. tdev \in TxBoxes /\ tmsg \in Nat
    BY <1>1, <1>16 DEF TransmitSend, Locals, ThreadOK
  <2> QED
    BY <1>1, <1>3, <1>16, <2>1 DEF TransmitSend, DevOK
<1> QED
  BY <1>4, <1>5, <1>6, <1>7, <1>8, <1>9, <1>10, <1>11, <1>12, <1>13, <1>14,
     <1>15, <1>16 DEF Next


(* What has been written, sent, received and read keeps its type. *)
LEMMA HistStep ==
  ASSUME CanInv, Next
  PROVE  HistOK' /\ MdriverRx <= arrived'
<1>1. Locals /\ ThreadOK /\ DevOK /\ HistOK /\ MdriverRx <= arrived
  BY TypeParts DEF CanInv
<1>2. MdriverRx \in Nat
  BY CanAssumption
<1>3. \A m \in TxBoxes : m \in Boxes
  BY BoxFacts
<1>4. CASE IsrEnter \/ IsrRead \/ IsrRx \/ IsrTxNext \/ IsrTxEnd
  BY <1>1, <1>4 DEF IsrEnter, IsrRead, IsrRx, IsrTxNext, IsrTxEnd, HistOK, hist
<1>11. CASE IsrRxAck \/ IsrTx \/ IsrClear
  BY <1>1, <1>11 DEF IsrRxAck, IsrTx, IsrClear, ClearFlags, DevOK, HistOK
<1>5. CASE TransmitTest \/ TransmitTake \/ TransmitSet \/ TransmitSend
           \/ MdriverData \/ ResmgrStart
  BY <1>1, <1>5 DEF TransmitTest, TransmitTake, TransmitSet, TransmitSend,
     MdriverData, ResmgrStart, HistOK, hist
<1>6. CASE \E k \in RxBoxes : Read(k)
  BY <1>1, <1>6 DEF Read, HistOK, hist
<1>7. ASSUME NEW k \in TxBoxes, Write(k)
      PROVE  HistOK' /\ MdriverRx <= arrived'
  BY <1>1, <1>2, <1>7 DEF Write, HistOK
<1>8. ASSUME NEW k \in TxBoxes, BusSent(k)
      PROVE  HistOK' /\ MdriverRx <= arrived'
  <2>1. canmcf[k] \in Nat
    BY <1>1, <1>3 DEF DevOK
  <2> QED
    BY <1>1, <1>8, <2>1 DEF BusSent, HistOK
<1>9. ASSUME NEW k \in RxBoxes, BusReceived(k)
      PROVE  HistOK' /\ MdriverRx <= arrived'
  BY <1>1, <1>2, <1>9 DEF BusReceived, HistOK
<1>10. CASE ReadDone
  <2>1. tdev \in RxBoxes /\ reading[tdev] \in Nat
    BY <1>1, <1>10 DEF ReadDone, Locals, ThreadOK
  <2> QED
    BY <1>1, <1>10, <2>1 DEF ReadDone, HistOK
<1> QED
  BY <1>4, <1>5, <1>6, <1>7, <1>8, <1>9, <1>10, <1>11 DEF Next

-----------------------------------------------------------------------------
(* With frames that outlast a turn of can_intr, no flag of a transmit        *)
(* mailbox is raised again between its first and its second clearing.        *)
LEMMA ClearedStep ==
  ASSUME CanInv, Next, OneTxBox
  PROVE  ClearedOnce'
<1>1. Locals /\ IsrOK /\ DevOK /\ ClearedOnce
  BY TypeParts DEF CanInv
<1>2. /\ \A m \in TxBoxes : OneSender(m) /\ m \in Boxes /\ m \notin RxBoxes
      /\ \A m \in RxBoxes : m \in Boxes /\ m \notin TxBoxes
  BY BoxFacts DEF CanInv
<1>3. FrameOutlastsIsr
  BY DEF OneTxBox
<1>4. CASE IsrEnter
  BY <1>1, <1>4 DEF IsrEnter, ClearedOnce, isr, dev
<1>5. CASE IsrRead
  <2>1. ipc' \in {"off", "rx", "tx"}
    BY <1>5 DEF IsrRead
  <2> QED
    BY <2>1 DEF ClearedOnce
<1>6. CASE IsrRx
  <2>1. ipc' \in {"off", "rxack"}
    BY <1>6 DEF IsrRx
  <2> QED
    BY <2>1 DEF ClearedOnce
<1>7. CASE IsrRxAck
  <2>1. ipc' = "clear" => irqsrc' \cap TxBoxes = {}
    BY <1>7 DEF IsrRxAck
  <2>2. ipc' \in {"off", "tx", "clear"}
    BY <1>7 DEF IsrRxAck
  <2> QED
    BY <2>1, <2>2 DEF ClearedOnce
<1>8. CASE IsrTx
  <2>1. \A m \in TxBoxes \cap irqsrc : m \notin iflag' /\ canmcf'[m] = None
    BY <1>1, <1>2, <1>8 DEF IsrTx, ClearFlags, Locals, OneSender
  <2>2. irqsrc' = irqsrc
    BY <1>8 DEF IsrTx, ClearFlags
  <2> QED
    BY <2>1, <2>2 DEF ClearedOnce
<1>9. CASE IsrTxNext
  <2>1. mbxid \in TxBoxes
    BY <1>1, <1>9 DEF IsrTxNext, IsrOK
  <2>2. \A m \in TxBoxes :
          m \in fresh' \/ (m \notin fresh /\ canmcf'[m] = canmcf[m])
    BY <1>1, <1>2, <1>9, <2>1 DEF IsrTxNext, DevOK
  <2>3. \A m \in fresh : m \in fresh'
    BY <1>9 DEF IsrTxNext
  <2>4. UNCHANGED <<irqsrc, iflag>> /\ ipc = "txnext"
    BY <1>9 DEF IsrTxNext
  <2> QED
    BY <1>1, <2>2, <2>3, <2>4 DEF ClearedOnce
<1>10. CASE IsrTxEnd
  BY <1>1, <1>10 DEF IsrTxEnd, ClearedOnce, isr, dev
<1>11. CASE IsrClear
  BY <1>1, <1>11 DEF IsrClear, ClearedOnce, isr, dev
<1>12. ASSUME NEW k \in TxBoxes, Write(k)
      PROVE  ClearedOnce'
  BY <1>1, <1>12 DEF Write, ClearedOnce, isr, dev
<1>13. ASSUME NEW k \in TxBoxes, BusSent(k)
      PROVE  ClearedOnce'
  <2>1. \A m \in TxBoxes : m # k =>
          canmcf'[m] = canmcf[m] /\ (m \in iflag' <=> m \in iflag)
    BY <1>1, <1>2, <1>13 DEF BusSent, DevOK
  <2>2. UNCHANGED <<ipc, irqsrc, fresh>>
    BY <1>13 DEF BusSent, isr
  <2>3. ipc \in {"txnext", "txend", "clear"} => k \notin irqsrc
    BY <1>1, <1>3, <1>13 DEF BusSent, ClearedOnce
  <2> QED
    BY <1>1, <2>1, <2>2, <2>3 DEF ClearedOnce
<1>14. ASSUME NEW k \in RxBoxes, Read(k)
      PROVE  ClearedOnce'
  BY <1>1, <1>14 DEF Read, ClearedOnce, isr, dev
<1>15. ASSUME NEW k \in RxBoxes, BusReceived(k)
      PROVE  ClearedOnce'
  <2>1. \A m \in TxBoxes :
          canmcf'[m] = canmcf[m] /\ (m \in iflag' <=> m \in iflag)
    BY <1>1, <1>2, <1>15 DEF BusReceived, DevOK
  <2>2. UNCHANGED <<ipc, irqsrc, fresh>>
    BY <1>15 DEF BusReceived, isr
  <2> QED
    BY <1>1, <2>1, <2>2 DEF ClearedOnce
<1>16. CASE TransmitTest
  BY <1>1, <1>16 DEF TransmitTest, ClearedOnce, isr, dev
<1>17. CASE TransmitTake
  BY <1>1, <1>17 DEF TransmitTake, ClearedOnce, isr, dev
<1>18. CASE TransmitSet
  BY <1>1, <1>18 DEF TransmitSet, ClearedOnce, isr, dev
<1>19. CASE TransmitSend
  <2>1. tdev \in TxBoxes
    BY <1>1, <1>19 DEF TransmitSend, Locals
  <2>2. \A m \in TxBoxes :
          m \in fresh' \/ (m \notin fresh /\ canmcf'[m] = canmcf[m])
    BY <1>1, <1>2, <1>19, <2>1 DEF TransmitSend, DevOK
  <2>3. \A m \in fresh : m \in fresh'
    BY <1>19 DEF TransmitSend
  <2>4. UNCHANGED <<irqsrc, iflag, ipc>>
    BY <1>19 DEF TransmitSend, isr
  <2> QED
    BY <1>1, <2>2, <2>3, <2>4 DEF ClearedOnce
<1>20. CASE ReadDone
  BY <1>1, <1>20 DEF ReadDone, ClearedOnce, isr, dev
<1>21. CASE MdriverData
  BY <1>1, <1>21 DEF MdriverData, ClearedOnce, isr, dev
<1>22. CASE ResmgrStart
  BY <1>1, <1>22 DEF ResmgrStart, ClearedOnce, isr, dev
<1> QED
  BY <1>4, <1>5, <1>6, <1>7, <1>8, <1>9, <1>10, <1>11, <1>12, <1>13, <1>14,
     <1>15, <1>16, <1>17, <1>18, <1>19, <1>20, <1>21, <1>22 DEF Next


(* A transmit mailbox marked TX_ENABLED has a message on its way, or a       *)
(* completion that can_intr is still going to see, or one whose flag it has  *)
(* cleared unserved.                                                         *)
LEMMA NotStuckStep ==
  ASSUME CanInv, Next
  PROVE  TxNotStuck'
<1>1. Locals /\ IsrOK /\ DevOK /\ TxNotStuck
  BY TypeParts DEF CanInv
<1>2. /\ \A m \in TxBoxes : m \in Boxes /\ m \notin RxBoxes /\ m # None
      /\ \A m \in RxBoxes : m \in Boxes /\ m \notin TxBoxes
  BY BoxFacts
<1> SUFFICES ASSUME NEW m \in TxBoxes, m \in tx_enabled'
             PROVE  InProgress(m)' \/ m \in unserved'
  BY <1>1, DevStep DEF TxNotStuck, DevOK
<1>3. m \in tx_enabled => InProgress(m) \/ m \in unserved
  BY <1>1 DEF TxNotStuck
<1>4. CASE IsrEnter \/ IsrRead
  BY <1>3, <1>4 DEF IsrEnter, IsrRead, InProgress, isr, thread, dev, hist
<1>6. CASE IsrRx
  <2>1. mbxid = None /\ canmcf'[m] = canmcf[m]
    BY <1>1, <1>2, <1>6 DEF IsrRx, IsrOK, DevOK
  <2>2. UNCHANGED <<tx_enabled, iflag, tpc, tdev, unserved>>
    BY <1>6 DEF IsrRx, thread, hist
  <2> QED
    BY <1>2, <1>3, <2>1, <2>2 DEF InProgress
<1>7. CASE IsrRxAck
  <2>1. mbxid \in RxBoxes
    BY <1>1, <1>7 DEF IsrRxAck, IsrOK
  <2>2. (m \in iflag' <=> m \in iflag) /\ unserved \subseteq unserved'
    BY <1>2, <1>7 DEF IsrRxAck, ClearFlags
  <2>3. UNCHANGED <<tx_enabled, canmcf, tpc, tdev>>
    BY <1>7 DEF IsrRxAck, thread
  <2> QED
    BY <1>2, <1>3, <2>1, <2>2, <2>3 DEF InProgress
<1>8. CASE IsrTx
  <2>1. PICK k \in TxBoxes : mbxid' = k /\ ClearFlags(irqsrc \cap TxBoxes, k)
    BY <1>8 DEF IsrTx, IsrLocals
  <2>2. mbxid = None
    BY <1>1, <1>8 DEF IsrTx, IsrOK
  <2>3. UNCHANGED <<tx_enabled, canmcf, tpc, tdev>>
    BY <1>8 DEF IsrTx, thread
  <2>4. m \in iflag => m \in iflag' \/ mbxid' = m \/ m \in unserved'
    BY <1>2, <2>1 DEF ClearFlags
  <2>5. unserved \subseteq unserved'
    BY <2>1 DEF ClearFlags
  <2> QED
    BY <1>2, <1>3, <2>2, <2>3, <2>4, <2>5 DEF InProgress
<1>9. CASE IsrTxNext
  <2>1. mbxid \in TxBoxes /\ imsg # None
    BY <1>1, <1>9 DEF IsrTxNext, IsrOK, Locals
  <2>2. canmcf'[m] = IF m = mbxid THEN imsg ELSE canmcf[m]
    BY <1>1, <1>2, <1>9, <2>1 DEF IsrTxNext, DevOK
  <2>3. UNCHANGED <<tx_enabled, iflag, tpc, tdev, unserved>>
    BY <1>9 DEF IsrTxNext, thread, hist
  <2> QED
    BY <1>3, <2>1, <2>2, <2>3 DEF InProgress
<1>10. CASE IsrTxEnd
  <2>1. m # mbxid /\ m \in tx_enabled
    BY <1>10 DEF IsrTxEnd
  <2>2. UNCHANGED <<canmcf, iflag, tpc, tdev, unserved>>
    BY <1>10 DEF IsrTxEnd, dev, thread, hist
  <2> QED
    BY <1>3, <2>1, <2>2 DEF InProgress
<1>11. CASE IsrClear
  <2>1. m \in iflag => m \in iflag' \/ m \in unserved'
    BY <1>2, <1>11 DEF IsrClear, ClearFlags
  <2>2. unserved \subseteq unserved'
    BY <1>11 DEF IsrClear, ClearFlags
  <2>3. UNCHANGED <<tx_enabled, canmcf, mbxid, tpc, tdev>>
    BY <1>11 DEF IsrClear, thread
  <2> QED
    BY <1>3, <2>1, <2>2, <2>3 DEF InProgress
<1>12. ASSUME NEW k \in TxBoxes, Write(k)
      PROVE  InProgress(m)' \/ m \in unserved'
  BY <1>3, <1>12 DEF Write, InProgress, isr, dev
<1>13. ASSUME NEW k \in TxBoxes, BusSent(k)
      PROVE  InProgress(m)' \/ m \in unserved'
  <2>1. k \in iflag' /\ iflag \subseteq iflag'
    BY <1>13 DEF BusSent
  <2>2. m # k => canmcf'[m] = canmcf[m]
    BY <1>1, <1>2, <1>13 DEF BusSent, DevOK
  <2>3. UNCHANGED <<tx_enabled, mbxid, tpc, tdev, unserved>>
    BY <1>13 DEF BusSent, isr, thread
  <2> QED
    BY <1>3, <2>1, <2>2, <2>3 DEF InProgress
<1>14. ASSUME NEW k \in RxBoxes, Read(k)
      PROVE  InProgress(m)' \/ m \in unserved'
  BY <1>3, <1>14 DEF Read, InProgress, isr, dev, hist
<1>15. ASSUME NEW k \in RxBoxes, BusReceived(k)
      PROVE  InProgress(m)' \/ m \in unserved'
  <2>1. /\ canmcf'[m] = canmcf[m] /\ (m \in iflag' <=> m \in iflag)
        /\ (m \in unserved' <=> m \in unserved)
    BY <1>1, <1>2, <1>15 DEF BusReceived, DevOK
  <2>2. UNCHANGED <<tx_enabled, mbxid, tpc, tdev>>
    BY <1>15 DEF BusReceived, isr, thread
  <2> QED
    BY <1>3, <2>1, <2>2 DEF InProgress
<1>16. CASE TransmitTest \/ TransmitTake
  BY <1>3, <1>16 DEF TransmitTest, TransmitTake, InProgress, isr, dev, hist
<1>18. CASE TransmitSet
  <2>1. /\ tpc' = "send" /\ tdev' = tdev /\ tpc = "set"
        /\ tx_enabled' = tx_enabled \cup {tdev}
    BY <1>18 DEF TransmitSet
  <2>2. UNCHANGED <<canmcf, iflag, mbxid, unserved>>
    BY <1>18 DEF TransmitSet, isr, dev, hist
  <2> QED
    BY <1>3, <2>1, <2>2 DEF InProgress
<1>19. CASE TransmitSend
  <2>1. tdev \in TxBoxes /\ tmsg # None
    BY <1>1, <1>19 DEF TransmitSend, Locals
  <2>2. canmcf'[m] = IF m = tdev THEN tmsg ELSE canmcf[m]
    BY <1>1, <1>2, <1>19, <2>1 DEF TransmitSend, DevOK
  <2>3. UNCHANGED <<tx_enabled, iflag, mbxid, unserved>>
    BY <1>19 DEF TransmitSend, isr, hist
  <2> QED
    BY <1>3, <2>1, <2>2, <2>3 DEF InProgress
<1>20. CASE ReadDone \/ MdriverData \/ ResmgrStart
  BY <1>3, <1>20 DEF ReadDone, MdriverData, ResmgrStart, InProgress, isr, thread,
     dev, hist
<1> QED
  BY <1>4, <1>6, <1>7, <1>8, <1>9, <1>10, <1>11, <1>12, <1>13, <1>14,
     <1>15, <1>16, <1>18, <1>19, <1>20 DEF Next

(* In raw mode can_intr serves the only transmit mailbox whenever it clears  *)
(* its flag.                                                                 *)
LEMMA RawServedStep ==
  ASSUME CanInv, Next, OneTxBox
  PROVE  RawServed'
<1>1. ClearedOnce /\ RawServed
  BY DEF CanInv
<1>2. /\ \A m \in TxBoxes : m \in Boxes /\ m \notin RxBoxes /\ m # None
      /\ \A m \in RxBoxes : m \in Boxes /\ m \notin TxBoxes
  BY BoxFacts
<1>3. \A m, k \in TxBoxes : m = k
  BY DEF OneTxBox
<1>4. CASE IsrRxAck
  BY <1>1, <1>2, <1>4 DEF IsrRxAck, ClearFlags, RawServed
<1>5. CASE IsrTx
  <2>1. PICK k \in TxBoxes : ClearFlags(irqsrc \cap TxBoxes, k)
    BY <1>5 DEF IsrTx
  <2>2. \A m \in TxBoxes : m \in unserved' => m \in unserved \/ m # k
    BY <1>2, <2>1 DEF ClearFlags
  <2> QED
    BY <1>1, <1>3, <2>2 DEF RawServed
<1>6. CASE IsrClear
  <2>1. \A m \in TxBoxes \cap irqsrc : m \notin iflag
    BY <1>1, <1>6 DEF IsrClear, ClearedOnce
  <2>2. \A m \in TxBoxes : m \in unserved' => m \in unserved
    BY <1>6, <2>1 DEF IsrClear, ClearFlags
  <2> QED
    BY <1>1, <2>2 DEF RawServed
<1>7. CASE \E k \in RxBoxes : BusReceived(k)
  BY <1>1, <1>7 DEF BusReceived, RawServed
<1>8. CASE UNCHANGED unserved
  BY <1>1, <1>8 DEF RawServed
<1>9. CASE \/ IsrEnter \/ IsrRead \/ IsrRx \/ IsrTxNext \/ IsrTxEnd
           \/ \E m \in TxBoxes : Write(m) \/ BusSent(m)
           \/ \E m \in RxBoxes : Read(m)
           \/ TransmitTest \/ TransmitTake \/ TransmitSet \/ TransmitSend
           \/ ReadDone \/ MdriverData \/ ResmgrStart
  <2>1. UNCHANGED unserved
    BY <1>9 DEF IsrEnter, IsrRead, IsrRx, IsrTxNext, IsrTxEnd, Write, BusSent,
       Read, TransmitTest, TransmitTake, TransmitSet, TransmitSend, ReadDone,
       MdriverData, ResmgrStart, hist
  <2> QED
    BY <1>8, <2>1
<1> QED
  BY <1>4, <1>5, <1>6, <1>7, <1>9 DEF Next
-----------------------------------------------------------------------------
(* The inductive invariant, by the lemmas about each part of it. *)
LEMMA CanInit == Init => CanInv
<1> SUFFICES ASSUME Init PROVE CanInv
  OBVIOUS
<1>1. None = 0 /\ Boxes = RxBoxes \cup TxBoxes
  BY DEF None, Boxes
<1>2. /\ \A m \in TxBoxes : m \in Boxes /\ m \notin RxBoxes /\ m # None
      /\ \A m \in RxBoxes : m \in Boxes /\ m \notin TxBoxes /\ m # None
  BY BoxFacts
<1>3. << >> \in Seq(Nat \ {None}) /\ Len(<< >>) = 0
  OBVIOUS
<1>4. QueuesOK
  BY <1>3, CanAssumption DEF Init, QueuesOK
<1>5. IsrOK /\ ThreadOK
  BY <1>1, CanAssumption DEF Init, IsrOK, ThreadOK
<1>6. DevOK /\ HistOK /\ MdriverRx <= arrived
  BY <1>1, CanAssumption DEF Init, DevOK, HistOK
<1>7. Locals
  BY DEF Init, Locals
<1>8. ASSUME NEW m \in TxBoxes
      PROVE  TxElements(m) /\ OneSender(m) /\ TxOrder(m)
  <2>1. /\ IsrMsg(m) = None /\ ThreadMsg(m) = None /\ canmcf[m] = None
        /\ free_queue[m] = QSize /\ msg_queue[m] = << >>
        /\ sent[m] = 0 /\ written[m] = 0
    BY <1>2 DEF Init, IsrMsg, ThreadMsg
  <2>2. TxElements(m)
    BY <1>3, <2>1, CanAssumption DEF TxElements, Count
  <2>3. OneSender(m)
    BY <1>2 DEF Init, OneSender, Sending
  <2>4. TxOrder(m)
    BY <1>3, <2>1 DEF TxOrder, Front, Count
  <2> QED
    BY <2>2, <2>3, <2>4
<1>9. ASSUME NEW m \in RxBoxes
      PROVE  RxElements(m) /\ FlagIsMsg(m) /\ RxOrder(m)
  <2>1. /\ IsrMsg(m) = None /\ reading[m] = None /\ canmcf[m] = None
        /\ free_queue[m] = QSize /\ msg_queue[m] = << >>
        /\ taken[m] = None /\ arrived = MdriverRx
    BY <1>1, <1>2 DEF Init, IsrMsg
  <2>2. RxElements(m)
    BY <1>3, <2>1, CanAssumption DEF RxElements, Count
  <2>3. FlagIsMsg(m)
    BY DEF Init, FlagIsMsg
  <2>4. RxAround(m)
    BY <1>1, <2>1, BeforeNone, CanAssumption DEF RxAround
  <2>5. RxQueued(m) /\ RxSorted(m)
    BY <1>3, <2>1 DEF RxQueued, RxSorted
  <2> QED
    BY <2>2, <2>3, <2>4, <2>5 DEF RxOrder
<1>10. ClearedOnce /\ TxNotStuck /\ RawServed
  BY DEF Init, ClearedOnce, TxNotStuck, RawServed
<1> QED
  BY <1>4, <1>5, <1>6, <1>7, <1>8, <1>9, <1>10, TypeParts DEF CanInv

(* A step that changes nothing the driver can see. *)
LEMMA CanStutter == CanInv /\ UNCHANGED vars => CanInv'
<1> SUFFICES ASSUME CanInv, UNCHANGED vars PROVE CanInv'
  OBVIOUS
<1> USE DEF vars, queues, isr, thread, dev, hist
<1>1. TypeOK'
  <2>1. QueuesOK' /\ IsrOK'
    BY TypeParts DEF CanInv, QueuesOK, IsrOK
  <2>2. ThreadOK' /\ DevOK' /\ HistOK'
    BY TypeParts DEF CanInv, ThreadOK, DevOK, HistOK
  <2> QED
    BY <2>1, <2>2, TypePartsPrimed
<1>2. Locals' /\ MdriverRx <= arrived'
  BY DEF CanInv, Locals
<1>3. ASSUME NEW m \in TxBoxes
      PROVE  TxElements(m)' /\ OneSender(m)' /\ TxOrder(m)'
  BY TxFrame DEF CanInv, TxSame, IsrMsg, ThreadMsg, OneSender, Sending
<1>4. ASSUME NEW m \in RxBoxes
      PROVE  RxElements(m)' /\ FlagIsMsg(m)' /\ RxOrder(m)'
  <2>1. RxElements(m) /\ FlagIsMsg(m) /\ RxOrder(m) /\ TypeOK
    BY DEF CanInv
  <2>2. arrived' \in Nat /\ arrived <= arrived'
    BY <2>1 DEF TypeOK
  <2>3. RxElements(m)' /\ RxOrder(m)'
    BY <2>1, <2>2, RxFrame DEF IsrMsg
  <2> QED
    BY <2>1, <2>3 DEF FlagIsMsg
<1>5. TxNotStuck' /\ (OneTxBox => ClearedOnce' /\ RawServed')
  BY DEF CanInv, ClearedOnce, TxNotStuck, InProgress, RawServed
<1> QED
  BY <1>1, <1>2, <1>3, <1>4, <1>5 DEF CanInv, OneTxBox

(***************************************************************************)
(* CanInv holds in every state that can_intr, can_drvr_transmit, libcan    *)
(* and the controller reach, for every set of mailboxes and queue size.    *)
(***************************************************************************)
THEOREM CanInvariant == Spec => []CanInv
<1>1. ASSUME CanInv, Next PROVE CanInv'
  <2>1. TypeOK' /\ MdriverRx <= arrived'
    BY <1>1, QueuesStep, IsrStep, ThreadStep, DevStep, HistStep,
       TypePartsPrimed
  <2>2. Locals'
    BY <1>1, LocalsStep
  <2>3. \A m \in TxBoxes : TxElements(m)' /\ OneSender(m)' /\ TxOrder(m)'
    BY <1>1, TxStep, OneSenderStep
  <2>4. \A m \in RxBoxes : RxElements(m)' /\ FlagIsMsg(m)' /\ RxOrder(m)'
    BY <1>1, RxStep, FlagStep
  <2>5. TxNotStuck' /\ (OneTxBox => ClearedOnce' /\ RawServed')
    BY <1>1, ClearedStep, NotStuckStep, RawServedStep
  <2> QED
    BY <2>1, <2>2, <2>3, <2>4, <2>5 DEF CanInv, OneTxBox
<1> QED
  BY <1>1, CanInit, CanStutter, PTL DEF Spec

(* Every variable of the driver keeps its type, so that a free queue never   *)
(* holds more than msgq_size elements and no message is None.                *)
THEOREM CanTypeCorrect == Spec => []TypeOK
<1>1. CanInv => TypeOK
  BY DEF CanInv
<1> QED
  BY <1>1, CanInvariant, PTL
-----------------------------------------------------------------------------
(* What a variable holds, as a sequence. *)
LEMMA HeldSeq ==
  ASSUME NEW x \in Nat
  PROVE  /\ Held(x) \in Seq(Nat) /\ Len(Held(x)) = Count(x)
         /\ \A i \in 1 .. Len(Held(x)) : i = 1 /\ Held(x)[i] = x
BY DEF Held, Count

(* The message of can_intr or of can_drvr_transmit for one mailbox. *)
LEMMA HasHeld ==
  \A m : IsrHas(m) = Held(IsrMsg(m)) /\ ThreadHas(m) = Held(ThreadMsg(m))
BY DEF IsrHas, ThreadHas, IsrMsg, ThreadMsg, Held

(* The sequences that TypeOK gives for one mailbox. *)
LEMMA BoxSeqs ==
  ASSUME TypeOK, NEW m \in Boxes
  PROVE  /\ msg_queue[m] \in Seq(Nat) /\ Len(msg_queue[m]) \in Nat
         /\ IsrMsg(m) \in Nat /\ ThreadMsg(m) \in Nat
<1>1. msg_queue[m] \in Seq(Nat \ {None})
  BY DEF TypeOK
<1>2. msg_queue[m] \in Seq(Nat) /\ Len(msg_queue[m]) \in Nat
  BY <1>1
<1> QED
  BY <1>2 DEF TypeOK, IsrMsg, ThreadMsg, None

(* Counting elements in one sequence or in its three parts. *)
LEMMA Elements3 ==
  ASSUME NEW f \in Nat,
         NEW s \in Seq(Nat), NEW t \in Seq(Nat), NEW u \in Seq(Nat),
         f + Len(s) + Len(t) + Len(u) = QSize
  PROVE  f + Len(s \o t \o u) = QSize
<1>1. s \o t \in Seq(Nat) /\ Len(s \o t) = Len(s) + Len(t)
  BY ConcatProperties
<1>2. Len((s \o t) \o u) = Len(s \o t) + Len(u)
  BY <1>1, ConcatProperties
<1>3. Len(s) \in Nat /\ Len(t) \in Nat /\ Len(u) \in Nat
  BY LenProperties
<1>4. f + (Len(s) + Len(t) + Len(u)) = QSize
  BY <1>3
<1> QED
  BY <1>1, <1>2, <1>4

(***************************************************************************)
(* Each of the msgq_size elements of a mailbox is free, queued or in the   *)
(* hands of exactly one of can_intr, can_drvr_transmit and the client that *)
(* reads, however these interleave.                                        *)
(***************************************************************************)
THEOREM CanElementsConserved == Spec => []ElementsConserved
<1>1. CanInv => ElementsConserved
  <2> SUFFICES ASSUME CanInv PROVE ElementsConserved
    OBVIOUS
  <2>1. TypeOK
    BY DEF CanInv
  <2>2. ASSUME NEW m \in TxBoxes
        PROVE  free_queue[m] + Len(msg_queue[m] \o IsrHas(m) \o ThreadHas(m))
                 = QSize
    <3>1. /\ msg_queue[m] \in Seq(Nat) /\ Len(msg_queue[m]) \in Nat
          /\ IsrMsg(m) \in Nat /\ ThreadMsg(m) \in Nat
          /\ free_queue[m] \in Nat
      BY <2>1, BoxSeqs, BoxFacts, BoxTypes, CanAssumption
    <3>2. /\ IsrHas(m) \in Seq(Nat) /\ Len(IsrHas(m)) = Count(IsrMsg(m))
          /\ ThreadHas(m) \in Seq(Nat) /\ Len(ThreadHas(m)) = Count(ThreadMsg(m))
      BY <3>1, HeldSeq, HasHeld
    <3>3. TxElements(m)
      BY DEF CanInv
    <3>4. free_queue[m] + Len(msg_queue[m]) + Len(IsrHas(m)) + Len(ThreadHas(m))
            = QSize
      BY <3>2, <3>3, Zenon DEF TxElements
    <3> QED
      BY <3>1, <3>2, <3>4, Elements3, Zenon
  <2>3. ASSUME NEW m \in RxBoxes
        PROVE  free_queue[m] + Len(msg_queue[m] \o IsrHas(m) \o Held(reading[m]))
                 = QSize
    <3>1. /\ msg_queue[m] \in Seq(Nat) /\ Len(msg_queue[m]) \in Nat
          /\ IsrMsg(m) \in Nat /\ reading[m] \in Nat /\ free_queue[m] \in Nat
      BY <2>1, BoxSeqs, BoxFacts, BoxTypes, CanAssumption
    <3>2. /\ IsrHas(m) \in Seq(Nat) /\ Len(IsrHas(m)) = Count(IsrMsg(m))
          /\ Held(reading[m]) \in Seq(Nat)
          /\ Len(Held(reading[m])) = Count(reading[m])
      BY <3>1, HeldSeq, HasHeld
    <3>3. RxElements(m)
      BY DEF CanInv
    <3>4. free_queue[m] + Len(msg_queue[m]) + Len(IsrHas(m))
            + Len(Held(reading[m])) = QSize
      BY <3>2, <3>3, Zenon DEF RxElements
    <3> QED
      BY <3>1, <3>2, <3>4, Elements3, Zenon
  <2> QED
    BY <2>2, <2>3 DEF ElementsConserved
<1> QED
  BY <1>1, CanInvariant, PTL

(* Of three holders of at most one message, two hold none. *)
LEMMA OneHolder ==
  ASSUME NEW x \in Nat, NEW y \in Nat, NEW z \in Nat,
         x # None => y = None /\ z = None, y # None => z = None
  PROVE  Held(x) \o Held(y) \o Held(z)
           = Held(IF x # None THEN x ELSE IF y # None THEN y ELSE z)
<1>1. /\ Held(x) \in Seq(Nat) /\ Held(y) \in Seq(Nat) /\ Held(z) \in Seq(Nat)
      /\ Held(None) = << >>
  BY HeldSeq DEF Held
<1>2. /\ \A s \in Seq(Nat) : s \o << >> = s /\ << >> \o s = s
      /\ << >> \in Seq(Nat)
  BY ConcatEmptySeq
<1>3. CASE x # None
  BY <1>1, <1>2, <1>3
<1>4. CASE x = None /\ y # None
  BY <1>1, <1>2, <1>4
<1>5. CASE x = None /\ y = None
  BY <1>1, <1>2, <1>5
<1> QED
  BY <1>3, <1>4, <1>5

(* The messages after the n-th, up to the w-th. *)
After(n, w) == [i \in 1 .. (w - n) |-> n + i]

(* A message and a queue that count on from n are the messages after n. *)
LEMMA Counting ==
  ASSUME NEW x \in Nat, NEW q \in Seq(Nat), NEW n \in Nat, NEW w \in Nat,
         x # None => x = n + 1,
         \A i \in 1 .. Len(q) : q[i] = n + Count(x) + i,
         w = n + Count(x) + Len(q)
  PROVE  Held(x) \o q = After(n, w)
<1> DEFINE p == Held(x) \o q
           r == [i \in 1 .. (w - n) |-> n + i]
<1>1. Held(x) \in Seq(Nat) /\ Len(Held(x)) = Count(x) /\ Len(q) \in Nat
  BY HeldSeq
<1>2. /\ p \in Seq(Nat) /\ Len(p) = Count(x) + Len(q)
      /\ \A i \in 1 .. Count(x) + Len(q) :
           p[i] = IF i <= Count(x) THEN Held(x)[i] ELSE q[i - Count(x)]
  <2>1. /\ p \in Seq(Nat) /\ Len(p) = Len(Held(x)) + Len(q)
        /\ \A i \in 1 .. Len(Held(x)) + Len(q) :
             p[i] = IF i <= Len(Held(x)) THEN Held(x)[i]
                    ELSE q[i - Len(Held(x))]
    BY <1>1, ConcatProperties
  <2> HIDE DEF p
  <2> QED
    BY <1>1, <2>1
<1>3. w - n = Count(x) + Len(q) /\ w - n \in Nat
  BY <1>1 DEF Count
<1>4. p = [i \in 1 .. Len(p) |-> p[i]]
  BY <1>2, LenProperties
<1>5. ASSUME NEW i \in 1 .. (w - n) PROVE p[i] = n + i
  <2>1. CASE x = None
    <3>1. Count(x) = 0 /\ i \in 1 .. Len(q)
      BY <1>1, <1>3, <2>1 DEF Count
    <3>2. p[i] = q[i]
      BY <1>1, <1>2, <3>1
    <3> QED
      BY <3>1, <3>2
  <2>2. CASE x # None /\ i = 1
    <3>1. Count(x) = 1 /\ p[1] = Held(x)[1]
      BY <1>1, <1>2, <2>2 DEF Count
    <3>2. Held(x)[1] = x
      BY <2>2 DEF Held
    <3> QED
      BY <2>2, <3>1, <3>2
  <2>3. CASE x # None /\ i # 1
    <3>1. Count(x) = 1 /\ i - 1 \in 1 .. Len(q)
      BY <1>1, <1>3, <2>3 DEF Count
    <3>2. p[i] = q[i - 1]
      BY <1>1, <1>2, <1>3, <3>1
    <3>3. q[i - 1] = n + 1 + (i - 1)
      BY <3>1
    <3> QED
      BY <3>2, <3>3
  <2> QED
    BY <2>1, <2>2, <2>3
<1> HIDE DEF p
<1>6. r = p
  BY <1>2, <1>3, <1>4, <1>5
<1> QED
  BY <1>6 DEF p, After

(***************************************************************************)
(* can_drvr_transmit tests TX_ENABLED and dequeues without a lock while    *)
(* can_intr dequeues from the same queue: the messages that are not sent   *)
(* yet are those after the last one sent, in order and each once.          *)
(***************************************************************************)
THEOREM CanTxInOrder == Spec => []TxInOrder
<1>1. CanInv => TxInOrder
  <2> SUFFICES ASSUME CanInv, NEW m \in TxBoxes
               PROVE  Held(canmcf[m]) \o IsrHas(m) \o ThreadHas(m) \o msg_queue[m]
                        = [i \in 1 .. (written[m] - sent[m]) |-> sent[m] + i]
    BY DEF TxInOrder
  <2>1. TypeOK /\ Locals /\ OneSender(m) /\ TxOrder(m)
    BY DEF CanInv
  <2>2. /\ msg_queue[m] \in Seq(Nat) /\ canmcf[m] \in Nat
        /\ IsrMsg(m) \in Nat /\ ThreadMsg(m) \in Nat
        /\ written[m] \in Nat /\ sent[m] \in Nat /\ Front(m) \in Nat
    BY <2>1, BoxSeqs, BoxFacts, BoxTypes DEF Front
  <2>3. canmcf[m] # None => IsrMsg(m) = None /\ ThreadMsg(m) = None
    BY <2>1 DEF OneSender, Sending, Locals, IsrMsg, ThreadMsg
  <2>4. IsrMsg(m) # None => ThreadMsg(m) = None
    BY <2>1 DEF OneSender, Sending, Locals, IsrMsg, ThreadMsg
  <2>5. Held(canmcf[m]) \o Held(IsrMsg(m)) \o Held(ThreadMsg(m))
          = Held(Front(m))
    BY <2>2, <2>3, <2>4, OneHolder DEF Front
  <2>6. Held(Front(m)) \o msg_queue[m]
          = [i \in 1 .. (written[m] - sent[m]) |-> sent[m] + i]
    <3>1. /\ Front(m) # None => Front(m) = sent[m] + 1
          /\ \A i \in 1 .. Len(msg_queue[m]) :
               msg_queue[m][i] = sent[m] + Count(Front(m)) + i
          /\ written[m] = sent[m] + Count(Front(m)) + Len(msg_queue[m])
      BY <2>1 DEF TxOrder
    <3>2. Held(Front(m)) \o msg_queue[m] = After(sent[m], written[m])
      BY <2>2, <3>1, Counting, ZenonT(60)
    <3> QED
      BY <3>2 DEF After
  <2> QED
    BY <2>5, <2>6, HasHeld
<1> QED
  BY <1>1, CanInvariant, PTL

(* The messages of the bus in a sequence are in the order of their arrival. *)
InBusOrder(s) == \A i, j \in 1 .. Len(s) : i < j => Before(s[i], s[j])

(* Every element of one sequence comes before every element of the other. *)
AllBefore(s, t) ==
  \A i \in 1 .. Len(s), j \in 1 .. Len(t) : Before(s[i], t[j])

(* An index of a concatenation is one of its parts'. *)
LEMMA ConcatIndex ==
  ASSUME NEW s \in Seq(Nat), NEW t \in Seq(Nat), NEW i \in 1 .. Len(s \o t)
  PROVE  \/ i \in 1 .. Len(s) /\ (s \o t)[i] = s[i]
         \/ /\ i - Len(s) \in 1 .. Len(t) /\ i > Len(s)
            /\ (s \o t)[i] = t[i - Len(s)]
<1>1. Len(s) \in Nat /\ Len(t) \in Nat /\ Len(s \o t) = Len(s) + Len(t)
  BY ConcatProperties
<1>2. (s \o t)[i] = IF i <= Len(s) THEN s[i] ELSE t[i - Len(s)]
  BY <1>1, ConcatProperties
<1>3. i \in Nat /\ i >= 1 /\ i <= Len(s) + Len(t)
  BY <1>1
<1>4. CASE i <= Len(s)
  BY <1>1, <1>2, <1>3, <1>4
<1>5. CASE ~(i <= Len(s))
  <2>1. i > Len(s) /\ i - Len(s) \in 1 .. Len(t)
    BY <1>1, <1>3, <1>5
  <2> QED
    BY <1>2, <1>5, <2>1
<1> QED
  BY <1>4, <1>5

(* The order of a concatenation. *)
LEMMA ConcatOrder ==
  ASSUME NEW s \in Seq(Nat), NEW t \in Seq(Nat), InBusOrder(s), InBusOrder(t),
         AllBefore(s, t)
  PROVE  s \o t \in Seq(Nat) /\ InBusOrder(s \o t)
<1>1. s \o t \in Seq(Nat) /\ Len(s) \in Nat
  BY ConcatProperties
<1>2. ASSUME NEW i \in 1 .. Len(s \o t), NEW j \in 1 .. Len(s \o t), i < j
      PROVE  Before((s \o t)[i], (s \o t)[j])
  <2>1. CASE i \in 1 .. Len(s) /\ (s \o t)[i] = s[i]
    <3>1. CASE j \in 1 .. Len(s) /\ (s \o t)[j] = s[j]
      BY <1>2, <2>1, <3>1 DEF InBusOrder
    <3>2. CASE j - Len(s) \in 1 .. Len(t) /\ (s \o t)[j] = t[j - Len(s)]
      BY <2>1, <3>2 DEF AllBefore
    <3> QED
      BY <3>1, <3>2, ConcatIndex
  <2>2. CASE /\ i - Len(s) \in 1 .. Len(t) /\ i > Len(s)
             /\ (s \o t)[i] = t[i - Len(s)]
    <3>1. ~(j \in 1 .. Len(s)) /\ i - Len(s) < j - Len(s)
      BY <1>1, <1>2, <2>2
    <3>2. j - Len(s) \in 1 .. Len(t) /\ (s \o t)[j] = t[j - Len(s)]
      BY <3>1, ConcatIndex
    <3> QED
      BY <2>2, <3>1, <3>2 DEF InBusOrder
  <2> QED
    BY <2>1, <2>2, ConcatIndex
<1> QED
  BY <1>1, <1>2 DEF InBusOrder

(* What comes before the parts of a concatenation comes before it. *)
LEMMA ConcatBefore ==
  ASSUME NEW s \in Seq(Nat), NEW t \in Seq(Nat), NEW u \in Seq(Nat),
         AllBefore(s, u), AllBefore(t, u)
  PROVE  AllBefore(s \o t, u)
<1>1. ASSUME NEW i \in 1 .. Len(s \o t), NEW j \in 1 .. Len(u)
      PROVE  Before((s \o t)[i], u[j])
  BY ConcatIndex DEF AllBefore
<1> QED
  BY <1>1 DEF AllBefore

(***************************************************************************)
(* A client reads the messages of the bus on a mailbox in the order in     *)
(* which they came, although can_intr overwrites the oldest message of a   *)
(* full queue behind the back of a client that reads.                      *)
(***************************************************************************)
THEOREM CanBusInOrder == Spec => []BusInOrder
<1>1. CanInv => BusInOrder
  <2> SUFFICES ASSUME CanInv, NEW m \in RxBoxes
               PROVE  RxStream(m) \in Seq(Nat) /\ InBusOrder(RxStream(m))
    <3>1. ASSUME NEW m \in RxBoxes, RxStream(m) \in Seq(Nat),
                 InBusOrder(RxStream(m))
          PROVE  \A i, j \in DOMAIN RxStream(m) :
                   i < j /\ FromBus(RxStream(m)[i]) /\ FromBus(RxStream(m)[j])
                     => RxStream(m)[i] < RxStream(m)[j]
      <4>1. DOMAIN RxStream(m) = 1 .. Len(RxStream(m))
        BY <3>1, LenProperties
      <4> QED
        BY <3>1, <4>1 DEF InBusOrder, Before
    <3> QED
      BY <3>1 DEF BusInOrder
  <2>1. TypeOK /\ RxOrder(m)
    BY DEF CanInv
  <2>2. /\ msg_queue[m] \in Seq(Nat) /\ IsrMsg(m) \in Nat
        /\ reading[m] \in Nat /\ taken[m] \in Nat
    BY <2>1, BoxSeqs, BoxFacts, BoxTypes
  <2> DEFINE a == <<taken[m]>>
             b == Held(reading[m])
             c == msg_queue[m]
             d == Held(IsrMsg(m))
  <2>3. /\ a \in Seq(Nat) /\ Len(a) = 1 /\ a[1] = taken[m]
        /\ \A i \in 1 .. Len(a) : a[i] = taken[m] /\ i = 1
    BY <2>2
  <2>4. b \in Seq(Nat) /\ \A i \in 1 .. Len(b) : i = 1 /\ b[i] = reading[m]
    BY <2>2, HeldSeq
  <2>5. d \in Seq(Nat) /\ \A i \in 1 .. Len(d) : i = 1 /\ d[i] = IsrMsg(m)
    BY <2>2, HeldSeq
  <2>6. c \in Seq(Nat)
    BY <2>2
  <2>7. RxStream(m) = a \o b \o c \o d
    BY HasHeld DEF RxStream
  <2>8. /\ Before(taken[m], reading[m]) /\ Before(taken[m], IsrMsg(m))
        /\ Before(reading[m], IsrMsg(m))
    BY <2>1 DEF RxOrder, RxAround
  <2>9. /\ \A i \in 1 .. Len(c) : /\ Before(taken[m], c[i])
                                  /\ Before(reading[m], c[i])
                                  /\ Before(c[i], IsrMsg(m))
        /\ InBusOrder(c)
    BY <2>1 DEF RxOrder, RxQueued, RxSorted, InBusOrder
  <2> HIDE DEF a, b, c, d
  <2>10. InBusOrder(a) /\ InBusOrder(b) /\ InBusOrder(d)
    BY <2>3, <2>4, <2>5 DEF InBusOrder
  <2>11. AllBefore(a, b) /\ AllBefore(a, d) /\ AllBefore(b, d)
    BY <2>3, <2>4, <2>5, <2>8 DEF AllBefore
  <2>12. AllBefore(a, c) /\ AllBefore(b, c) /\ AllBefore(c, d)
    BY <2>3, <2>4, <2>5, <2>9 DEF AllBefore
  <2>13. a \o b \in Seq(Nat) /\ InBusOrder(a \o b)
    BY <2>3, <2>4, <2>10, <2>11, ConcatOrder
  <2>14. AllBefore(a \o b, c) /\ AllBefore(a \o b, d)
    BY <2>3, <2>4, <2>5, <2>6, <2>11, <2>12, ConcatBefore
  <2>15. a \o b \o c \in Seq(Nat) /\ InBusOrder(a \o b \o c)
    BY <2>6, <2>9, <2>13, <2>14, ConcatOrder
  <2>16. AllBefore(a \o b \o c, d)
    BY <2>5, <2>6, <2>12, <2>13, <2>14, ConcatBefore
  <2>17. a \o b \o c \o d \in Seq(Nat) /\ InBusOrder(a \o b \o c \o d)
    BY <2>5, <2>10, <2>15, <2>16, ConcatOrder
  <2> QED
    BY <2>7, <2>17
<1> QED
  BY <1>1, CanInvariant, PTL

(***************************************************************************)
(* For any number of mailboxes: TX_ENABLED stays set with nothing on its   *)
(* way only after can_intr has cleared the flag of that mailbox without    *)
(* serving it.  Every other order of can_intr, can_drvr_transmit and the   *)
(* controller, with any number of messages, leaves none stuck.             *)
(***************************************************************************)
THEOREM CanTxNotStuck == Spec => []TxNotStuck
<1>1. CanInv => TxNotStuck
  BY DEF CanInv
<1> QED
  BY <1>1, CanInvariant, PTL

(***************************************************************************)
(* In raw mode, with its one transmit mailbox, and with frames that outlast *)
(* a turn of can_intr, that never happens: TX_ENABLED says the truth.      *)
(***************************************************************************)
THEOREM CanTxInProgress ==
  ASSUME FrameOutlastsIsr, \A m, k \in TxBoxes : m = k
  PROVE  Spec => []TxInProgress
<1>1. CanInv => TxInProgress
  <2> SUFFICES ASSUME CanInv PROVE TxInProgress
    OBVIOUS
  <2>1. TxNotStuck /\ RawServed /\ tx_enabled \subseteq TxBoxes
    BY DEF CanInv, OneTxBox, TypeOK
  <2> QED
    BY <2>1 DEF TxNotStuck, TxInProgress, RawServed
<1> QED
  BY <1>1, CanInvariant, PTL
=============================================================================
