------------------------------- MODULE CanMx6x -------------------------------
(***************************************************************************)
(* The FlexCAN driver (can/mx6x: canmx6x.c, mdriver.c): the interrupt      *)
(* handler can_intr, the transmit entry can_drvr_transmit that libcan      *)
(* calls, and the handover of the messages a mini-driver has buffered.     *)
(*                                                                         *)
(* The resource manager's thread, the interrupt handler and the controller *)
(* interleave freely (the i.MX6 has several cores); each canmsg_* call is  *)
(* atomic (canmsg_list_t has a spin lock).  Messages are numbered: those   *)
(* written to a transmit mailbox in the order of the writes, those from    *)
(* the bus in the order of their arrival.  Raw mode has one receive and    *)
(* one transmit mailbox, the other mode 31 of each.                        *)
(***************************************************************************)
EXTENDS Naturals, Sequences, Functions

CONSTANTS
  RxBoxes, TxBoxes,  \* the mailbox numbers of the two kinds
  QSize,             \* msgq_size: elements of each mailbox's queues
  MdriverRx,         \* number of messages a mini-driver has buffered
  MaxMsgs,           \* bound: messages from the bus and writes, together
  FrameOutlastsIsr   \* no frame starts and ends within one turn of can_intr

ASSUME CanAssumption ==
  /\ RxBoxes \subseteq Nat \ {0} /\ TxBoxes \subseteq Nat \ {0}
  /\ RxBoxes \cap TxBoxes = {}
  /\ QSize \in Nat \ {0} /\ MdriverRx \in Nat
  /\ MaxMsgs \in Nat /\ FrameOutlastsIsr \in BOOLEAN

VARIABLES
  free_queue,   \* per mailbox: how many elements are free
  msg_queue,    \* per mailbox: the messages in it
  tx_enabled,   \* mailboxes with CANDEV_RINGO_TX_ENABLED in dflags
  ipc,          \* where can_intr is; its locals are:
  irqsrc,       \* irqsrc1 and irqsrc2
  mbxid,        \* mailbox index, 0 before one is chosen
  imsg,         \* rxmsg or txmsg: the message in its element, or None
  tpc, tdev,    \* where the resource manager's thread is, for which mailbox
  tmsg,         \* txmsg of can_drvr_transmit
  reading,      \* per mailbox: the message a client is copying, or None
  mdone,        \* messages of the mini-driver handed over so far
  canmcf,       \* per mailbox: the message in it, or None
  iflag,        \* CANIFLAG1 and CANIFLAG2
  fresh,        \* transmit mailboxes started since can_intr read the flags
  written, sent, \* per transmit mailbox: last message written, last one sent
  arrived,      \* last message that came from the bus
  taken,        \* per receive mailbox: the last message a client has read
  unserved      \* mailboxes whose flag can_intr has cleared, and neither read
                \* their message nor looked for the next one to send

queues == <<free_queue, msg_queue>>
isr    == <<ipc, irqsrc, mbxid, imsg>>
thread == <<tpc, tdev, tmsg>>
dev    == <<canmcf, iflag>>
hist   == <<written, sent, arrived, taken, unserved>>
vars   == <<queues, tx_enabled, isr, thread, reading, mdone, dev, fresh, hist>>

Boxes == RxBoxes \cup TxBoxes
None  == 0

(* The lowest mailbox of a set, which the search loops of can_intr find. *)
IsFirst(m, S) == m \in S /\ \A k \in S : m <= k

DequeueMsg(m)  == msg_queue' = [msg_queue EXCEPT ![m] = Tail(@)]
QueueMsg(m, x) == msg_queue' = [msg_queue EXCEPT ![m] = Append(@, x)]
DequeueFree(m) == free_queue' = [free_queue EXCEPT ![m] = @ - 1]
QueueFree(m)   == free_queue' = [free_queue EXCEPT ![m] = @ + 1]

IsrLocals(m, x) == mbxid' = m /\ imsg' = x

(* The bound: another message may come from the bus or from a client. *)
MoreMsgs ==
  FoldFunctionOnSet(LAMBDA a, b : a + b, arrived, written, TxBoxes)
    < MdriverRx + MaxMsgs

(***************************************************************************)
(* Clear flags.  Of those that are set, the receive mailboxes that hold a  *)
(* message lose its interrupt, and the transmit mailboxes but the one that *)
(* is served (if any) lose that of their completion.                       *)
(***************************************************************************)
ClearFlags(S, served) ==
  /\ iflag' = iflag \ S
  /\ unserved' = unserved \cup
       {m \in S \cap iflag : IF m \in RxBoxes THEN canmcf[m] # None
                                             ELSE m # served}
-----------------------------------------------------------------------------
(* The controller raises its interrupt while a flag is set. *)
IsrEnter ==
  /\ ipc = "off" /\ iflag # {}
  /\ ipc' = "read"
  /\ UNCHANGED <<queues, tx_enabled, irqsrc, mbxid, imsg, thread, reading,
                 mdone, dev, fresh, hist>>

(* The top of the loop: read both flag registers. *)
IsrRead ==
  /\ ipc = "read"
  /\ irqsrc' = iflag /\ fresh' = {}
  /\ ipc' = CASE iflag = {}            -> "off"
              [] iflag \cap RxBoxes # {} -> "rx"
              [] OTHER                 -> "tx"
  /\ UNCHANGED <<queues, tx_enabled, mbxid, imsg, thread, reading, mdone,
                 dev, hist>>

(* Slip: a message that finds no free element waits for the client. *)
IsrRxNoOverwrite ==
  /\ ipc = "rx"
  /\ \E m \in RxBoxes :
       /\ IsFirst(m, irqsrc \cap RxBoxes)
       /\ \/ /\ free_queue[m] > 0 /\ DequeueFree(m)
             /\ IsrLocals(m, canmcf[m]) /\ ipc' = "rxack"
             /\ canmcf' = [canmcf EXCEPT ![m] = None]
             /\ UNCHANGED msg_queue
          \/ /\ free_queue[m] = 0
             /\ ipc' = "off"
             /\ UNCHANGED <<queues, mbxid, imsg, canmcf>>
  /\ UNCHANGED <<tx_enabled, irqsrc, thread, reading, mdone, iflag, fresh,
                 hist>>

(***************************************************************************)
(* A receive mailbox: take a free element or the oldest message's, read    *)
(* the mailbox and set it to EMPTY.  With no element anywhere the loop is  *)
(* left, the flag still set.                                               *)
(***************************************************************************)
IsrRx ==
  /\ ipc = "rx"
  /\ \E m \in RxBoxes :
       /\ IsFirst(m, irqsrc \cap RxBoxes)
       /\ \/ /\ free_queue[m] > 0 /\ DequeueFree(m) /\ UNCHANGED msg_queue
             /\ IsrLocals(m, canmcf[m]) /\ ipc' = "rxack"
             /\ canmcf' = [canmcf EXCEPT ![m] = None]
          \/ /\ free_queue[m] = 0 /\ msg_queue[m] # << >>
             /\ DequeueMsg(m) /\ UNCHANGED free_queue
             /\ IsrLocals(m, canmcf[m]) /\ ipc' = "rxack"
             /\ canmcf' = [canmcf EXCEPT ![m] = None]
          \/ /\ free_queue[m] = 0 /\ msg_queue[m] = << >>
             /\ ipc' = "off"
             /\ UNCHANGED <<queues, mbxid, imsg, canmcf>>
  /\ UNCHANGED <<tx_enabled, irqsrc, thread, reading, mdone, iflag, fresh,
                 hist>>

(* Slip: the message is put at the consumer's end of the queue. *)
IsrRxAckFront ==
  /\ ipc = "rxack"
  /\ ClearFlags(irqsrc \cap RxBoxes, None)
  /\ msg_queue' = [msg_queue EXCEPT ![mbxid] = <<imsg>> \o @]
  /\ IsrLocals(None, None)
  /\ \/ ipc' = "off"
     \/ ipc' = IF irqsrc \cap TxBoxes # {} THEN "tx" ELSE "clear"
  /\ UNCHANGED <<free_queue, tx_enabled, irqsrc, thread, reading, mdone,
                 canmcf, fresh, written, sent, arrived, taken>>

(* Clear every receive flag that was read; one message goes to its queue.   *)
(* With a client waiting (wait_client_queue is libcan's) the event is       *)
(* returned and the rest of the turn skipped.                               *)
IsrRxAck ==
  /\ ipc = "rxack"
  /\ ClearFlags(irqsrc \cap RxBoxes, None)
  /\ QueueMsg(mbxid, imsg) /\ IsrLocals(None, None)
  /\ \/ ipc' = "off"
     \/ ipc' = IF irqsrc \cap TxBoxes # {} THEN "tx" ELSE "clear"
  /\ UNCHANGED <<free_queue, tx_enabled, irqsrc, thread, reading, mdone,
                 canmcf, fresh, written, sent, arrived, taken>>

(* Slip: the next message is looked at, not dequeued. *)
IsrTxPeeks ==
  /\ ipc = "tx"
  /\ \E m \in TxBoxes :
       /\ IsFirst(m, irqsrc \cap TxBoxes)
       /\ ClearFlags(irqsrc \cap TxBoxes, m)
       /\ IF msg_queue[m] # << >>
          THEN /\ IsrLocals(m, Head(msg_queue[m])) /\ ipc' = "txnext"
          ELSE IsrLocals(m, None) /\ ipc' = "txend"
  /\ UNCHANGED <<queues, tx_enabled, irqsrc, thread, reading, mdone, canmcf,
                 fresh, written, sent, arrived, taken>>

(* Clear every transmit flag that was read; the first mailbox is served.    *)
IsrTx ==
  /\ ipc = "tx"
  /\ \E m \in TxBoxes :
       /\ IsFirst(m, irqsrc \cap TxBoxes)
       /\ ClearFlags(irqsrc \cap TxBoxes, m)
       /\ IF msg_queue[m] # << >>
          THEN /\ DequeueMsg(m)
               /\ IsrLocals(m, Head(msg_queue[m])) /\ ipc' = "txnext"
          ELSE IsrLocals(m, None) /\ ipc' = "txend" /\ UNCHANGED msg_queue
  /\ UNCHANGED <<free_queue, tx_enabled, irqsrc, thread, reading, mdone,
                 canmcf, fresh, written, sent, arrived, taken>>

(* Slip: the element is not returned to the free queue. *)
IsrTxNextLeaks ==
  /\ ipc = "txnext"
  /\ canmcf' = [canmcf EXCEPT ![mbxid] = imsg] /\ fresh' = fresh \cup {mbxid}
  /\ IsrLocals(None, None)
  /\ ipc' \in {"off", "clear"}
  /\ UNCHANGED <<queues, tx_enabled, irqsrc, thread, reading, mdone, iflag,
                 hist>>

(* can_ringo_tx starts the next message; its element is free again. *)
IsrTxNext ==
  /\ ipc = "txnext"
  /\ canmcf' = [canmcf EXCEPT ![mbxid] = imsg] /\ fresh' = fresh \cup {mbxid}
  /\ QueueFree(mbxid) /\ IsrLocals(None, None)
  /\ ipc' \in {"off", "clear"}
  /\ UNCHANGED <<msg_queue, tx_enabled, irqsrc, thread, reading, mdone, iflag,
                 hist>>

(* Slip: TX_ENABLED stays set when the queue runs empty. *)
IsrTxEndKeeps ==
  /\ ipc = "txend"
  /\ IsrLocals(None, None)
  /\ ipc' \in {"off", "clear"}
  /\ UNCHANGED <<queues, tx_enabled, irqsrc, thread, reading, mdone, dev,
                 fresh, hist>>

(* The queue was empty: end transmission. *)
IsrTxEnd ==
  /\ ipc = "txend"
  /\ tx_enabled' = tx_enabled \ {mbxid}
  /\ IsrLocals(None, None)
  /\ ipc' \in {"off", "clear"}
  /\ UNCHANGED <<queues, irqsrc, thread, reading, mdone, dev, fresh, hist>>

(* The bottom of the loop clears once more the flags that were read. *)
IsrClear ==
  /\ ipc = "clear"
  /\ ClearFlags(irqsrc, None)
  /\ ipc' = "read"
  /\ UNCHANGED <<queues, tx_enabled, irqsrc, mbxid, imsg, thread, reading,
                 mdone, canmcf, fresh, written, sent, arrived, taken>>
-----------------------------------------------------------------------------
(* libcan (external): a client's write fills a free element of a transmit   *)
(* mailbox, queues it and calls the driver.                                 *)
Write(m) ==
  /\ tpc = "idle" /\ free_queue[m] > 0 /\ MoreMsgs
  /\ DequeueFree(m) /\ QueueMsg(m, written[m] + 1)
  /\ written' = [written EXCEPT ![m] = @ + 1]
  /\ tpc' = "test" /\ tdev' = m
  /\ UNCHANGED <<tx_enabled, isr, tmsg, reading, mdone, dev, fresh, sent,
                 arrived, taken, unserved>>

(* can_drvr_transmit: nothing to do if a transmission is in progress. *)
TransmitTest ==
  /\ tpc = "test"
  /\ tpc' = IF tdev \in tx_enabled THEN "idle" ELSE "take"
  /\ UNCHANGED <<queues, tx_enabled, isr, tdev, tmsg, reading, mdone, dev,
                 fresh, hist>>

TransmitTake ==
  /\ tpc = "take"
  /\ IF msg_queue[tdev] = << >>
     THEN tpc' = "idle" /\ UNCHANGED <<msg_queue, tmsg>>
     ELSE tpc' = "set" /\ tmsg' = Head(msg_queue[tdev]) /\ DequeueMsg(tdev)
  /\ UNCHANGED <<free_queue, tx_enabled, isr, tdev, reading, mdone, dev,
                 fresh, hist>>

(* Slip: no mark that a transmission is in progress. *)
TransmitSetForgets ==
  /\ tpc = "set"
  /\ tpc' = "send"
  /\ UNCHANGED <<queues, tx_enabled, isr, tdev, tmsg, reading, mdone, dev,
                 fresh, hist>>

TransmitSet ==
  /\ tpc = "set"
  /\ tx_enabled' = tx_enabled \cup {tdev} /\ tpc' = "send"
  /\ UNCHANGED <<queues, isr, tdev, tmsg, reading, mdone, dev, fresh, hist>>

TransmitSend ==
  /\ tpc = "send"
  /\ canmcf' = [canmcf EXCEPT ![tdev] = tmsg] /\ fresh' = fresh \cup {tdev}
  /\ QueueFree(tdev) /\ tmsg' = None /\ tpc' = "idle"
  /\ UNCHANGED <<msg_queue, tx_enabled, isr, tdev, reading, mdone, iflag,
                 hist>>

(* libcan (external): a client reads the oldest message of a mailbox. *)
Read(m) ==
  /\ tpc = "idle" /\ reading[m] = None /\ msg_queue[m] # << >>
  /\ reading' = [reading EXCEPT ![m] = Head(msg_queue[m])] /\ DequeueMsg(m)
  /\ tpc' = "read" /\ tdev' = m
  /\ UNCHANGED <<free_queue, tx_enabled, isr, tmsg, mdone, dev, fresh, hist>>

ReadDone ==
  /\ tpc = "read"
  /\ taken' = [taken EXCEPT ![tdev] = reading[tdev]]
  /\ reading' = [reading EXCEPT ![tdev] = None] /\ QueueFree(tdev)
  /\ tpc' = "idle"
  /\ UNCHANGED <<msg_queue, tx_enabled, isr, tdev, tmsg, mdone, dev, fresh,
                 written, sent, arrived, unserved>>

(***************************************************************************)
(* mdriver_init_data, called from can_init_intr after the interrupts have  *)
(* been attached and unmasked: one buffered message to the mailbox of its  *)
(* id, dropped if it has none or no element is free.                       *)
(***************************************************************************)
MdriverData ==
  /\ tpc = "mdriver" /\ mdone < MdriverRx
  /\ mdone' = mdone + 1
  /\ \/ \E m \in RxBoxes :
          free_queue[m] > 0 /\ DequeueFree(m) /\ QueueMsg(m, mdone + 1)
     \/ UNCHANGED queues
  /\ UNCHANGED <<tx_enabled, isr, thread, reading, dev, fresh, hist>>

(* can_resmgr_start: clients are served from now on. *)
ResmgrStart ==
  /\ tpc = "mdriver" /\ mdone = MdriverRx
  /\ tpc' = "idle"
  /\ UNCHANGED <<queues, tx_enabled, isr, tdev, tmsg, reading, mdone, dev,
                 fresh, hist>>

-----------------------------------------------------------------------------
(* The controller (external): a frame has been sent; a frame arrives, and   *)
(* replaces one that is still in the mailbox.                               *)
BusSent(m) ==
  /\ canmcf[m] # None
  /\ FrameOutlastsIsr => (ipc \in {"off", "read"} \/ m \notin fresh)
  /\ sent' = [sent EXCEPT ![m] = canmcf[m]]
  /\ canmcf' = [canmcf EXCEPT ![m] = None]
  /\ iflag' = iflag \cup {m}
  /\ UNCHANGED <<queues, tx_enabled, isr, thread, reading, mdone, fresh,
                 written, arrived, taken, unserved>>

BusReceived(m) ==
  /\ MoreMsgs
  /\ arrived' = arrived + 1
  /\ canmcf' = [canmcf EXCEPT ![m] = arrived + 1]
  /\ iflag' = iflag \cup {m} /\ unserved' = unserved \ {m}
  /\ UNCHANGED <<queues, tx_enabled, isr, thread, reading, mdone, fresh,
                 written, sent, taken>>

-----------------------------------------------------------------------------
Init ==
  /\ free_queue = [m \in Boxes |-> QSize]
  /\ msg_queue = [m \in Boxes |-> << >>]
  /\ tx_enabled = {}
  /\ ipc = "off" /\ irqsrc = {} /\ mbxid = None /\ imsg = None
  /\ tpc = "mdriver" /\ tdev = None /\ tmsg = None
  /\ reading = [m \in RxBoxes |-> None]
  /\ mdone = 0
  /\ canmcf = [m \in Boxes |-> None] /\ iflag = {} /\ fresh = {}
  /\ written = [m \in TxBoxes |-> 0] /\ sent = [m \in TxBoxes |-> 0]
  /\ arrived = MdriverRx /\ taken = [m \in RxBoxes |-> 0]
  /\ unserved = {}

(* The steps of the two threads of control once they have been entered. *)
Handler ==
  \/ IsrEnter \/ IsrRead \/ IsrRx \/ IsrRxAck \/ IsrTx \/ IsrTxNext
  \/ IsrTxEnd \/ IsrClear

Resmgr ==
  \/ TransmitTest \/ TransmitTake \/ TransmitSet \/ TransmitSend
  \/ ReadDone \/ MdriverData \/ ResmgrStart

Next ==
  \/ IsrEnter \/ IsrRead \/ IsrRx \/ IsrRxAck \/ IsrTx \/ IsrTxNext
  \/ IsrTxEnd \/ IsrClear
  \/ \E m \in TxBoxes : Write(m) \/ BusSent(m)
  \/ \E m \in RxBoxes : Read(m) \/ BusReceived(m)
  \/ TransmitTest \/ TransmitTake \/ TransmitSet \/ TransmitSend
  \/ ReadDone \/ MdriverData \/ ResmgrStart

(* Fairness: the handler runs while a flag is set, and the thread finishes  *)
(* what it has begun.  No client has to read or write, nothing has to be    *)
(* on the bus.                                                              *)
Spec     == Init /\ [][Next]_vars
FairSpec == Spec /\ WF_vars(Handler) /\ WF_vars(Resmgr)
-----------------------------------------------------------------------------
(* Every variable keeps its type: free_queue and msg_queue together never   *)
(* hold more than msgq_size elements, the handler works on the kind of      *)
(* mailbox its branch is for.                                               *)
TypeOK ==
  /\ free_queue \in [Boxes -> 0 .. QSize]
  /\ msg_queue \in [Boxes -> Seq(Nat \ {None})]
  /\ tx_enabled \subseteq TxBoxes
  /\ ipc \in {"off", "read", "rx", "rxack", "tx", "txnext", "txend", "clear"}
  /\ irqsrc \subseteq Boxes /\ imsg \in Nat
  /\ mbxid \in CASE ipc = "rxack"               -> RxBoxes
                 [] ipc \in {"txnext", "txend"} -> TxBoxes
                 [] OTHER                       -> {None}
  /\ tpc \in {"mdriver", "idle", "test", "take", "set", "send", "read"}
  /\ tdev \in Boxes \cup {None} /\ tmsg \in Nat
  /\ reading \in [RxBoxes -> Nat] /\ mdone \in 0 .. MdriverRx
  /\ canmcf \in [Boxes -> Nat] /\ iflag \subseteq Boxes
  /\ fresh \subseteq TxBoxes
  /\ written \in [TxBoxes -> Nat] /\ sent \in [TxBoxes -> Nat]
  /\ arrived \in Nat /\ taken \in [RxBoxes -> Nat]
  /\ unserved \subseteq Boxes

Held(x)      == IF x = None THEN << >> ELSE <<x>>
IsrHas(m)    == IF mbxid = m THEN Held(imsg) ELSE << >>
ThreadHas(m) == IF tdev = m THEN Held(tmsg) ELSE << >>

(* Nobody keeps or loses a queue element: each of a mailbox's msgq_size     *)
(* elements is free, queued, or in the hands of exactly one of the handler, *)
(* can_drvr_transmit and the reading client.                                *)
ElementsConserved ==
  /\ \A m \in TxBoxes :
       free_queue[m] + Len(msg_queue[m] \o IsrHas(m) \o ThreadHas(m)) = QSize
  /\ \A m \in RxBoxes :
       free_queue[m] + Len(msg_queue[m] \o IsrHas(m) \o Held(reading[m]))
         = QSize

(* can_drvr_transmit tests TX_ENABLED and dequeues without a lock, while    *)
(* can_intr dequeues from the same queue: still no message is lost, sent    *)
(* twice, or overtaken, and none is put over one that waits in the mailbox. *)
TxInOrder ==
  \A m \in TxBoxes :
    LET pending == Held(canmcf[m]) \o IsrHas(m) \o ThreadHas(m)
                     \o msg_queue[m]
    IN  pending = [i \in 1 .. (written[m] - sent[m]) |-> sent[m] + i]

(* A transmission of this mailbox is in progress: a message is in it, or    *)
(* its completion is with can_intr, or can_drvr_transmit is starting one.   *)
InProgress(m) ==
  \/ canmcf[m] # None \/ m \in iflag
  \/ mbxid = m
  \/ tpc = "send" /\ tdev = m

(* The comment in can_drvr_transmit, "Indicate transmit is in progress":    *)
(* TX_ENABLED says the truth.  While it is set, a write starts nothing.     *)
TxInProgress == \A m \in tx_enabled : InProgress(m)

(* With any number of mailboxes TX_ENABLED can outlive the transmission for *)
(* one reason only: can_intr has cleared the flag of the mailbox with those *)
(* of others, or once more at the bottom of its loop, and not served it.    *)
TxNotStuck == \A m \in tx_enabled : InProgress(m) \/ m \in unserved

(* The comment in can_intr, "No more transmit messages, end transmission":  *)
(* a message in the queue is being transmitted, or waits for one that is,   *)
(* or can_drvr_transmit has just been called for it.                        *)
NoneLeft ==
  \A m \in TxBoxes : msg_queue[m] # << >> =>
    m \in tx_enabled \/ (tdev = m /\ tpc \in {"test", "take", "set"})

RxStream(m) ==
  <<taken[m]>> \o Held(reading[m]) \o msg_queue[m] \o IsrHas(m)

FromBus(x) == x > MdriverRx

(* A client reads what can_intr has received on a mailbox in the order in   *)
(* which it came, although the handler overwrites the oldest message of a   *)
(* full queue behind the back of a client that is reading.                  *)
BusInOrder ==
  \A m \in RxBoxes : \A i, j \in DOMAIN RxStream(m) :
    i < j /\ FromBus(RxStream(m)[i]) /\ FromBus(RxStream(m)[j])
      => RxStream(m)[i] < RxStream(m)[j]

(* The comment in can_intr on the locked mailbox, "A shadow register takes  *)
(* care of preserving new messages": a message that is in a mailbox has its *)
(* flag set, so that can_intr is going to read it.                          *)
NewPreserved == \A m \in RxBoxes : canmcf[m] # None => m \in iflag

(* A message in a receive mailbox, or the one that has replaced it, is      *)
(* taken from it even if no client ever reads: a full queue gives up its    *)
(* oldest message.  The exception: can_intr has cleared its flag unread,    *)
(* with those of other mailboxes or because it came after the reading of    *)
(* the one before, and no other message has come since.                     *)
RxServed ==
  \A m \in RxBoxes : canmcf[m] # None ~> (canmcf[m] = None \/ m \in unserved)
=============================================================================
