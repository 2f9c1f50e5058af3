---------------------------- MODULE Mx6qTxProofs ----------------------------
(***************************************************************************)
(* Proofs about Mx6qTx: the transmit ring is sound for every ring size,    *)
(* every fragment limit and every link behaviour; for every packet mix if  *)
(* the interface is not stopped, and across any number of stops if every   *)
(* packet takes one descriptor and the NIC stops in time (CleanStops).     *)
(*                                                                         *)
(* The argument: whoever works on the ring holds if_snd_ex (LockHeld), so  *)
(* at most one packet is half-written.  The descriptors with TXBD_R are    *)
(* then exactly those from the NIC's index up to tx_pidx, but for the      *)
(* first one of the half-written packet (ReadyExact).  The NIC cannot pass *)
(* that one, the reaping loop cannot pass the NIC, and the space test      *)
(* keeps tx_pidx from lapping tx_cidx.  With packets of one descriptor a   *)
(* stop can reap all that the NIC has fetched and clear all that it has    *)
(* not (OneDescriptor), so that the three indices meet.                    *)
(***************************************************************************)
EXTENDS Mx6qTx, TLAPS

Held(i) == \E t \in Threads : pc[t] = "ready" /\ loc[t].first = i

(* The descriptors the NIC may fetch are exactly the ones it is owed. *)
ReadyExact ==
  \A i \in Idx : bd_R[i] <=> (Dist(hw, i) < Dist(hw, pidx) /\ ~ Held(i))

(* A thread that is about to fill descriptors has room for its packet. *)
RoomToLoad ==
  \A t \in Threads :
    pc[t] = "load" => inuse + MaxFrags < N /\ loc[t].n # 0

(* A half-written packet ends at tx_pidx and the NIC has not reached it. *)
HalfWritten ==
  \A t \in Threads :
    pc[t] = "ready" =>
      /\ loc[t].n \in 1 .. MaxFrags
      /\ loc[t].n <= inuse
      /\ Dist(cidx, loc[t].first) = inuse - loc[t].n
      /\ Dist(cidx, hw) <= inuse - loc[t].n

(* Only the stack stops the interface; until then the interface is up. *)
StopsCounted ==
  /\ pc["work"] \notin {"stop1", "stop2"}
  /\ stops = 0 => running /\ pc["stack"] \notin {"stop1", "stop2"}

TxInv ==
  /\ TypeOK /\ RingCount /\ LockHeld /\ NeverHitsEnd /\ StopsCounted
  /\ Dist(cidx, hw) <= inuse
  /\ ReadyExact /\ RoomToLoad /\ HalfWritten

-----------------------------------------------------------------------------
(* Advancing an index of the ring keeps it in the ring.  *)
LEMMA PlusType ==
  ASSUME NEW i \in Idx, NEW k \in 0 .. N
  PROVE  Plus(i, k) \in Idx
BY TxAssumption DEF Plus, Idx

(* The distance between two descriptors is below the size of the ring. *)
LEMMA DistType ==
  ASSUME NEW i \in Idx, NEW j \in Idx
  PROVE  Dist(i, j) \in Idx
BY TxAssumption DEF Dist, Idx

(* Advancing the producer by n adds n to its distance from the consumer.  *)
LEMMA DistProduce ==
  ASSUME NEW c \in Idx, NEW p \in Idx, NEW n \in 0 .. N, Dist(c, p) + n < N
  PROVE  Dist(c, Plus(p, n)) = Dist(c, p) + n
BY TxAssumption DEF Plus, Dist, Idx

(* Advancing the consumer by k, not past p, takes k off the distance. *)
LEMMA DistConsume ==
  ASSUME NEW c \in Idx, NEW p \in Idx, NEW k \in 0 .. Dist(c, p)
  PROVE  Dist(Plus(c, k), p) = Dist(c, p) - k
BY TxAssumption DEF Plus, Dist, Idx

(* Advancing the producer by n adds the n descriptors behind it to the      *)
(* window that starts at h.                                                 *)
LEMMA WindowGrows ==
  ASSUME NEW h \in Idx, NEW p \in Idx, NEW i \in Idx, NEW n \in 0 .. N,
         Dist(h, p) + n < N
  PROVE  Dist(h, i) < Dist(h, Plus(p, n))
           <=> (Dist(h, i) < Dist(h, p) \/ Dist(p, i) < n)
<1>1. Dist(h, Plus(p, n)) = Dist(h, p) + n
  BY DistProduce
<1>2. Dist(h, i) < Dist(h, p) + n <=> (Dist(h, i) < Dist(h, p) \/ Dist(p, i) < n)
  BY TxAssumption DEF Dist, Idx
<1> QED
  BY <1>1, <1>2

(* A window inside the one that ends at p is no longer than it. *)
LEMMA WindowInside ==
  ASSUME NEW c \in Idx, NEW h \in Idx, NEW p \in Idx, Dist(c, h) <= Dist(c, p)
  PROVE  Dist(h, p) <= Dist(c, p)
BY TxAssumption DEF Dist, Idx

(* The descriptor at a distance d is d descriptors further. *)
LEMMA DistPlus ==
  ASSUME NEW c \in Idx, NEW d \in Idx
  PROVE  Plus(c, d) \in Idx /\ Dist(c, Plus(c, d)) = d
BY TxAssumption DEF Plus, Dist, Idx

-----------------------------------------------------------------------------
(* Init establishes the invariant: the ring of a fresh interface is empty. *)
LEMMA TxInvInit == Init => TxInv
<1> SUFFICES ASSUME Init PROVE TxInv
  OBVIOUS
<1> USE TxAssumption DEF Init
<1>1. TypeOK
  <2>1. ThreadType
    <3>1. NoFrame \in [ret : {"idle", "check"}, n : 0 .. MaxFrags + 1, first : Idx]
      BY DEF NoFrame, Idx
    <3> QED
      BY <3>1 DEF ThreadType, Threads, Labels
  <2>2. RingType
    BY DEF RingType, Idx
  <2>3. FlagType
    BY DEF FlagType
  <2> QED
    BY <2>1, <2>2, <2>3 DEF TypeOK
<1>2. RingCount /\ LockHeld /\ NeverHitsEnd /\ StopsCounted
  BY DEF RingCount, LockHeld, NeverHitsEnd, StopsCounted, Dist, Threads
<1>3. Dist(cidx, hw) <= inuse /\ RoomToLoad /\ HalfWritten
  BY DEF Dist, RoomToLoad, HalfWritten
<1>4. ReadyExact
  BY DEF ReadyExact, Dist, Idx
<1> QED
  BY <1>1, <1>2, <1>3, <1>4 DEF TxInv

(* Setting the local variables of mx6q_tx keeps their type. *)
LEMMA SetLocType ==
  ASSUME ThreadType, NEW t \in Threads, NEW r \in {"idle", "check"},
         NEW n \in 0 .. MaxFrags + 1, NEW f \in Idx, SetLoc(t, r, n, f)
  PROVE  loc' \in [Threads -> [ret : {"idle", "check"}, n : 0 .. MaxFrags + 1,
                                first : Idx]]
<1>1. [ret |-> r, n |-> n, first |-> f] \in
        [ret : {"idle", "check"}, n : 0 .. MaxFrags + 1, first : Idx]
  OBVIOUS
<1> QED
  BY <1>1 DEF ThreadType, SetLoc

(* Only one thread is inside mx6q_start or mx6q_tx at a time. *)
LEMMA OneInside ==
  ASSUME TxInv, NEW t \in Threads, NEW u \in Threads,
         pc[t] \notin {"idle", "loop", "stop1"},
         pc[u] \notin {"idle", "loop", "stop1"}
  PROVE  t = u
BY DEF TxInv, LockHeld, Threads

(* Nobody is inside mx6q_start or mx6q_tx while the lock is free. *)
LEMMA NobodyInside ==
  ASSUME TxInv, lock = "free", NEW t \in Threads
  PROVE  pc[t] \in {"idle", "loop", "stop1"}
BY DEF TxInv, LockHeld, Threads

(* A step that leaves the ring and the NIC's index alone, and moves nobody *)
(* into or out of the half-written state, keeps the invariant's ring part. *)
LEMMA RingKept ==
  ASSUME TxInv, UNCHANGED <<pidx, cidx, inuse, bd_R, hw, internal_tx_errors>>,
         TypeOK', LockHeld', StopsCounted',
         \A t \in Threads : pc'[t] \in {"ready", "load"} =>
                              pc'[t] = pc[t] /\ loc'[t] = loc[t],
         \A t \in Threads : pc[t] = "ready" => pc'[t] = "ready"
  PROVE  TxInv'
<1>1. ReadyExact'
  <2>1. \A i : Held(i)' <=> Held(i)
    BY DEF Held
  <2> QED
    BY <2>1 DEF TxInv, ReadyExact, Dist
<1>2. RoomToLoad' /\ HalfWritten'
  BY DEF TxInv, RoomToLoad, HalfWritten, Dist
<1> QED
  BY <1>1, <1>2 DEF TxInv, RingCount, NeverHitsEnd, StopsCounted, Dist

(* The reaping loop stops at the NIC: it cannot hand back a descriptor that *)
(* is still to be sent, because all of those carry TXBD_R.                  *)
LEMMA ReapBehindNic ==
  ASSUME TxInv, NEW k, Reapable(k), \A t \in Threads : pc[t] # "ready"
  PROVE  k \in 0 .. Dist(cidx, hw)
<1>0. cidx \in Idx /\ pidx \in Idx /\ hw \in Idx /\ inuse = Dist(cidx, pidx)
      /\ Dist(cidx, hw) <= inuse
  BY DEF TxInv, TypeOK, RingType, RingCount
<1>1. k \in 0 .. Dist(cidx, pidx)
  BY DEF Reapable
<1>2. SUFFICES ASSUME Dist(cidx, hw) < k PROVE FALSE
  BY <1>0, <1>1, DistType DEF Idx
<1>3. hw \in Span(cidx, k)
  BY <1>0, <1>2 DEF Span
<1>4. ~ bd_R[hw]
  BY <1>3 DEF Reapable, Done
<1>5. Dist(hw, hw) < Dist(hw, pidx)
  BY <1>0, <1>1, <1>2, TxAssumption DEF Dist, Idx
<1>6. ~ Held(hw)
  BY DEF Held
<1> QED
  BY <1>0, <1>4, <1>5, <1>6 DEF TxInv, ReadyExact

(* What mx6q_transmit_complete leaves behind. *)
LEMMA ReapResult ==
  ASSUME TxInv, NEW k, TransmitComplete(k), \A t \in Threads : pc[t] # "ready"
  PROVE  /\ pidx' = pidx /\ bd_R' = bd_R
         /\ cidx' \in Idx /\ inuse' \in 0 .. inuse
         /\ tx_pkts' \in [Idx -> BOOLEAN] /\ bd_L' \in [Idx -> BOOLEAN]
         /\ bd_BDU' \in [Idx -> BOOLEAN]
         /\ inuse' = Dist(cidx', pidx')
         /\ Dist(cidx', hw) <= inuse'
<1>0. cidx \in Idx /\ pidx \in Idx /\ hw \in Idx /\ inuse = Dist(cidx, pidx)
      /\ Dist(cidx, hw) <= inuse
  BY DEF TxInv, TypeOK, RingType, RingCount
<1>1. Reapable(k)
  BY DEF TransmitComplete
<1>2. k \in 0 .. Dist(cidx, hw)
  BY <1>1, ReapBehindNic
<1>3. k \in 0 .. Dist(cidx, pidx)
  BY <1>1 DEF Reapable
<1>4. cidx' \in Idx
  <2>1. Dist(cidx, pidx) \in Idx
    BY <1>0, DistType
  <2>2. k \in 0 .. N
    BY <1>3, <2>1, TxAssumption DEF Idx
  <2> QED
    BY <1>0, <2>2, PlusType DEF TransmitComplete
<1>5. Dist(cidx', pidx) = Dist(cidx, pidx) - k
  BY <1>0, <1>3, DistConsume DEF TransmitComplete
<1>6. Dist(cidx', hw) = Dist(cidx, hw) - k
  BY <1>0, <1>2, DistConsume DEF TransmitComplete
<1>7. Dist(cidx, pidx) \in Nat /\ Dist(cidx, hw) \in Nat
  BY <1>0, DistType DEF Idx
<1>8. /\ tx_pkts' \in [Idx -> BOOLEAN] /\ bd_L' \in [Idx -> BOOLEAN]
      /\ bd_BDU' \in [Idx -> BOOLEAN]
  BY DEF TransmitComplete, Reaped
<1>9. pidx' = pidx /\ bd_R' = bd_R /\ inuse' = inuse - k
  BY DEF TransmitComplete
<1> QED
  BY <1>0, <1>2, <1>3, <1>4, <1>5, <1>6, <1>7, <1>8, <1>9

(* Reaping keeps the ring's types. *)
LEMMA ReapType ==
  ASSUME TxInv, NEW k, TransmitComplete(k), \A t \in Threads : pc[t] # "ready",
         hw' = hw
  PROVE  RingType'
<1>1. RingType
  BY DEF TxInv, TypeOK
<1>2. inuse' \in 0 .. N
  BY <1>1, ReapResult, TxAssumption DEF RingType
<1>3. /\ pidx' \in Idx /\ cidx' \in Idx /\ hw' \in Idx
      /\ bd_R' \in [Idx -> BOOLEAN]
  BY <1>1, ReapResult DEF RingType
<1> QED
  BY <1>2, <1>3, ReapResult DEF RingType

(* A step that reaps while nobody is half-way through a packet. *)
LEMMA RingReaped ==
  ASSUME TxInv, NEW k, TransmitComplete(k), \A t \in Threads : pc[t] # "ready",
         UNCHANGED <<hw, internal_tx_errors>>, TypeOK', LockHeld', StopsCounted',
         \A t \in Threads : pc'[t] # "ready",
         RoomToLoad'
  PROVE  TxInv'
<1>1. ReadyExact'
  <2>1. \A i : ~ Held(i)' /\ ~ Held(i)
    BY DEF Held
  <2>2. bd_R' = bd_R /\ pidx' = pidx /\ hw' = hw
    BY DEF TransmitComplete
  <2> QED
    BY <2>1, <2>2 DEF TxInv, ReadyExact, Dist
<1>2. HalfWritten'
  BY DEF HalfWritten
<1>3. inuse' = Dist(cidx', pidx') /\ Dist(cidx', hw) <= inuse'
  BY ReapResult
<1>4. RingCount' /\ (Dist(cidx, hw) <= inuse)'
  BY <1>3 DEF RingCount, Dist
<1> QED
  BY <1>1, <1>2, <1>4 DEF TxInv, NeverHitsEnd, StopsCounted

-----------------------------------------------------------------------------
(***************************************************************************)
(* The steps that do not move the ring's indices.                          *)
(***************************************************************************)

(* The stack puts a packet on if_snd. *)
LEMMA EnqueueKeeps ==
  ASSUME TxInv, NEW p \in Packets, Enqueue(p)
  PROVE  TxInv'
<1> USE DEF Enqueue, Goto
<1>1. ThreadType'
  BY TxAssumption DEF TxInv, TypeOK, ThreadType, Threads, Labels, flags
<1>2. RingType'
  BY DEF TxInv, TypeOK, RingType, ring, dev
<1>3. FlagType'
  BY DEF TxInv, TypeOK, FlagType, flags, dev
<1>4. LockHeld'
  BY DEF TxInv, TypeOK, ThreadType, LockHeld, Threads
<1>5. StopsCounted'
  BY DEF TxInv, TypeOK, ThreadType, StopsCounted, Threads, flags
<1>6. UNCHANGED <<pidx, cidx, inuse, bd_R, hw, internal_tx_errors>>
  BY DEF TxInv, StopsCounted, ring, dev, flags
<1>7. /\ \A u \in Threads : pc'[u] \in {"ready", "load"} =>
                             pc'[u] = pc[u] /\ loc'[u] = loc[u]
      /\ \A u \in Threads : pc[u] = "ready" => pc'[u] = "ready"
  BY DEF TxInv, TypeOK, ThreadType, Threads
<1> QED
  BY <1>1, <1>2, <1>3, <1>4, <1>5, <1>6, <1>7, RingKept DEF TypeOK

(* mx6q_start begins. *)
LEMMA StartEnterKeeps ==
  ASSUME TxInv, NEW t \in Threads, StartEnter(t)
  PROVE  TxInv'
<1> USE DEF StartEnter, Goto, Return, Unlock
<1>1. ThreadType'
  <2>0. if_snd' = << >> \/ if_snd' = if_snd
    BY DEF TxInv, StopsCounted
  <2>1. if_snd' \in Seq(Packets)
    <3> HIDE DEF StartEnter, Goto, Return, Unlock
    <3>1. if_snd \in Seq(Packets) /\ << >> \in Seq(Packets)
      BY DEF TxInv, TypeOK, ThreadType
    <3> QED
      BY <2>0, <3>1
  <2>2. lock' \in Threads \cup {"free"} /\ pc' \in [Threads -> Labels]
    BY DEF TxInv, TypeOK, ThreadType, Threads, Labels
  <2> QED
    BY <2>1, <2>2 DEF TxInv, TypeOK, ThreadType
<1>2. RingType'
  BY DEF TxInv, TypeOK, RingType, ring, dev
<1>3. FlagType'
  BY DEF TxInv, TypeOK, FlagType, flags, dev
<1>4. LockHeld'
  BY DEF TxInv, TypeOK, ThreadType, LockHeld, Threads
<1>5. StopsCounted'
  BY DEF TxInv, TypeOK, ThreadType, StopsCounted, Threads, flags
<1>6. UNCHANGED <<pidx, cidx, inuse, bd_R, hw, internal_tx_errors>>
  BY DEF TxInv, StopsCounted, ring, dev, flags
<1>7. /\ \A u \in Threads : pc'[u] \in {"ready", "load"} =>
                             pc'[u] = pc[u] /\ loc'[u] = loc[u]
      /\ \A u \in Threads : pc[u] = "ready" => pc'[u] = "ready"
  BY DEF TxInv, TypeOK, ThreadType, Threads
<1> QED
  BY <1>1, <1>2, <1>3, <1>4, <1>5, <1>6, <1>7, RingKept DEF TypeOK

(* mx6q_start gives up on a full ring. *)
LEMMA StartFullKeeps ==
  ASSUME TxInv, NEW t \in Threads, StartFull(t)
  PROVE  TxInv'
<1> USE DEF StartFull, Goto, Return, Unlock
<1>1. ThreadType'
  BY TxAssumption DEF TxInv, TypeOK, ThreadType, Threads, Labels, flags
<1>2. RingType'
  BY DEF TxInv, TypeOK, RingType, ring, dev
<1>3. FlagType'
  BY DEF TxInv, TypeOK, FlagType, flags, dev
<1>4. LockHeld'
  BY DEF TxInv, TypeOK, ThreadType, LockHeld, Threads
<1>5. StopsCounted'
  BY DEF TxInv, TypeOK, ThreadType, StopsCounted, Threads, flags
<1>6. UNCHANGED <<pidx, cidx, inuse, bd_R, hw, internal_tx_errors>>
  BY DEF TxInv, StopsCounted, ring, dev, flags
<1>7. /\ \A u \in Threads : pc'[u] \in {"ready", "load"} =>
                             pc'[u] = pc[u] /\ loc'[u] = loc[u]
      /\ \A u \in Threads : pc[u] = "ready" => pc'[u] = "ready"
  BY DEF TxInv, TypeOK, ThreadType, Threads
<1> QED
  BY <1>1, <1>2, <1>3, <1>4, <1>5, <1>6, <1>7, RingKept DEF TypeOK

(* mx6q_tx starts the NIC. *)
LEMMA TxKickKeeps ==
  ASSUME TxInv, NEW t \in Threads, TxKick(t)
  PROVE  TxInv'
<1> USE DEF TxKick, TxReturn, Goto, Forget, Unlock, NoFrame
<1>1. ThreadType'
  BY TxAssumption DEF TxInv, TypeOK, ThreadType, Threads, Labels, flags, Idx
<1>2. RingType'
  BY DEF TxInv, TypeOK, RingType, ring, dev
<1>3. FlagType'
  BY DEF TxInv, TypeOK, FlagType, flags, dev
<1>4. LockHeld'
  BY DEF TxInv, TypeOK, ThreadType, LockHeld, Threads
<1>5. StopsCounted'
  BY DEF TxInv, TypeOK, ThreadType, StopsCounted, Threads, flags
<1>6. UNCHANGED <<pidx, cidx, inuse, bd_R, hw, internal_tx_errors>>
  BY DEF TxInv, StopsCounted, ring, dev, flags
<1>7. /\ \A u \in Threads : pc'[u] \in {"ready", "load"} =>
                             pc'[u] = pc[u] /\ loc'[u] = loc[u]
      /\ \A u \in Threads : pc[u] = "ready" => pc'[u] = "ready"
  BY DEF TxInv, TypeOK, ThreadType, Threads
<1> QED
  BY <1>1, <1>2, <1>3, <1>4, <1>5, <1>6, <1>7, RingKept DEF TypeOK

(* The interrupt handler restarts the NIC or queues work. *)
LEMMA IsrKeeps ==
  ASSUME TxInv, Isr
  PROVE  TxInv'
<1> USE DEF Isr
<1>1. ThreadType'
  BY TxAssumption DEF TxInv, TypeOK, ThreadType, Threads, Labels, flags
<1>2. RingType'
  BY DEF TxInv, TypeOK, RingType, ring, dev
<1>3. FlagType'
  BY DEF TxInv, TypeOK, FlagType, flags, dev
<1>4. LockHeld'
  BY DEF TxInv, TypeOK, ThreadType, LockHeld, Threads
<1>5. StopsCounted'
  BY DEF TxInv, TypeOK, ThreadType, StopsCounted, Threads, flags
<1>6. UNCHANGED <<pidx, cidx, inuse, bd_R, hw, internal_tx_errors>>
  BY DEF TxInv, StopsCounted, ring, dev, flags
<1>7. /\ \A u \in Threads : pc'[u] \in {"ready", "load"} =>
                             pc'[u] = pc[u] /\ loc'[u] = loc[u]
      /\ \A u \in Threads : pc[u] = "ready" => pc'[u] = "ready"
  BY DEF TxInv, TypeOK, ThreadType, Threads
<1> QED
  BY <1>1, <1>2, <1>3, <1>4, <1>5, <1>6, <1>7, RingKept DEF TypeOK

(* The work thread begins mx6q_process_interrupt. *)
LEMMA WorkBeginKeeps ==
  ASSUME TxInv, WorkBegin
  PROVE  TxInv'
<1> USE DEF WorkBegin, Goto
<1>1. ThreadType'
  BY TxAssumption DEF TxInv, TypeOK, ThreadType, Threads, Labels, flags
<1>2. RingType'
  BY DEF TxInv, TypeOK, RingType, ring, dev
<1>3. FlagType'
  BY DEF TxInv, TypeOK, FlagType, flags, dev
<1>4. LockHeld'
  BY DEF TxInv, TypeOK, ThreadType, LockHeld, Threads
<1>5. StopsCounted'
  BY DEF TxInv, TypeOK, ThreadType, StopsCounted, Threads, flags
<1>6. UNCHANGED <<pidx, cidx, inuse, bd_R, hw, internal_tx_errors>>
  BY DEF TxInv, StopsCounted, ring, dev, flags
<1>7. /\ \A u \in Threads : pc'[u] \in {"ready", "load"} =>
                             pc'[u] = pc[u] /\ loc'[u] = loc[u]
      /\ \A u \in Threads : pc[u] = "ready" => pc'[u] = "ready"
  BY DEF TxInv, TypeOK, ThreadType, Threads
<1> QED
  BY <1>1, <1>2, <1>3, <1>4, <1>5, <1>6, <1>7, RingKept DEF TypeOK

(* mx6q_process_interrupt calls mx6q_start or ends. *)
LEMMA ProcessInterruptKeeps ==
  ASSUME TxInv, ProcessInterrupt
  PROVE  TxInv'
<1> USE DEF ProcessInterrupt, Goto
<1>1. ThreadType'
  BY TxAssumption DEF TxInv, TypeOK, ThreadType, Threads, Labels, flags
<1>2. RingType'
  BY DEF TxInv, TypeOK, RingType, ring, dev
<1>3. FlagType'
  BY DEF TxInv, TypeOK, FlagType, flags, dev
<1>4. LockHeld'
  BY DEF TxInv, TypeOK, ThreadType, LockHeld, Threads
<1>5. StopsCounted'
  BY DEF TxInv, TypeOK, ThreadType, StopsCounted, Threads, flags
<1>6. UNCHANGED <<pidx, cidx, inuse, bd_R, hw, internal_tx_errors>>
  BY DEF TxInv, StopsCounted, ring, dev, flags
<1>7. /\ \A u \in Threads : pc'[u] \in {"ready", "load"} =>
                             pc'[u] = pc[u] /\ loc'[u] = loc[u]
      /\ \A u \in Threads : pc[u] = "ready" => pc'[u] = "ready"
  BY DEF TxInv, TypeOK, ThreadType, Threads
<1> QED
  BY <1>1, <1>2, <1>3, <1>4, <1>5, <1>6, <1>7, RingKept DEF TypeOK

(* The NIC finds no descriptor and stops. *)
LEMMA NicIdleKeeps ==
  ASSUME TxInv, NicIdle
  PROVE  TxInv'
<1> USE DEF NicIdle
<1>1. ThreadType'
  BY TxAssumption DEF TxInv, TypeOK, ThreadType, Threads, Labels, flags
<1>2. RingType'
  BY DEF TxInv, TypeOK, RingType, ring, dev
<1>3. FlagType'
  BY DEF TxInv, TypeOK, FlagType, flags, dev
<1>4. LockHeld'
  BY DEF TxInv, TypeOK, ThreadType, LockHeld, Threads
<1>5. StopsCounted'
  BY DEF TxInv, TypeOK, ThreadType, StopsCounted, Threads, flags
<1>6. UNCHANGED <<pidx, cidx, inuse, bd_R, hw, internal_tx_errors>>
  BY DEF TxInv, StopsCounted, ring, dev, flags
<1>7. /\ \A u \in Threads : pc'[u] \in {"ready", "load"} =>
                             pc'[u] = pc[u] /\ loc'[u] = loc[u]
      /\ \A u \in Threads : pc[u] = "ready" => pc'[u] = "ready"
  BY DEF TxInv, TypeOK, ThreadType, Threads
<1> QED
  BY <1>1, <1>2, <1>3, <1>4, <1>5, <1>6, <1>7, RingKept DEF TypeOK

(* The NIC closes the last descriptor of a frame and raises its interrupt. *)
LEMMA NicUpdateKeeps ==
  ASSUME TxInv, NicUpdate
  PROVE  TxInv'
<1> USE DEF NicUpdate
<1>1. ThreadType'
  BY DEF TxInv, TypeOK, ThreadType, flags
<1>2. RingType'
  BY DEF TxInv, TypeOK, RingType
<1>3. FlagType'
  BY DEF TxInv, TypeOK, FlagType, flags
<1>4. LockHeld'
  BY DEF TxInv, LockHeld
<1>5. StopsCounted'
  BY DEF TxInv, StopsCounted, flags
<1>6. UNCHANGED <<pidx, cidx, inuse, bd_R, hw, internal_tx_errors, pc, loc>>
  BY DEF flags
<1> QED
  BY <1>1, <1>2, <1>3, <1>4, <1>5, <1>6, RingKept DEF TypeOK

-----------------------------------------------------------------------------
(***************************************************************************)
(* The steps that reap.                                                    *)
(***************************************************************************)

(* The callout probes the PHY and reaps unless mx6q_start has. *)
LEMMA MonitorPhyKeeps ==
  ASSUME TxInv, MonitorPhy
  PROVE  TxInv'
<1> USE DEF MonitorPhy
<1>1. ThreadType'
  BY DEF TxInv, TypeOK, ThreadType
<1>2. FlagType'
  BY DEF TxInv, TypeOK, FlagType, dev
<1>3. LockHeld' /\ StopsCounted'
  BY DEF TxInv, LockHeld, StopsCounted
<1>4. CASE tx_reaped
  <2>1. UNCHANGED <<pidx, cidx, inuse, bd_R, hw, internal_tx_errors, pc, loc>>
    BY <1>4 DEF ring, dev
  <2>2. RingType'
    BY <1>4 DEF TxInv, TypeOK, RingType, ring, dev
  <2> QED
    BY <1>1, <1>2, <1>3, <2>1, <2>2, RingKept DEF TypeOK
<1>5. CASE ~ tx_reaped
  <2>1. PICK k \in 0 .. N : TransmitComplete(k)
    BY <1>5
  <2>2. \A t \in Threads : pc[t] # "ready" /\ pc[t] # "load"
    BY <1>5, NobodyInside
  <2>3. RingType'
    BY <2>1, <2>2, ReapType DEF dev
  <2>4. RoomToLoad' /\ \A t \in Threads : pc'[t] # "ready"
    BY <2>2 DEF RoomToLoad
  <2> QED
    BY <1>1, <1>2, <1>3, <2>1, <2>2, <2>3, <2>4, RingReaped DEF TypeOK, dev
<1> QED
  BY <1>4, <1>5

(* Collecting a time stamp reaps. *)
LEMMA GetTxTimestampKeeps ==
  ASSUME TxInv, GetTxTimestamp
  PROVE  TxInv'
<1> USE DEF GetTxTimestamp
<1>1. ThreadType'
  BY DEF TxInv, TypeOK, ThreadType, flags
<1>2. FlagType'
  BY DEF TxInv, TypeOK, FlagType, dev, flags
<1>3. LockHeld' /\ StopsCounted'
  BY DEF TxInv, LockHeld, StopsCounted, flags
<1>4. PICK k \in 0 .. N : TransmitComplete(k)
  OBVIOUS
<1>5. \A t \in Threads : pc[t] # "ready" /\ pc[t] # "load"
  BY NobodyInside
<1>6. RingType'
  BY <1>4, <1>5, ReapType DEF dev
<1>7. RoomToLoad' /\ \A t \in Threads : pc'[t] # "ready"
  BY <1>5 DEF RoomToLoad
<1> QED
  BY <1>1, <1>2, <1>3, <1>4, <1>5, <1>6, <1>7, RingReaped DEF TypeOK, dev, flags

(* What the test of mx6q_start and mx6q_output leaves. *)
LEMMA RoomLeft ==
  ASSUME NEW x \in Nat, Avail(x) > MaxFrags
  PROVE  x + MaxFrags < N
BY TxAssumption DEF Avail

(* One turn of mx6q_start's loop: it goes on only with room for a packet. *)
LEMMA StartCheckKeeps ==
  ASSUME TxInv, NEW t \in Threads, StartCheck(t)
  PROVE  TxInv'
<1>0. pc[t] = "check" /\ \A u \in Threads : pc[u] # "ready" /\ (u # t => pc[u] # "load")
  BY OneInside DEF StartCheck
<1>1. lock = t
  BY <1>0 DEF TxInv, LockHeld
<1>2. \/ /\ Avail(inuse') <= MaxFrags
         /\ Goto(t, "full") /\ UNCHANGED <<if_snd, lock, oactive, loc>>
      \/ /\ Avail(inuse') > MaxFrags /\ if_snd = << >>
         /\ oactive' = FALSE /\ Unlock(t) /\ Goto(t, Return(t))
         /\ UNCHANGED <<if_snd, loc>>
      \/ /\ Avail(inuse') > MaxFrags /\ if_snd # << >>
         /\ SetLoc(t, "check", Head(if_snd), 0)
         /\ if_snd' = Tail(if_snd) /\ Goto(t, "load")
         /\ UNCHANGED <<lock, oactive>>
  BY DEF StartCheck
<1>3. UNCHANGED <<hw, running, internal_tx_errors, stops>>
  BY DEF StartCheck, dev
<1>4. ThreadType'
  <2>0. if_snd \in Seq(Packets)
    BY DEF TxInv, TypeOK, ThreadType
  <2>1. if_snd' \in Seq(Packets) /\ (if_snd # << >> => Head(if_snd) \in Packets)
    BY <1>2, <2>0
  <2>2. if_snd # << >> => Head(if_snd) \in 1 .. MaxFrags + 1
    BY <2>1, TxAssumption
  <2>3. loc' \in [Threads -> [ret : {"idle", "check"}, n : 0 .. MaxFrags + 1,
                               first : Idx]]
    BY <1>2, <2>2, SetLocType, TxAssumption DEF TxInv, TypeOK, ThreadType, Idx
  <2>4. lock' \in Threads \cup {"free"} /\ pc' \in [Threads -> Labels]
    BY <1>2 DEF TxInv, TypeOK, ThreadType, Goto, Return, Unlock, Labels
  <2> QED
    BY <1>3, <2>1, <2>3, <2>4 DEF TxInv, TypeOK, ThreadType
<1>5. FlagType'
  <2>1. oactive' \in BOOLEAN
    BY <1>2 DEF TxInv, TypeOK, FlagType
  <2>2. tx_reaped' \in BOOLEAN
    BY DEF StartCheck, TxInv, TypeOK, FlagType
  <2> QED
    BY <2>1, <2>2 DEF StartCheck, TxInv, TypeOK, FlagType, dev
<1>6. /\ LockHeld' /\ StopsCounted'
      /\ \A u \in Threads : pc'[u] # "ready"
  BY <1>0, <1>1, <1>2, <1>3, <1>4
     DEF TxInv, TypeOK, ThreadType, LockHeld, StopsCounted, Goto, Return, Unlock, Threads
<1>7. inuse' \in Nat => RoomToLoad'
  <2> SUFFICES ASSUME inuse' \in Nat, NEW u \in Threads, pc'[u] = "load"
               PROVE  inuse' + MaxFrags < N /\ loc'[u].n # 0
    BY DEF RoomToLoad
  <2>1. u = t /\ Avail(inuse') > MaxFrags /\ if_snd # << >>
        /\ SetLoc(t, "check", Head(if_snd), 0)
    BY <1>0, <1>2 DEF TxInv, TypeOK, ThreadType, Goto, Return
  <2>2. Head(if_snd) \in Packets
    BY <2>1 DEF TxInv, TypeOK, ThreadType
  <2>3. loc'[t].n = Head(if_snd)
    BY <2>1 DEF SetLoc, TxInv, TypeOK, ThreadType
  <2>4. Head(if_snd) # 0
    BY <2>2, TxAssumption
  <2>5. Avail(inuse') > MaxFrags
    BY <2>1
  <2>6. inuse' + MaxFrags < N
    BY <2>5, RoomLeft
  <2>7. loc'[u].n # 0
    BY <2>1, <2>3, <2>4
  <2> QED
    BY <2>6, <2>7
<1>8. CASE Avail(inuse) <= MaxFrags
  <2>1. PICK k \in 0 .. N : TransmitComplete(k)
    BY <1>8 DEF StartCheck
  <2>2. RingType'
    BY <1>0, <1>3, <2>1, ReapType
  <2> QED
    BY <1>0, <1>3, <1>4, <1>5, <1>6, <1>7, <2>1, <2>2, RingReaped
       DEF TypeOK, RingType
<1>9. CASE ~ (Avail(inuse) <= MaxFrags)
  <2>1. UNCHANGED ring
    BY <1>9 DEF StartCheck
  <2>2. RingType'
    BY <1>3, <2>1 DEF TxInv, TypeOK, RingType, ring
  <2>3. ReadyExact'
    BY <1>0, <1>3, <1>6, <2>1 DEF TxInv, ReadyExact, Held, Dist, ring
  <2>4. HalfWritten'
    BY <1>6 DEF HalfWritten
  <2> QED
    BY <1>3, <1>4, <1>5, <1>6, <1>7, <2>1, <2>2, <2>3, <2>4
       DEF TxInv, TypeOK, RingType, RingCount, NeverHitsEnd, StopsCounted, Dist, ring
<1> QED
  BY <1>8, <1>9

(* mx6q_output: refused on a full ring, else it goes on to mx6q_tx. *)
LEMMA OutputKeeps ==
  ASSUME TxInv, NEW p \in Packets, Output(p)
  PROVE  TxInv'
<1>0. \A u \in Threads : pc[u] # "ready" /\ pc[u] # "load"
  BY NobodyInside DEF Output
<1>1. lock = "free" /\ pc["stack"] = "idle"
  BY DEF Output
<1>2. \/ Avail(inuse') <= MaxFrags /\ UNCHANGED <<lock, pc, loc>>
      \/ /\ ~ (Avail(inuse') <= MaxFrags) /\ lock' = "stack"
         /\ Goto("stack", "load") /\ SetLoc("stack", "idle", p, 0)
  BY DEF Output
<1>3. UNCHANGED <<hw, running, internal_tx_errors, stops, if_snd>>
  BY DEF Output, dev, flags
<1>p. p \in 1 .. MaxFrags + 1
  BY TxAssumption
<1>4. ThreadType'
  <2>1. loc' \in [Threads -> [ret : {"idle", "check"}, n : 0 .. MaxFrags + 1,
                               first : Idx]]
    BY <1>2, <1>p, SetLocType, TxAssumption
       DEF TxInv, TypeOK, ThreadType, Idx, Threads
  <2>2. lock' \in Threads \cup {"free"} /\ pc' \in [Threads -> Labels]
    BY <1>2 DEF TxInv, TypeOK, ThreadType, Goto, Labels, Threads
  <2> QED
    BY <1>3, <2>1, <2>2 DEF TxInv, TypeOK, ThreadType
<1>5. FlagType'
  <2>1. tx_reaped' \in BOOLEAN
    BY DEF Output, TxInv, TypeOK, FlagType
  <2> QED
    BY <2>1 DEF Output, TxInv, TypeOK, FlagType, dev, flags
<1>6. /\ LockHeld' /\ StopsCounted'
      /\ \A u \in Threads : pc'[u] # "ready"
  BY <1>0, <1>1, <1>2, <1>3
     DEF TxInv, TypeOK, ThreadType, LockHeld, StopsCounted, Goto, Threads
<1>7. inuse' \in Nat => RoomToLoad'
  <2> SUFFICES ASSUME inuse' \in Nat, NEW u \in Threads, pc'[u] = "load"
               PROVE  inuse' + MaxFrags < N /\ loc'[u].n # 0
    BY DEF RoomToLoad
  <2>1. u = "stack" /\ ~ (Avail(inuse') <= MaxFrags)
        /\ SetLoc("stack", "idle", p, 0)
    BY <1>0, <1>2 DEF TxInv, TypeOK, ThreadType, Goto
  <2>2. loc'["stack"].n = p
    BY <2>1 DEF SetLoc, TxInv, TypeOK, ThreadType, Threads
  <2>3. inuse' + MaxFrags < N
    <3>1. ~ (N - inuse' <= MaxFrags)
      BY <2>1 DEF Avail
    <3>2. ASSUME NEW a \in Nat, ~ (N - a <= MaxFrags) PROVE a + MaxFrags < N
      BY <3>2, TxAssumption
    <3> QED
      BY <3>1, <3>2
  <2>4. p # 0
    BY <1>p, TxAssumption
  <2> QED
    BY <2>1, <2>2, <2>3, <2>4
<1>8. CASE Avail(inuse) <= MaxFrags
  <2>1. PICK k \in 0 .. N : TransmitComplete(k)
    BY <1>8 DEF Output
  <2>2. RingType'
    BY <1>0, <1>3, <2>1, ReapType
  <2> QED
    BY <1>0, <1>3, <1>4, <1>5, <1>6, <1>7, <2>1, <2>2, RingReaped
       DEF TypeOK, RingType
<1>9. CASE ~ (Avail(inuse) <= MaxFrags)
  <2>1. UNCHANGED ring
    BY <1>9 DEF Output
  <2>2. RingType'
    BY <1>3, <2>1 DEF TxInv, TypeOK, RingType, ring
  <2>3. ReadyExact'
    BY <1>0, <1>3, <1>6, <2>1 DEF TxInv, ReadyExact, Held, Dist, ring
  <2>4. HalfWritten'
    BY <1>6 DEF HalfWritten
  <2> QED
    BY <1>3, <1>4, <1>5, <1>6, <1>7, <2>1, <2>2, <2>3, <2>4
       DEF TxInv, TypeOK, RingType, RingCount, NeverHitsEnd, StopsCounted, Dist, ring
<1> QED
  BY <1>8, <1>9

-----------------------------------------------------------------------------
(***************************************************************************)
(* The steps that move tx_pidx or the NIC's index.                         *)
(***************************************************************************)

(* With room for the packet, the descriptors it takes are all free: the     *)
(* branch "this should NEVER happen" of mx6q_tx is dead.                    *)
LEMMA SpanFree ==
  ASSUME TxInv, NEW t \in Threads, pc[t] = "load", NEW n \in 0 .. MaxFrags,
         NEW i \in Span(pidx, n)
  PROVE  ~ bd_R[i]
<1>0. /\ cidx \in Idx /\ pidx \in Idx /\ hw \in Idx /\ inuse = Dist(cidx, pidx)
      /\ Dist(cidx, hw) <= inuse /\ inuse + MaxFrags < N /\ ReadyExact
  BY DEF TxInv, TypeOK, RingType, RingCount, RoomToLoad
<1>1. i \in Idx /\ Dist(pidx, i) < n
  BY DEF Span
<1>2. ~ (Dist(hw, i) < Dist(hw, pidx))
  BY <1>0, <1>1, TxAssumption DEF Dist, Idx
<1> QED
  BY <1>0, <1>1, <1>2 DEF ReadyExact

(* mx6q_tx fills the descriptors of a packet, or drops it. *)
LEMMA TxLoadKeeps ==
  ASSUME TxInv, NEW t \in Threads, TxLoad(t)
  PROVE  TxInv'
<1>0. /\ pc[t] = "load" /\ inuse + MaxFrags < N /\ loc[t].n # 0
      /\ loc[t].n \in 0 .. MaxFrags + 1
      /\ \A u \in Threads : u # t => pc[u] \in {"idle", "loop", "stop1"}
      /\ \A u \in Threads : pc[u] # "ready"
  BY OneInside DEF TxLoad, TxInv, TypeOK, ThreadType, RoomToLoad
<1>1. lock = t
  BY <1>0 DEF TxInv, LockHeld
<1>2. PICK n \in Defrag(loc[t].n) :
        \/ n = 0 /\ TxDropped(t)
        \/ n > 0 /\ TxHitEnd(t, n)
        \/ n > 0 /\ TxFilled(t, n)
  BY DEF TxLoad
<1>3. n \in 0 .. MaxFrags
  BY <1>0, <1>2, TxAssumption DEF Defrag
<1>4. UNCHANGED <<if_snd, running, link_down, oactive, stops, tx_full, tx_reaped,
                  x_des, tfint, hw, nic, queued>>
  BY DEF TxLoad, flags, dev
<1>5. ~ (n > 0 /\ TxHitEnd(t, n))
  <2> SUFFICES ASSUME NEW j \in 0 .. n - 1, n > 0, bd_R[Plus(pidx, j)] PROVE FALSE
    BY DEF TxHitEnd
  <2>1. j \in Idx /\ pidx \in Idx
    BY <1>0, <1>3, TxAssumption DEF TxInv, TypeOK, RingType, Idx
  <2>2. Plus(pidx, j) \in Idx /\ Dist(pidx, Plus(pidx, j)) = j
    BY <2>1, DistPlus
  <2>3. Plus(pidx, j) \in Span(pidx, n)
    BY <2>2, <1>3 DEF Span
  <2> QED
    BY <2>3, <1>0, <1>3, SpanFree
<1>6. CASE n = 0 /\ TxDropped(t)
  <2> USE <1>6 DEF TxDropped, TxReturn, Goto, Forget, Unlock
  <2>1. ThreadType'
    BY <1>4, TxAssumption DEF TxInv, TypeOK, ThreadType, Labels, NoFrame, Idx
  <2>2. RingType' /\ FlagType'
    BY <1>4 DEF TxInv, TypeOK, RingType, FlagType, ring
  <2>3. LockHeld' /\ \A u \in Threads : pc'[u] \notin {"ready", "load"}
    BY <1>0, <1>1 DEF TxInv, TypeOK, ThreadType, LockHeld
  <2>5. StopsCounted'
    BY <1>0, <1>4 DEF TxInv, TypeOK, ThreadType, StopsCounted, Threads
  <2>4. UNCHANGED <<pidx, cidx, inuse, bd_R, hw, internal_tx_errors>>
    BY <1>4 DEF ring
  <2> QED
    BY <1>0, <2>1, <2>2, <2>3, <2>4, <2>5, RingKept DEF TypeOK
<1>7. CASE n > 0 /\ TxFilled(t, n)
  <2> USE <1>7 DEF TxFilled
  <2>0. /\ cidx \in Idx /\ pidx \in Idx /\ hw \in Idx /\ inuse = Dist(cidx, pidx)
        /\ Dist(cidx, hw) <= inuse /\ inuse \in Nat /\ n \in 1 .. MaxFrags
    BY <1>3 DEF TxInv, TypeOK, RingType, RingCount
  <2>1. pidx' = Plus(pidx, n) /\ inuse' = inuse + n /\ cidx' = cidx /\ hw' = hw
    BY <1>4
  <2>2. pidx' \in Idx /\ inuse' = Dist(cidx', pidx') /\ inuse' \in 0 .. N
    <3>1. n \in 0 .. N /\ inuse + n < N
      BY <1>0, <2>0, TxAssumption
    <3>2. Plus(pidx, n) \in Idx /\ Dist(cidx, Plus(pidx, n)) = Dist(cidx, pidx) + n
      BY <2>0, <3>1, PlusType, DistProduce
    <3> QED
      BY <2>0, <2>1, <3>1, <3>2, TxAssumption
  <2>3. pc' = [pc EXCEPT ![t] = "ready"] /\ SetLoc(t, loc[t].ret, n, pidx)
    BY DEF Goto
  <2>4. ThreadType'
    <3>1. loc' \in [Threads -> [ret : {"idle", "check"}, n : 0 .. MaxFrags + 1,
                                 first : Idx]]
      <4> HIDE <1>7 DEF TxFilled
      <4>1. ThreadType /\ loc[t].ret \in {"idle", "check"}
        BY DEF TxInv, TypeOK, ThreadType
      <4>2. n \in 0 .. MaxFrags + 1
        BY <2>0, TxAssumption
      <4> QED
        BY <2>0, <2>3, <4>1, <4>2, SetLocType
    <3> QED
      BY <1>4, <2>3, <3>1 DEF TxInv, TypeOK, ThreadType, Labels
  <2>5. RingType'
    BY <2>0, <2>1, <2>2 DEF TxInv, TypeOK, RingType
  <2>6. FlagType'
    BY <1>4 DEF TxInv, TypeOK, FlagType
  <2>7. LockHeld' /\ StopsCounted'
    BY <1>0, <1>1, <1>4, <2>3 DEF TxInv, TypeOK, ThreadType, LockHeld, StopsCounted
  <2>8. RoomToLoad'
    BY <1>0, <2>3 DEF TxInv, TypeOK, ThreadType, RoomToLoad
  <2>9. loc'[t].n = n /\ loc'[t].first = pidx
    BY <2>3 DEF SetLoc, TxInv, TypeOK, ThreadType
  <2>10. HalfWritten'
    <3> SUFFICES ASSUME NEW u \in Threads, pc'[u] = "ready"
                 PROVE  /\ loc'[u].n \in 1 .. MaxFrags /\ loc'[u].n <= inuse'
                        /\ Dist(cidx', loc'[u].first) = inuse' - loc'[u].n
                        /\ Dist(cidx', hw') <= inuse' - loc'[u].n
      BY DEF HalfWritten, Dist
    <3>1. u = t
      BY <1>0, <2>3 DEF TxInv, TypeOK, ThreadType
    <3> QED
      BY <2>0, <2>1, <2>9, <3>1, TxAssumption
  <2>11. \A i \in Idx : Held(i)' <=> i = pidx
    BY <1>0, <2>3, <2>9 DEF Held, TxInv, TypeOK, ThreadType
  <2>12. ReadyExact'
    <3> SUFFICES ASSUME NEW i \in Idx
                 PROVE  bd_R'[i] <=> (Dist(hw', i) < Dist(hw', pidx') /\ ~ Held(i)')
      BY DEF ReadyExact, Dist
    <3>1. bd_R[i] <=> Dist(hw, i) < Dist(hw, pidx)
      BY <1>0 DEF TxInv, ReadyExact, Held
    <3>2. bd_R'[i] <=> (bd_R[i] \/ (Dist(pidx, i) < n /\ i # pidx))
      BY DEF Span
    <3>3. Dist(hw, i) < Dist(hw, Plus(pidx, n))
            <=> (Dist(hw, i) < Dist(hw, pidx) \/ Dist(pidx, i) < n)
      <4>1. Dist(hw, pidx) <= Dist(cidx, pidx) /\ Dist(hw, pidx) \in Idx
        BY <2>0, WindowInside, DistType
      <4>2. Dist(hw, pidx) + n < N /\ n \in 0 .. N
        BY <1>0, <2>0, <4>1, TxAssumption, SMTT(30) DEF Idx
      <4> QED
        BY <2>0, <4>2, WindowGrows
    <3>4. ~ (Dist(hw, pidx) < Dist(hw, pidx))
      BY <2>0, DistType DEF Idx
    <3> QED
      BY <2>1, <2>11, <3>1, <3>2, <3>3, <3>4
  <2>13. NeverHitsEnd'
    BY DEF TxInv, NeverHitsEnd
  <2>14. RingCount' /\ (Dist(cidx, hw) <= inuse)'
    BY <1>0, <2>0, <2>1, <2>2, DistType, TxAssumption, SMTT(30)
       DEF RingCount, Dist, Idx
  <2> QED
    BY <2>4, <2>5, <2>6, <2>7, <2>8, <2>10, <2>12, <2>13, <2>14 DEF TxInv, TypeOK
<1> QED
  BY <1>2, <1>5, <1>6, <1>7

(* mx6q_tx hands the packet over: READY on the first descriptor, last. *)
LEMMA TxReadyKeeps ==
  ASSUME TxInv, NEW t \in Threads, TxReady(t)
  PROVE  TxInv'
<1>0. /\ pc[t] = "ready"
      /\ \A u \in Threads : u # t => pc[u] \in {"idle", "loop", "stop1"}
  BY OneInside DEF TxReady
<1>1. lock = t
  BY <1>0 DEF TxInv, LockHeld
<1>2. /\ cidx \in Idx /\ pidx \in Idx /\ hw \in Idx /\ inuse = Dist(cidx, pidx)
      /\ Dist(cidx, hw) <= inuse /\ inuse \in Nat
  BY DEF TxInv, TypeOK, RingType, RingCount
<1>3. /\ loc[t].first \in Idx /\ loc[t].n \in 1 .. MaxFrags
      /\ Dist(cidx, loc[t].first) = inuse - loc[t].n
      /\ Dist(cidx, hw) <= inuse - loc[t].n
  BY <1>0 DEF TxInv, TypeOK, ThreadType, HalfWritten
<1>4. UNCHANGED <<if_snd, lock, loc, flags, tx_full, tx_reaped, pidx, cidx, inuse,
                  tx_pkts, bd_BDU, internal_tx_errors, dev, queued>>
      /\ pc' = [pc EXCEPT ![t] = "kick"]
      /\ bd_R' = [bd_R EXCEPT ![loc[t].first] = TRUE]
  BY DEF TxReady, Goto
<1>5. ThreadType'
  BY <1>4 DEF TxInv, TypeOK, ThreadType, Labels, flags
<1>6. RingType'
  <2>1. bd_L' \in [Idx -> BOOLEAN] /\ bd_R' \in [Idx -> BOOLEAN]
    BY DEF TxReady, TxInv, TypeOK, RingType
  <2> QED
    BY <1>4, <2>1 DEF TxInv, TypeOK, RingType, dev
<1>7. FlagType'
  BY <1>4 DEF TxInv, TypeOK, FlagType, flags, dev
<1>8. LockHeld' /\ StopsCounted'
  BY <1>0, <1>1, <1>4
     DEF TxInv, TypeOK, ThreadType, LockHeld, StopsCounted, flags
<1>9. \A u \in Threads : pc'[u] # "ready" /\ pc'[u] # "load"
  BY <1>0, <1>4 DEF TxInv, TypeOK, ThreadType
<1>10. RoomToLoad' /\ HalfWritten'
  BY <1>9 DEF RoomToLoad, HalfWritten
<1>11. ReadyExact'
  <2> SUFFICES ASSUME NEW i \in Idx
               PROVE  bd_R'[i] <=> (Dist(hw', i) < Dist(hw', pidx') /\ ~ Held(i)')
    BY DEF ReadyExact, Dist
  <2>1. Held(i) <=> i = loc[t].first
    BY <1>0 DEF Held
  <2>2. ~ Held(i)'
    BY <1>9 DEF Held
  <2>3. bd_R[i] <=> (Dist(hw, i) < Dist(hw, pidx) /\ i # loc[t].first)
    BY <2>1 DEF TxInv, ReadyExact
  <2>4. bd_R'[i] <=> (bd_R[i] \/ i = loc[t].first)
    BY <1>3, <1>4 DEF TxInv, TypeOK, RingType
  <2>5. Dist(hw, loc[t].first) < Dist(hw, pidx)
    BY <1>2, <1>3, TxAssumption DEF Dist, Idx
  <2>6. hw' = hw /\ pidx' = pidx
    BY <1>4 DEF dev
  <2> QED
    BY <2>2, <2>3, <2>4, <2>5, <2>6
<1> QED
  BY <1>4, <1>5, <1>6, <1>7, <1>8, <1>10, <1>11
     DEF TxInv, TypeOK, RingCount, NeverHitsEnd, Dist, dev

(* The NIC fetches a descriptor: only one it was given, never past tx_pidx. *)
LEMMA NicFetchKeeps ==
  ASSUME TxInv, NicFetch
  PROVE  TxInv'
<1>0. /\ cidx \in Idx /\ pidx \in Idx /\ hw \in Idx /\ inuse = Dist(cidx, pidx)
      /\ Dist(cidx, hw) <= inuse /\ inuse \in Nat
  BY DEF TxInv, TypeOK, RingType, RingCount
<1>1. /\ UNCHANGED <<if_snd, lock, pc, loc, flags, tx_full, tx_reaped, pidx, cidx,
                     inuse, tx_pkts, bd_L, bd_BDU, internal_tx_errors, x_des,
                     tfint, queued>>
      /\ bd_R[hw] /\ bd_R' = [bd_R EXCEPT ![hw] = FALSE] /\ hw' = Plus(hw, 1)
  BY DEF NicFetch
<1>2. Dist(hw, hw) < Dist(hw, pidx) /\ ~ Held(hw)
  BY <1>0, <1>1 DEF TxInv, ReadyExact
<1>3. hw' \in Idx
  BY <1>0, <1>1, PlusType, TxAssumption
<1>4. Dist(cidx, hw') = Dist(cidx, hw) + 1 /\ Dist(cidx, hw) < inuse
  BY <1>0, <1>1, <1>2, TxAssumption DEF Dist, Plus, Idx
<1>5. ThreadType'
  BY <1>1 DEF TxInv, TypeOK, ThreadType, flags
<1>6. RingType'
  BY <1>1, <1>3 DEF TxInv, TypeOK, RingType
<1>7. FlagType'
  <2>1. nic' \in {"idle", "frame", "update"}
    BY DEF NicFetch
  <2> QED
    BY <1>1, <2>1 DEF TxInv, TypeOK, FlagType, flags
<1>8. LockHeld' /\ StopsCounted' /\ NeverHitsEnd' /\ RoomToLoad' /\ RingCount'
  BY <1>1 DEF TxInv, LockHeld, StopsCounted, NeverHitsEnd, RoomToLoad, RingCount,
              Dist, flags
<1>9. HalfWritten'
  <2> SUFFICES ASSUME NEW u \in Threads, pc[u] = "ready"
               PROVE  /\ loc[u].n \in 1 .. MaxFrags /\ loc[u].n <= inuse
                      /\ Dist(cidx, loc[u].first) = inuse - loc[u].n
                      /\ Dist(cidx, hw') <= inuse - loc[u].n
    BY <1>1 DEF HalfWritten, Dist
  <2>1. /\ loc[u].n \in 1 .. MaxFrags /\ loc[u].n <= inuse
        /\ Dist(cidx, loc[u].first) = inuse - loc[u].n
        /\ Dist(cidx, hw) <= inuse - loc[u].n /\ loc[u].first \in Idx
    BY DEF TxInv, TypeOK, ThreadType, HalfWritten
  <2>2. loc[u].first # hw
    BY <1>2 DEF Held
  <2>3. Dist(cidx, loc[u].first) # Dist(cidx, hw)
    BY <1>0, <2>1, <2>2, TxAssumption DEF Dist, Idx
  <2>4. Dist(cidx, hw) \in Nat
    BY <1>0, DistType DEF Idx
  <2> QED
    BY <1>0, <1>4, <2>1, <2>3, <2>4, TxAssumption
<1>10. ReadyExact'
  <2> SUFFICES ASSUME NEW i \in Idx
               PROVE  bd_R'[i] <=> (Dist(hw', i) < Dist(hw', pidx) /\ ~ Held(i))
    BY <1>1 DEF ReadyExact, Held, Dist
  <2>1. bd_R'[i] <=> (bd_R[i] /\ i # hw)
    BY <1>0, <1>1 DEF TxInv, TypeOK, RingType
  <2>2. bd_R[i] <=> (Dist(hw, i) < Dist(hw, pidx) /\ ~ Held(i))
    BY DEF TxInv, ReadyExact
  <2>3. Dist(Plus(hw, 1), i) < Dist(Plus(hw, 1), pidx)
          <=> (Dist(hw, i) < Dist(hw, pidx) /\ i # hw)
    BY <1>0, <1>2, TxAssumption DEF Dist, Plus, Idx
  <2> QED
    BY <1>1, <2>1, <2>2, <2>3
<1>11. (Dist(cidx, hw) <= inuse)'
  <2>1. Dist(cidx, hw) \in Nat
    BY <1>0, DistType DEF Idx
  <2>2. Dist(cidx, hw') <= inuse
    BY <1>0, <1>4, <2>1
  <2> QED
    BY <1>1, <2>2 DEF Dist
<1> QED
  BY <1>5, <1>6, <1>7, <1>8, <1>9, <1>10, <1>11 DEF TxInv, TypeOK

-----------------------------------------------------------------------------
(***************************************************************************)
(* Stopping and starting the interface.                                    *)
(***************************************************************************)

(* mx6q_stop begins: it marks the link down. *)
LEMMA StopKeeps ==
  ASSUME TxInv, Stop
  PROVE  TxInv'
<1> USE DEF Stop, Goto
<1>1. ThreadType'
  BY TxAssumption DEF TxInv, TypeOK, ThreadType, Threads, Labels
<1>2. RingType'
  BY DEF TxInv, TypeOK, RingType, ring, dev
<1>3. FlagType'
  BY DEF TxInv, TypeOK, FlagType, dev
<1>4. LockHeld'
  BY DEF TxInv, TypeOK, ThreadType, LockHeld, Threads
<1>5. StopsCounted'
  <2>1. stops' # 0
    BY DEF TxInv, TypeOK, ThreadType
  <2> QED
    BY <2>1 DEF TxInv, TypeOK, ThreadType, StopsCounted, Threads
<1>6. UNCHANGED <<pidx, cidx, inuse, bd_R, hw, internal_tx_errors>>
  BY DEF ring, dev
<1>7. /\ \A u \in Threads : pc'[u] \in {"ready", "load"} =>
                             pc'[u] = pc[u] /\ loc'[u] = loc[u]
      /\ \A u \in Threads : pc[u] = "ready" => pc'[u] = "ready"
  BY DEF TxInv, TypeOK, ThreadType, Threads
<1> QED
  BY <1>1, <1>2, <1>3, <1>4, <1>5, <1>6, <1>7, RingKept DEF TypeOK

(* mx6q_stop takes the lock and marks the interface down. *)
LEMMA StopMarkKeeps ==
  ASSUME TxInv, StopMark
  PROVE  TxInv'
<1> USE DEF StopMark, Goto
<1>1. ThreadType'
  BY TxAssumption DEF TxInv, TypeOK, ThreadType, Threads, Labels
<1>2. RingType'
  BY DEF TxInv, TypeOK, RingType, ring, dev
<1>3. FlagType'
  BY DEF TxInv, TypeOK, FlagType, dev
<1>4. LockHeld'
  BY NobodyInside DEF TxInv, TypeOK, ThreadType, LockHeld, Threads
<1>5. StopsCounted'
  BY DEF TxInv, TypeOK, ThreadType, StopsCounted, Threads
<1>6. UNCHANGED <<pidx, cidx, inuse, bd_R, hw, internal_tx_errors>>
  BY DEF ring, dev
<1>7. /\ \A u \in Threads : pc'[u] \in {"ready", "load"} =>
                             pc'[u] = pc[u] /\ loc'[u] = loc[u]
      /\ \A u \in Threads : pc[u] = "ready" => pc'[u] = "ready"
  BY DEF TxInv, TypeOK, ThreadType, Threads
<1> QED
  BY <1>1, <1>2, <1>3, <1>4, <1>5, <1>6, <1>7, RingKept DEF TypeOK

(* mx6q_init starts the interface again and reaps unless mx6q_stop has. *)
LEMMA Init_Keeps ==
  ASSUME TxInv, NEW lnk \in BOOLEAN, Init_(lnk)
  PROVE  TxInv'
<1> USE DEF Init_
<1>1. ThreadType'
  BY DEF TxInv, TypeOK, ThreadType
<1>2. FlagType'
  BY DEF TxInv, TypeOK, FlagType, dev
<1>3. LockHeld' /\ StopsCounted'
  BY DEF TxInv, LockHeld, StopsCounted
<1>4. CASE tx_reaped
  <2>1. UNCHANGED <<pidx, cidx, inuse, bd_R, hw, internal_tx_errors, pc, loc>>
    BY <1>4 DEF ring, dev
  <2>2. RingType'
    BY <1>4 DEF TxInv, TypeOK, RingType, ring, dev
  <2> QED
    BY <1>1, <1>2, <1>3, <2>1, <2>2, RingKept DEF TypeOK
<1>5. CASE ~ tx_reaped
  <2>1. PICK k \in 0 .. N : TransmitComplete(k)
    BY <1>5
  <2>2. \A t \in Threads : pc[t] # "ready" /\ pc[t] # "load"
    BY NobodyInside
  <2>3. RingType'
    BY <2>1, <2>2, ReapType DEF dev
  <2>4. RoomToLoad' /\ \A t \in Threads : pc'[t] # "ready"
    BY <2>2 DEF RoomToLoad
  <2> QED
    BY <1>1, <1>2, <1>3, <2>1, <2>2, <2>3, <2>4, RingReaped DEF TypeOK, dev
<1> QED
  BY <1>4, <1>5 DEF TxInv, TypeOK, FlagType

(***************************************************************************)
(* mx6q_stop cleans the ring.  It hands back what it can reap, clears the  *)
(* rest and restarts at tx_cidx, where the NIC is only if every descriptor *)
(* the NIC has fetched was reaped and every other one carries an mbuf.     *)
(* That is so when a packet has one descriptor and the NIC has come to     *)
(* rest (and is not otherwise: run tx_hitend).                             *)
(***************************************************************************)

(* A packet being sent has one fragment. *)
OneFragment == \A t \in Threads : pc[t] \in {"load", "ready"} => loc[t].n = 1

(* Every descriptor the NIC may fetch ends a frame. *)
WholeFrames == nic # "frame" /\ \A i \in Idx : bd_R[i] => bd_L[i]

(* Every descriptor the NIC has fetched is closed, but for the last one as  *)
(* long as the NIC has to update it.                                        *)
FetchedClosed ==
  \A i \in Idx : Dist(cidx, i) < Dist(cidx, hw) =>
    (bd_L[i] => bd_BDU[i]) \/ (nic = "update" /\ i = Plus(hw, N - 1))

(* Every descriptor the NIC has yet to fetch carries an mbuf. *)
OwedHasMbuf == \A i \in Idx : Dist(hw, i) < Dist(hw, pidx) => tx_pkts[i]

OneDescriptor == OneFragment /\ WholeFrames /\ FetchedClosed /\ OwedHasMbuf

(* A ring without packets. *)
LEMMA OneDescriptorInit == Init => OneDescriptor
<1> SUFFICES ASSUME Init PROVE OneDescriptor
  OBVIOUS
<1>1. OneFragment
  BY DEF Init, OneFragment
<1>2. WholeFrames
  BY DEF Init, WholeFrames
<1>3. FetchedClosed /\ OwedHasMbuf
  BY TxAssumption DEF Init, FetchedClosed, OwedHasMbuf, Dist, Idx
<1> QED
  BY <1>1, <1>2, <1>3 DEF OneDescriptor

(* A step that leaves the ring alone; the NIC may come to rest. *)
LEMMA OneKept ==
  ASSUME OneDescriptor, UNCHANGED <<ring, hw>>,
         nic' = nic \/ (nic # "update" /\ nic' = "idle"),
         \A t \in Threads : pc'[t] \in {"load", "ready"} =>
                              pc'[t] = pc[t] /\ loc'[t] = loc[t]
  PROVE  OneDescriptor'
<1>1. OneFragment'
  BY DEF OneDescriptor, OneFragment
<1>2. WholeFrames'
  BY DEF OneDescriptor, WholeFrames, ring
<1>3. FetchedClosed'
  BY DEF OneDescriptor, FetchedClosed, ring, Dist, Plus
<1>4. OwedHasMbuf'
  BY DEF OneDescriptor, OwedHasMbuf, ring, Dist
<1> QED
  BY <1>1, <1>2, <1>3, <1>4 DEF OneDescriptor

(* The steps that leave the ring alone. *)
LEMMA QuietKeepsOne ==
  ASSUME TxInv, OneDescriptor,
         \/ \E p \in Packets : Enqueue(p)
         \/ \E t \in Threads : StartEnter(t) \/ StartFull(t) \/ TxKick(t)
         \/ Isr \/ WorkBegin \/ ProcessInterrupt \/ Stop \/ StopMark \/ NicIdle
  PROVE  OneDescriptor'
<1>0. pc \in [Threads -> Labels] /\ \A t \in Threads : loc[t].ret \in {"idle", "check"}
  BY DEF TxInv, TypeOK, ThreadType
<1>1. ASSUME NEW p \in Packets, Enqueue(p) PROVE OneDescriptor'
  BY <1>0, <1>1, OneKept DEF Enqueue, Goto, dev, Threads
<1>2. ASSUME NEW t \in Threads, StartEnter(t) PROVE OneDescriptor'
  BY <1>0, <1>2, OneKept DEF StartEnter, Goto, Return, dev, Threads
<1>3. ASSUME NEW t \in Threads, StartFull(t) PROVE OneDescriptor'
  BY <1>0, <1>3, OneKept DEF StartFull, Goto, Return, dev, Threads
<1>4. ASSUME NEW t \in Threads, TxKick(t) PROVE OneDescriptor'
  <2>1. \A u \in Threads : pc'[u] \in {"load", "ready"} =>
                             pc'[u] = pc[u] /\ loc'[u] = loc[u]
    BY <1>0, <1>4 DEF TxKick, TxReturn, Goto, Forget, TxInv, TypeOK, ThreadType
  <2> QED
    BY <1>4, <2>1, OneKept DEF TxKick
<1>5. CASE Isr \/ NicIdle
  BY <1>5, OneKept DEF Isr, NicIdle
<1>6. CASE WorkBegin \/ ProcessInterrupt
  BY <1>0, <1>6, OneKept DEF WorkBegin, ProcessInterrupt, Goto, dev, Threads
<1>7. CASE Stop \/ StopMark
  BY <1>0, <1>7, OneKept DEF Stop, StopMark, Goto, dev, Threads
<1> QED
  BY <1>1, <1>2, <1>3, <1>4, <1>5, <1>6, <1>7

(* Reaping shortens the window of fetched descriptors from its far end. *)
LEMMA OneReaped ==
  ASSUME TxInv, OneDescriptor, NEW k, TransmitComplete(k),
         \A t \in Threads : pc[t] # "ready",
         UNCHANGED <<hw, nic>>, OneFragment'
  PROVE  OneDescriptor'
<1>0. /\ cidx \in Idx /\ pidx \in Idx /\ hw \in Idx
      /\ pidx' = pidx /\ bd_R' = bd_R /\ cidx' = Plus(cidx, k)
  BY DEF TxInv, TypeOK, RingType, TransmitComplete
<1>1. Reapable(k) /\ k \in 0 .. Dist(cidx, hw)
  BY ReapBehindNic DEF TransmitComplete
<1>2. ASSUME NEW i \in Idx
      PROVE  /\ tx_pkts'[i] <=> (tx_pkts[i] /\ i \notin Span(cidx, k))
             /\ bd_L'[i] <=> (bd_L[i] /\ i \notin Span(cidx, k))
             /\ bd_BDU'[i] <=> (bd_BDU[i] /\ i \notin Span(cidx, k))
  BY DEF TransmitComplete, Reaped
<1>3. WholeFrames'
  <2>1. \A i \in Span(cidx, k) : ~ bd_R[i]
    BY <1>1 DEF Reapable, Done
  <2> QED
    BY <1>0, <1>2, <2>1 DEF OneDescriptor, WholeFrames
<1>4. FetchedClosed'
  <2> SUFFICES ASSUME NEW i \in Idx, Dist(cidx', i) < Dist(cidx', hw)
               PROVE  (bd_L'[i] => bd_BDU'[i]) \/ (nic = "update" /\ i = Plus(hw, N - 1))
    BY DEF FetchedClosed, Dist, Plus
  <2>1. Dist(cidx, i) < Dist(cidx, hw) /\ ~ (Dist(cidx, i) < k)
    BY <1>0, <1>1, TxAssumption DEF Dist, Plus, Idx
  <2>2. i \notin Span(cidx, k)
    BY <2>1 DEF Span
  <2>3. (bd_L[i] => bd_BDU[i]) \/ (nic = "update" /\ i = Plus(hw, N - 1))
    BY <2>1 DEF OneDescriptor, FetchedClosed
  <2> QED
    BY <1>2, <2>2, <2>3
<1>5. OwedHasMbuf'
  <2> SUFFICES ASSUME NEW i \in Idx, Dist(hw, i) < Dist(hw, pidx)
               PROVE  tx_pkts'[i]
    BY <1>0 DEF OwedHasMbuf, Dist
  <2>1. Dist(cidx, hw) <= Dist(cidx, pidx)
    BY DEF TxInv, RingCount
  <2>2. ~ (Dist(cidx, i) < k)
    BY <1>0, <1>1, <2>1, TxAssumption DEF Dist, Idx
  <2>3. i \notin Span(cidx, k)
    BY <2>2 DEF Span
  <2> QED
    BY <1>2, <2>3 DEF OneDescriptor, OwedHasMbuf
<1> QED
  BY <1>3, <1>4, <1>5 DEF OneDescriptor

(* The steps that may reap: they hand only single fragments to mx6q_tx. *)
LEMMA ReapKeepsOne ==
  ASSUME Packets \subseteq {1}, TxInv, OneDescriptor,
         \/ \E p \in Packets : Output(p)
         \/ \E t \in Threads : StartCheck(t)
         \/ MonitorPhy \/ GetTxTimestamp \/ \E lnk \in BOOLEAN : Init_(lnk)
  PROVE  OneDescriptor'
<1>0. pc \in [Threads -> Labels] /\ loc \in [Threads ->
        [ret : {"idle", "check"}, n : 0 .. MaxFrags + 1, first : Idx]]
      /\ if_snd \in Seq(Packets)
  BY DEF TxInv, TypeOK, ThreadType
<1>1. ASSUME UNCHANGED <<ring, hw, nic>>, OneFragment' PROVE OneDescriptor'
  <2>1. WholeFrames'
    BY <1>1 DEF OneDescriptor, WholeFrames, ring
  <2>2. FetchedClosed'
    BY <1>1 DEF OneDescriptor, FetchedClosed, ring, Dist, Plus
  <2>3. OwedHasMbuf'
    BY <1>1 DEF OneDescriptor, OwedHasMbuf, ring, Dist
  <2> QED
    BY <1>1, <2>1, <2>2, <2>3 DEF OneDescriptor
<1>2. ASSUME NEW p \in Packets, Output(p) PROVE OneDescriptor'
  <2>1. \A t \in Threads : pc[t] # "ready" /\ pc[t] # "load"
    BY <1>2, NobodyInside DEF Output
  <2>2. /\ UNCHANGED <<hw, nic>>
        /\ UNCHANGED ring \/ \E k \in 0 .. N : TransmitComplete(k)
    BY <1>2 DEF Output, dev
  <2>3. UNCHANGED <<pc, loc>>
        \/ (Goto("stack", "load") /\ SetLoc("stack", "idle", p, 0))
    BY <1>2 DEF Output
  <2>4. OneFragment'
    BY <1>0, <2>1, <2>3 DEF OneFragment, Goto, SetLoc, Threads
  <2> QED
    BY <1>1, <2>1, <2>2, <2>4, OneReaped
<1>3. ASSUME NEW t \in Threads, StartCheck(t) PROVE OneDescriptor'
  <2>1. pc[t] = "check" /\ \A u \in Threads : pc[u] # "ready" /\ pc[u] # "load"
    BY <1>3, OneInside DEF StartCheck
  <2>2. /\ UNCHANGED <<hw, nic>>
        /\ UNCHANGED ring \/ \E k \in 0 .. N : TransmitComplete(k)
    BY <1>3 DEF StartCheck, dev
  <2>3. \/ Goto(t, "full") \/ Goto(t, Return(t))
        \/ if_snd # << >> /\ Goto(t, "load") /\ SetLoc(t, "check", Head(if_snd), 0)
    BY <1>3 DEF StartCheck
  <2>4. if_snd # << >> => Head(if_snd) = 1
    <3>1. if_snd # << >> => Head(if_snd) \in Packets
      BY <1>0
    <3> QED
      BY <3>1
  <2>5. OneFragment'
    BY <1>0, <2>1, <2>3, <2>4 DEF OneFragment, Goto, SetLoc, Return
  <2> QED
    BY <1>1, <2>1, <2>2, <2>5, OneReaped
<1>4. ASSUME UNCHANGED <<pc, loc, hw, nic>>,
             UNCHANGED ring
               \/ (lock = "free" /\ \E k \in 0 .. N : TransmitComplete(k))
      PROVE  OneDescriptor'
  <2>1. OneFragment'
    BY <1>4 DEF OneDescriptor, OneFragment
  <2>2. lock = "free" => \A t \in Threads : pc[t] # "ready"
    BY NobodyInside
  <2> QED
    BY <1>1, <1>4, <2>1, <2>2, OneReaped
<1>5. CASE MonitorPhy \/ GetTxTimestamp
  BY <1>4, <1>5 DEF MonitorPhy, GetTxTimestamp, dev
<1>6. ASSUME NEW lnk \in BOOLEAN, Init_(lnk) PROVE OneDescriptor'
  BY <1>4, <1>6 DEF Init_, dev
<1> QED
  BY <1>2, <1>3, <1>5, <1>6

(* mx6q_tx fills one descriptor and gives it the mbuf. *)
LEMMA TxLoadKeepsOne ==
  ASSUME TxInv, OneDescriptor, TxInv', NEW t \in Threads, TxLoad(t)
  PROVE  OneDescriptor'
<1>0. /\ pc[t] = "load" /\ loc[t].n = 1
      /\ \A u \in Threads : pc[u] # "ready" /\ (u # t => pc[u] # "load")
  BY OneInside DEF TxLoad, OneDescriptor, OneFragment
<1>1. Defrag(loc[t].n) = {1}
  BY <1>0, TxAssumption DEF Defrag
<1>2. TxHitEnd(t, 1) \/ TxFilled(t, 1)
  BY <1>1 DEF TxLoad
<1>3. ~ TxHitEnd(t, 1)
  BY DEF TxHitEnd, TxInv, NeverHitsEnd
<1>4. /\ bd_R' = [i \in Idx |-> bd_R[i] \/ (i \in Span(pidx, 1) /\ i # pidx)]
      /\ tx_pkts' = [tx_pkts EXCEPT ![pidx] = TRUE]
      /\ SetLoc(t, loc[t].ret, 1, pidx) /\ Goto(t, "ready")
      /\ pidx' = Plus(pidx, 1)
      /\ UNCHANGED <<cidx, bd_L, bd_BDU, hw, nic>>
  BY <1>2, <1>3 DEF TxFilled, TxLoad, dev
<1>5. /\ cidx \in Idx /\ pidx \in Idx /\ hw \in Idx /\ pidx' \in Idx
      /\ tx_pkts \in [Idx -> BOOLEAN]
      /\ inuse = Dist(cidx, pidx) /\ Dist(cidx, hw) <= inuse /\ inuse + MaxFrags < N
      /\ inuse \in Nat
  BY <1>0 DEF TxInv, TypeOK, RingType, RingCount, RoomToLoad
<1>6. OneFragment'
  BY <1>0, <1>4 DEF OneFragment, Goto, SetLoc, TxInv, TypeOK, ThreadType
<1>7. \A i \in Idx : i \in Span(pidx, 1) => i = pidx
  BY <1>5, TxAssumption DEF Span, Dist, Idx
<1>8. WholeFrames'
  BY <1>4, <1>7 DEF OneDescriptor, WholeFrames
<1>9. FetchedClosed'
  BY <1>4 DEF OneDescriptor, FetchedClosed, Dist, Plus
<1>10. OwedHasMbuf'
  <2> SUFFICES ASSUME NEW i \in Idx, Dist(hw, i) < Dist(hw, Plus(pidx, 1))
               PROVE  tx_pkts'[i]
    BY <1>4 DEF OwedHasMbuf, Dist
  <2>1. Dist(hw, pidx) + 1 < N
    <3>1. Dist(hw, pidx) <= Dist(cidx, pidx) /\ Dist(hw, pidx) \in Idx
      BY <1>5, WindowInside, DistType
    <3> QED
      BY <1>5, <3>1, TxAssumption DEF Idx
  <2>2. Dist(hw, i) < Dist(hw, pidx) \/ Dist(pidx, i) < 1
    BY <1>5, <2>1, WindowGrows, TxAssumption
  <2>3. Dist(pidx, i) < 1 => i = pidx
    BY <1>7 DEF Span
  <2> QED
    BY <1>4, <1>5, <2>2, <2>3 DEF OneDescriptor, OwedHasMbuf
<1> QED
  BY <1>6, <1>8, <1>9, <1>10 DEF OneDescriptor

(* mx6q_tx hands its descriptor over, READY together with LAST: it lies     *)
(* ahead of the NIC.                                                        *)
LEMMA TxReadyKeepsOne ==
  ASSUME TxInv, OneDescriptor, NEW t \in Threads, TxReady(t)
  PROVE  OneDescriptor'
<1>0. /\ pc[t] = "ready" /\ loc[t].n = 1 /\ loc[t].first \in Idx
      /\ Dist(cidx, loc[t].first) = inuse - 1 /\ Dist(cidx, hw) <= inuse - 1
  BY DEF TxReady, OneDescriptor, OneFragment, TxInv, TypeOK, ThreadType, HalfWritten
<1>1. /\ cidx \in Idx /\ pidx \in Idx /\ hw \in Idx
      /\ bd_R \in [Idx -> BOOLEAN] /\ bd_L \in [Idx -> BOOLEAN]
  BY DEF TxInv, TypeOK, RingType
<1>2. Plus(loc[t].first, loc[t].n - 1) = loc[t].first
  BY <1>0, TxAssumption DEF Plus, Idx
<1>3. /\ bd_L' = [bd_L EXCEPT ![loc[t].first] = TRUE]
      /\ bd_R' = [bd_R EXCEPT ![loc[t].first] = TRUE]
      /\ pc' = [pc EXCEPT ![t] = "kick"]
      /\ UNCHANGED <<loc, pidx, cidx, tx_pkts, bd_BDU, hw, nic>>
  BY <1>2 DEF TxReady, Goto, dev
<1>4. OneFragment'
  BY <1>3 DEF OneDescriptor, OneFragment, TxInv, TypeOK, ThreadType
<1>5. WholeFrames'
  BY <1>0, <1>1, <1>3 DEF OneDescriptor, WholeFrames
<1>6. FetchedClosed'
  <2> SUFFICES ASSUME NEW i \in Idx, Dist(cidx, i) < Dist(cidx, hw)
               PROVE  (bd_L'[i] => bd_BDU[i]) \/ (nic = "update" /\ i = Plus(hw, N - 1))
    BY <1>3 DEF FetchedClosed, Dist, Plus
  <2>1. i # loc[t].first
    <3>1. Dist(cidx, i) \in Nat /\ Dist(cidx, hw) \in Nat /\ inuse \in Nat
      BY <1>1, DistType DEF Idx, TxInv, TypeOK, RingType
    <3> QED
      BY <1>0, <3>1
  <2>2. bd_L'[i] = bd_L[i]
    BY <1>1, <1>3, <2>1
  <2> QED
    BY <2>2 DEF OneDescriptor, FetchedClosed
<1>7. OwedHasMbuf'
  BY <1>3 DEF OneDescriptor, OwedHasMbuf, Dist
<1> QED
  BY <1>4, <1>5, <1>6, <1>7 DEF OneDescriptor

(* The NIC fetches a descriptor, which ends its frame, and goes on to       *)
(* update it.                                                               *)
LEMMA NicFetchKeepsOne ==
  ASSUME TxInv, OneDescriptor, NicFetch
  PROVE  OneDescriptor'
<1>0. /\ cidx \in Idx /\ pidx \in Idx /\ hw \in Idx
      /\ bd_R \in [Idx -> BOOLEAN] /\ Dist(cidx, hw) <= Dist(cidx, pidx)
  BY DEF TxInv, TypeOK, RingType, RingCount
<1>1. /\ bd_R[hw] /\ bd_L[hw] /\ nic = "idle" /\ nic' = "update"
      /\ bd_R' = [bd_R EXCEPT ![hw] = FALSE] /\ hw' = Plus(hw, 1)
      /\ UNCHANGED <<pc, loc, pidx, cidx, tx_pkts, bd_L, bd_BDU>>
  BY <1>0 DEF NicFetch, OneDescriptor, WholeFrames
<1>2. Dist(hw, hw) < Dist(hw, pidx)
  BY <1>0, <1>1 DEF TxInv, ReadyExact
<1>3. OneFragment'
  BY <1>1 DEF OneDescriptor, OneFragment
<1>4. WholeFrames'
  BY <1>0, <1>1 DEF OneDescriptor, WholeFrames
<1>5. FetchedClosed'
  <2> SUFFICES ASSUME NEW i \in Idx, Dist(cidx, i) < Dist(cidx, Plus(hw, 1))
               PROVE  (bd_L[i] => bd_BDU[i]) \/ i = Plus(Plus(hw, 1), N - 1)
    BY <1>1 DEF FetchedClosed, Dist, Plus
  <2>1. Dist(cidx, i) < Dist(cidx, hw) \/ i = hw
    BY <1>0, <1>2, TxAssumption DEF Dist, Plus, Idx
  <2>2. Plus(Plus(hw, 1), N - 1) = hw
    BY <1>0, TxAssumption DEF Plus, Idx
  <2> QED
    BY <1>1, <2>1, <2>2 DEF OneDescriptor, FetchedClosed
<1>6. OwedHasMbuf'
  <2> SUFFICES ASSUME NEW i \in Idx, Dist(Plus(hw, 1), i) < Dist(Plus(hw, 1), pidx)
               PROVE  tx_pkts[i]
    BY <1>1 DEF OwedHasMbuf, Dist, Plus
  <2>1. Dist(hw, i) < Dist(hw, pidx)
    BY <1>0, <1>2, TxAssumption DEF Dist, Plus, Idx
  <2> QED
    BY <2>1 DEF OneDescriptor, OwedHasMbuf
<1> QED
  BY <1>3, <1>4, <1>5, <1>6 DEF OneDescriptor

(* The NIC updates the descriptor it fetched last. *)
LEMMA NicUpdateKeepsOne ==
  ASSUME TxInv, OneDescriptor, NicUpdate
  PROVE  OneDescriptor'
<1>0. hw \in Idx /\ bd_BDU \in [Idx -> BOOLEAN]
  BY DEF TxInv, TypeOK, RingType
<1>1. /\ nic = "update" /\ nic' = "idle"
      /\ bd_BDU' = [bd_BDU EXCEPT ![Plus(hw, N - 1)] = TRUE]
      /\ UNCHANGED <<pc, loc, pidx, cidx, tx_pkts, bd_R, bd_L, hw>>
  BY DEF NicUpdate
<1>2. OneFragment'
  BY <1>1 DEF OneDescriptor, OneFragment
<1>3. WholeFrames'
  BY <1>1 DEF OneDescriptor, WholeFrames
<1>4. FetchedClosed'
  <2> SUFFICES ASSUME NEW i \in Idx, Dist(cidx, i) < Dist(cidx, hw)
               PROVE  bd_L[i] => bd_BDU'[i]
    BY <1>1 DEF FetchedClosed, Dist, Plus
  <2>1. (bd_L[i] => bd_BDU[i]) \/ i = Plus(hw, N - 1)
    BY DEF OneDescriptor, FetchedClosed
  <2> QED
    BY <1>0, <1>1, <2>1
<1>5. OwedHasMbuf'
  BY <1>1 DEF OneDescriptor, OwedHasMbuf, Dist
<1> QED
  BY <1>2, <1>3, <1>4, <1>5 DEF OneDescriptor

(* A stop reaps everything the NIC has fetched: tx_cidx ends where the NIC  *)
(* is.                                                                      *)
LEMMA StopReachesNic ==
  ASSUME TxInv, OneDescriptor, nic = "idle", NEW k, Reapable(k),
         \A t \in Threads : pc[t] # "ready"
  PROVE  k = Dist(cidx, hw) /\ Plus(cidx, k) = hw
<1>0. /\ cidx \in Idx /\ pidx \in Idx /\ hw \in Idx
      /\ Dist(cidx, hw) <= Dist(cidx, pidx)
  BY DEF TxInv, TypeOK, RingType, RingCount
<1>1. k \in 0 .. Dist(cidx, hw)
  BY ReapBehindNic
<1>2. CASE k = Dist(cidx, pidx)
  <2>1. Dist(cidx, hw) \in Nat /\ Dist(cidx, pidx) \in Nat
    BY <1>0, DistType DEF Idx
  <2>2. k = Dist(cidx, hw)
    BY <1>0, <1>1, <1>2, <2>1
  <2> QED
    BY <1>0, <2>2, TxAssumption DEF Plus, Dist, Idx
<1>3. CASE ~ Done(Plus(cidx, k))
  <2>1. Dist(cidx, hw) \in Idx
    BY <1>0, DistType
  <2>2. k \in Idx
    BY <1>1, <2>1, TxAssumption DEF Idx
  <2>3. Plus(cidx, k) \in Idx /\ Dist(cidx, Plus(cidx, k)) = k
    BY <1>0, <2>2, DistPlus
  <2>4. k < Dist(cidx, hw) => FALSE
    <3> SUFFICES ASSUME k < Dist(cidx, hw) PROVE FALSE
      OBVIOUS
    <3>1. bd_L[Plus(cidx, k)] => bd_BDU[Plus(cidx, k)]
      BY <2>3 DEF OneDescriptor, FetchedClosed
    <3> DEFINE j == Plus(cidx, k)
    <3>2. j \in Idx /\ Dist(cidx, j) < Dist(cidx, hw)
      BY <2>3
    <3> HIDE DEF j
    <3>3. ~ (Dist(hw, j) < Dist(hw, pidx))
      BY <1>0, <3>2, TxAssumption DEF Dist, Idx
    <3>4. ~ bd_R[j]
      BY <3>2, <3>3 DEF TxInv, ReadyExact
    <3> QED
      BY <1>3, <3>1, <3>4 DEF Done, j
  <2>5. k = Dist(cidx, hw)
    BY <1>1, <2>1, <2>4 DEF Idx
  <2> QED
    BY <1>0, <2>5, TxAssumption DEF Plus, Dist, Idx
<1> QED
  BY <1>2, <1>3 DEF Reapable

(* mx6q_stop leaves an empty ring that begins where the NIC is. *)
LEMMA StopCleanKeeps ==
  ASSUME GracefulStop, TxInv, OneDescriptor, StopClean
  PROVE  TxInv' /\ OneDescriptor'
<1>0. /\ pc["stack"] = "stop2" /\ lock = "stack" /\ nic = "idle"
      /\ pc["work"] \in {"idle", "loop"} /\ pc \in [Threads -> Labels]
  BY DEF StopClean, TxInv, TypeOK, ThreadType, LockHeld, StopsCounted, Threads
<1>1. \A t \in Threads : pc[t] # "ready" /\ pc[t] # "load"
  BY <1>0 DEF Threads
<1>2. PICK k \in 0 .. N :
        /\ Reapable(k) /\ StopReady(k) /\ StopIndices(k)
        /\ bd_L'   = [i \in Idx |-> Reaped(bd_L, k)[i] /\ i \notin Discarded(k)]
        /\ bd_BDU' = Reaped(bd_BDU, k)
  BY DEF StopClean
<1>3. k = Dist(cidx, hw) /\ Plus(cidx, k) = hw
  BY <1>0, <1>1, <1>2, StopReachesNic
<1>4. /\ cidx \in Idx /\ pidx \in Idx /\ hw \in Idx
      /\ Dist(cidx, hw) <= Dist(cidx, pidx)
  BY DEF TxInv, TypeOK, RingType, RingCount
<1>5. cidx' = hw /\ pidx' = hw /\ inuse' = 0 /\ hw' = hw /\ nic' = nic
  BY <1>2, <1>3 DEF StopIndices, StopClean, dev
<1>6. /\ tx_pkts' = [i \in Idx |-> FALSE]
      /\ pc' = [pc EXCEPT !["stack"] = "idle"] /\ lock' = "free"
      /\ UNCHANGED <<if_snd, loc, running, link_down, oactive, stops, tx_full,
                     internal_tx_errors, x_des, tfint, queued>>
      /\ tx_reaped' = TRUE
  BY <1>0 DEF StopClean, Unlock, Goto, flags, dev
<1>7. \A i \in Idx : ~ bd_R'[i]
  <2> SUFFICES ASSUME NEW i \in Idx, bd_R[i] PROVE i \in Discarded(k)
    BY <1>2 DEF StopReady
  <2>1. Dist(hw, i) < Dist(hw, pidx)
    BY DEF TxInv, ReadyExact
  <2>2. tx_pkts[i]
    BY <2>1 DEF OneDescriptor, OwedHasMbuf
  <2>3. i \notin Span(cidx, k)
    BY <1>2 DEF Reapable, Done
  <2> QED
    BY <2>2, <2>3 DEF Discarded, Reaped
<1>8. ThreadType'
  BY <1>6 DEF TxInv, TypeOK, ThreadType, Labels, Threads
<1>9. RingType'
  <2>1. /\ bd_R' \in [Idx -> BOOLEAN] /\ bd_L' \in [Idx -> BOOLEAN]
        /\ bd_BDU' \in [Idx -> BOOLEAN] /\ tx_pkts' \in [Idx -> BOOLEAN]
    BY <1>2, <1>6 DEF StopReady, Reaped, TxInv, TypeOK, RingType
  <2> QED
    BY <1>4, <1>5, <2>1, TxAssumption DEF RingType
<1>10. FlagType'
  BY <1>5, <1>6 DEF TxInv, TypeOK, FlagType
<1>11. LockHeld' /\ StopsCounted'
  BY <1>0, <1>6 DEF TxInv, LockHeld, StopsCounted, Threads
<1>12. Dist(hw, hw) = 0
  BY <1>4, TxAssumption DEF Dist, Idx
<1>13. RingCount' /\ (Dist(cidx, hw) <= inuse)'
  BY <1>5, <1>12 DEF RingCount, Dist
<1>14. \A u \in Threads : pc'[u] # "ready" /\ pc'[u] # "load"
  BY <1>0, <1>6 DEF Threads
<1>15. RoomToLoad' /\ HalfWritten' /\ OneFragment'
  BY <1>14 DEF RoomToLoad, HalfWritten, OneFragment
<1>16. \A i \in Idx : ~ (Dist(hw, i) < Dist(hw, hw))
  BY <1>4, <1>12, DistType DEF Idx
<1>17. ReadyExact' /\ OwedHasMbuf' /\ FetchedClosed'
  <2>1. \A i \in Idx : ~ (Dist(hw', i) < Dist(hw', pidx')) /\ ~ (Dist(cidx', i) < Dist(cidx', hw'))
    BY <1>5, <1>16
  <2> QED
    BY <1>7, <2>1 DEF ReadyExact, OwedHasMbuf, FetchedClosed, Dist, Plus
<1>18. NeverHitsEnd'
  BY <1>6 DEF TxInv, NeverHitsEnd
<1>19. WholeFrames'
  BY <1>5, <1>7 DEF OneDescriptor, WholeFrames
<1> QED
  BY <1>8, <1>9, <1>10, <1>11, <1>13, <1>15, <1>17, <1>18, <1>19
     DEF TxInv, TypeOK, OneDescriptor

-----------------------------------------------------------------------------
(* When a stop leaves the ring clean: there is none, or every packet takes  *)
(* one descriptor and the NIC comes to rest within STOP_TIMEOUT polls.      *)
CleanStops == MaxStops = 0 \/ (Packets \subseteq {1} /\ GracefulStop)

RingInv == TxInv /\ (Packets \subseteq {1} => OneDescriptor)

(* Every step keeps the part of the invariant that a clean stop needs. *)
LEMMA OneDescriptorStep ==
  ASSUME Packets \subseteq {1}, TxInv, TxInv', OneDescriptor, Next, ~ StopClean
  PROVE  OneDescriptor'
<1>1. ASSUME NEW t \in Threads, Step(t) PROVE OneDescriptor'
  BY <1>1, QuietKeepsOne, ReapKeepsOne, TxLoadKeepsOne, TxReadyKeepsOne DEF Step
<1>2. ASSUME NEW p \in Packets, Enqueue(p) \/ Output(p) PROVE OneDescriptor'
  BY <1>2, QuietKeepsOne, ReapKeepsOne
<1>3. CASE Isr \/ WorkBegin \/ ProcessInterrupt \/ Stop \/ StopMark \/ NicIdle
  BY <1>3, QuietKeepsOne
<1>4. CASE MonitorPhy \/ GetTxTimestamp \/ \E lnk \in BOOLEAN : Init_(lnk)
  BY <1>4, ReapKeepsOne
<1>5. CASE NicFetch \/ NicUpdate
  BY <1>5, NicFetchKeepsOne, NicUpdateKeepsOne
<1> QED
  BY <1>1, <1>2, <1>3, <1>4, <1>5 DEF Next

(* Every step but the cleaning of the ring keeps the invariant. *)
LEMMA TxInvStep ==
  ASSUME TxInv, [Next]_vars, ~ StopClean
  PROVE  TxInv'
<1>1. CASE UNCHANGED vars
  <2>1. ThreadType' /\ LockHeld' /\ StopsCounted'
    BY <1>1 DEF TxInv, TypeOK, ThreadType, LockHeld, StopsCounted, vars, flags
  <2>2. RingType' /\ FlagType'
    BY <1>1 DEF TxInv, TypeOK, RingType, FlagType, vars, flags, ring, dev
  <2>3. UNCHANGED <<pidx, cidx, inuse, bd_R, hw, internal_tx_errors, pc, loc>>
    BY <1>1 DEF vars, flags, ring, dev
  <2> QED
    BY <2>1, <2>2, <2>3, RingKept DEF TypeOK
<1>2. ASSUME NEW p \in Packets, Enqueue(p) \/ Output(p) PROVE TxInv'
  BY <1>2, EnqueueKeeps, OutputKeeps
<1>3. ASSUME NEW t \in Threads, Step(t) PROVE TxInv'
  BY <1>3, StartEnterKeeps, StartCheckKeeps, StartFullKeeps, TxLoadKeeps,
     TxReadyKeeps, TxKickKeeps DEF Step
<1>4. CASE Isr \/ WorkBegin \/ ProcessInterrupt \/ MonitorPhy \/ GetTxTimestamp
  BY <1>4, IsrKeeps, WorkBeginKeeps, ProcessInterruptKeeps, MonitorPhyKeeps,
     GetTxTimestampKeeps
<1>5. CASE Stop \/ StopMark
  BY <1>5, StopKeeps, StopMarkKeeps
<1>6. ASSUME NEW lnk \in BOOLEAN, Init_(lnk) PROVE TxInv'
  BY <1>6, Init_Keeps
<1>7. CASE NicFetch \/ NicUpdate \/ NicIdle
  BY <1>7, NicFetchKeeps, NicUpdateKeeps, NicIdleKeeps
<1> QED
  BY <1>1, <1>2, <1>3, <1>4, <1>5, <1>6, <1>7 DEF Next

(* Every step keeps the invariant, a stop included. *)
LEMMA RingInvStep ==
  ASSUME CleanStops, RingInv, [Next]_vars
  PROVE  RingInv'
<1>0. TxInv /\ (Packets \subseteq {1} => OneDescriptor)
  BY DEF RingInv
<1>1. CASE StopClean
  <2>1. pc["stack"] = "stop2" /\ stops # 0 /\ stops \in 0 .. MaxStops
    BY <1>0, <1>1 DEF StopClean, TxInv, TypeOK, ThreadType, StopsCounted
  <2>2. Packets \subseteq {1} /\ GracefulStop
    BY <2>1 DEF CleanStops
  <2> QED
    BY <1>0, <1>1, <2>2, StopCleanKeeps DEF RingInv
<1>2. CASE ~ StopClean
  <2>1. TxInv'
    BY <1>0, <1>2, TxInvStep
  <2>2. ASSUME Packets \subseteq {1} PROVE OneDescriptor'
    <3>1. CASE Next
      BY <1>0, <1>2, <2>1, <2>2, <3>1, OneDescriptorStep
    <3>2. CASE UNCHANGED vars
      BY <1>0, <2>2, <3>2, OneKept DEF vars, dev
    <3> QED
      BY <3>1, <3>2
  <2> QED
    BY <2>1, <2>2 DEF RingInv
<1> QED
  BY <1>1, <1>2

(* The invariant holds throughout. *)
THEOREM TxInvariant == ASSUME CleanStops PROVE Spec => []TxInv
<1>1. Init => RingInv
  BY TxInvInit, OneDescriptorInit DEF RingInv
<1>2. RingInv /\ [Next]_vars => RingInv'
  BY RingInvStep
<1>3. RingInv => TxInv
  BY DEF RingInv
<1> QED
  BY <1>1, <1>2, <1>3, PTL DEF Spec

(* The state of the transmit path keeps its type: the two indices never     *)
(* leave the ring and tx_descr_inuse never leaves 0 .. num_tx_descriptors.  *)
THEOREM TxTypeCorrect == ASSUME CleanStops PROVE Spec => []TypeOK
<1>1. TxInv => TypeOK
  BY DEF TxInv
<1> QED
  BY <1>1, TxInvariant, PTL

(* tx_descr_inuse always is the number of descriptors from tx_cidx to       *)
(* tx_pidx: a full ring is never mistaken for an empty one.                 *)
THEOREM TxRingCount == ASSUME CleanStops PROVE Spec => []RingCount
<1>1. TxInv => RingCount
  BY DEF TxInv
<1> QED
  BY <1>1, TxInvariant, PTL

(* The code of mx6q_start and mx6q_tx runs only under if_snd_ex. *)
THEOREM TxLockHeld == ASSUME CleanStops PROVE Spec => []LockHeld
<1>1. TxInv => LockHeld
  BY DEF TxInv
<1> QED
  BY <1>1, TxInvariant, PTL

(* The branch of mx6q_tx marked "this should NEVER happen" never happens.   *)
THEOREM TxNeverHitsEnd == ASSUME CleanStops PROVE Spec => []NeverHitsEnd
<1>1. TxInv => NeverHitsEnd
  BY DEF TxInv
<1> QED
  BY <1>1, TxInvariant, PTL

(* The NIC stays between tx_cidx and tx_pidx and fetches nothing outside    *)
(* that window.                                                             *)
THEOREM TxNicInWindow == ASSUME CleanStops PROVE Spec => []NicInWindow
<1>1. TxInv => NicInWindow
  BY DEF TxInv, ReadyExact, NicInWindow
<1> QED
  BY <1>1, TxInvariant, PTL
=============================================================================
