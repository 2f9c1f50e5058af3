----------------------------- MODULE EcspiProofs -----------------------------
(***************************************************************************)
(* Proofs about Ecspi, for every length of a transfer and of a unit, every *)
(* size of the FIFOs, with and without bursts, and a controller that may   *)
(* hang at any time: the types, that the client's buffer is not left (with *)
(* bursts up to the end of the first transfer that times out), and that    *)
(* what is reported as transferred has been exchanged.                     *)
(***************************************************************************)
EXTENDS Ecspi, SequenceTheorems, TLAPS

Cell == [1 .. 4 -> Int]

(* The lengths of a unit in the buffer. *)
Strides == {1, 2, 4}

(* The q-th byte of a transfer, on its way out or in; of a 24-bit unit the  *)
(* first of four bytes does not come in.                                    *)
Ways == {"out", "in", "in24"}

Byte(way, q) == IF way = "out" THEN q ELSE IF way = "in24" /\ q % 4 = 1 THEN 0 ELSE -q

In == IF burst \/ dlen # 3 THEN "in" ELSE "in24"

(* Which byte is the c-th of a word that m words of n bytes follow, of *)
(* which the last one ends with byte hi.                               *)
Place(hi, n, m, c) == hi - n * m - 4 + c

(***************************************************************************)
(* The words f hold the bytes after lo up to hi of the transfer, n in each *)
(* word; only the first word may hold fewer.                               *)
(***************************************************************************)
Covers(f, lo, hi, n, way) ==
  /\ Len(f) = CeilDiv(hi - lo, n)
  /\ \A i \in 1 .. Len(f), c \in 1 .. 4 :
       c > 4 - n /\ Place(hi, n, Len(f) - i, c) > lo
         => f[i][c] = Byte(way, Place(hi, n, Len(f) - i, c))

(* The types, and that the controller is started only with the length of a *)
(* burst.                                                                  *)
Flags ==
  /\ burst \in BOOLEAN /\ inten \in BOOLEAN /\ tc \in BOOLEAN /\ xch \in BOOLEAN
  /\ hung \in BOOLEAN /\ late \in BOOLEAN

Numbers ==
  /\ tpc \in {"idle", "loop", "wait"} /\ ipc \in {"idle", "read", "serve"}
  /\ nx \in Nat /\ xlen \in 0 .. MaxLen /\ dlen \in 1 .. 4
  /\ rlen \in -1 .. MaxLen + 3 /\ tlen \in 0 .. MaxLen + 3
  /\ bxlen \in 0 .. BurstMax /\ brlen \in 0 .. BurstMax /\ btlen \in 0 .. BurstMax
  /\ adj \in 0 .. 3
  /\ result \in -1 .. MaxLen + 3 /\ pulses \in 0 .. MaxPulses
  /\ count \in 0 .. FifoSize
  /\ bcnt \in 0 .. BurstMax /\ left \in 0 .. BurstMax

Started == bcnt = 0 => ~xch /\ ~inten /\ ipc = "idle"

Stores ==
  /\ txf \in Seq(Cell) /\ Len(txf) <= FifoSize
  /\ rxf \in Seq(Cell) /\ Len(rxf) <= FifoSize
  /\ buf \in [Mem -> Int] /\ bus \in Seq(Int)

(* Nothing is under way, and nothing of the transfer has been lost. *)
Rest ==
  /\ rlen = tlen /\ Len(bus) = tlen /\ txf = << >> /\ rxf = << >>
  /\ ~tc /\ ipc = "idle" /\ ~inten /\ left = 0 /\ adj = 0
  /\ pulses = IF tpc = "wait" THEN 1 ELSE 0

(* The thread waits for the handler, the handler for the controller. *)
Work(n) ==
  /\ inten
  /\ rlen <= Len(bus) /\ Len(bus) <= tlen
  /\ Len(txf) = CeilDiv(tlen - Len(bus), n)
  /\ Len(rxf) <= CeilDiv(Len(bus) - rlen, n)
  /\ txf # << >> => xch
  /\ ipc = "read" => tc \/ Len(rxf) > RxMark
  /\ ipc = "serve" =>
       /\ count <= Len(rxf)
       /\ tc => count < Len(rxf) \/ Len(rxf) # CeilDiv(Len(bus) - rlen, n)

(* The contents of the FIFOs, of the buffer and of the bus; what has been  *)
(* received is in order as long as no word has been lost.                  *)
Contents(n) ==
  /\ \A p \in 1 .. Len(bus) : bus[p] = -Byte(In, p)
  /\ \A p \in Mem : p >= tlen => buf[p] = p + 1
  /\ Covers(txf, Len(bus), tlen, n, "out")
  /\ Len(rxf) = CeilDiv(Len(bus) - rlen, n) =>
       /\ \A p \in Mem : 0 <= p /\ p < rlen => buf[p] = Byte(In, p + 1)
       /\ Covers(rxf, rlen, Len(bus), n, In)
-----------------------------------------------------------------------------
(***************************************************************************)
(* Without bursts.  A word is in one of the FIFOs or read, so none is      *)
(* lost; the thread does not time out unless the controller hangs, and     *)
(* then nothing happens any more but that transfers time out.              *)
(***************************************************************************)
Dead == hung /\ ~tc /\ Len(rxf) <= RxMark /\ ipc = "idle" /\ pulses = 0

UnitsWork ==
  /\ rlen < xlen
  /\ rlen % Stride = 0 /\ Len(bus) % Stride = 0
  /\ Len(rxf) = CeilDiv(Len(bus) - rlen, Stride) /\ Len(rxf) + Len(txf) <= FifoSize
  /\ left = 0 /\ bcnt = dlen
  /\ tc => rxf # << >>
  /\ ipc = "serve" => count >= 1
  /\ txf = << >> => tc \/ (ipc = "serve" /\ count = Len(rxf))

UnitsInv ==
  /\ tlen % Stride = 0 /\ tlen < xlen + Stride /\ adj = 0
  /\ (late \/ rlen < 0) => Dead /\ rlen <= 0
  /\ ~late /\ rlen >= 0 =>
       IF tpc # "wait" \/ pulses > 0 THEN Rest ELSE Work(Stride) /\ UnitsWork
-----------------------------------------------------------------------------
(***************************************************************************)
(* With bursts, up to the end of the first transfer that has timed out.    *)
(* The bytes to be received are whole words but for the first word         *)
(* (InStep).                                                               *)
(***************************************************************************)
InStep == rlen + adj <= tlen /\ (tlen - rlen - adj) % 4 = 0

BurstShape ==
  /\ tlen <= xlen
  /\ ipc = "serve" => rlen >= 0
  /\ bxlen = 0 => tpc # "wait" /\ rlen = 0 /\ tlen = 0 /\ adj = 0
  /\ bxlen > 0 => /\ btlen <= bxlen /\ (bxlen - btlen) % 4 = 0
                  /\ tlen + bxlen - btlen <= xlen
                  /\ (bxlen - brlen - adj) % 4 = 0 \/ (brlen + adj) % 4 = 0
  /\ brlen + adj <= BurstMax
  /\ adj # 0 => dlen # 3 /\ (xlen - tlen) % 4 = 0

(* Where the burst began and where it ends. *)
BurstFrom == tlen - btlen
BurstTo   == tlen + bxlen - btlen

BurstWork ==
  /\ rlen < BurstTo /\ rlen - brlen = BurstFrom /\ bcnt = bxlen
  /\ InStep /\ (BurstTo - rlen - adj) % 4 = 0
  /\ adj # 0 => rlen = BurstFrom
  /\ Len(bus) >= BurstFrom
  /\ left = IF Len(bus) = BurstFrom THEN 0 ELSE BurstTo - Len(bus)
  /\ Len(bus) = BurstFrom => adj = bxlen % 4 /\ ~tc /\ ipc # "serve"
  /\ Len(bus) > BurstFrom => (BurstTo - Len(bus)) % 4 = 0
  /\ adj # 0 /\ Len(bus) > BurstFrom => rxf # << >>
  /\ adj # 0 /\ ipc = "serve" => count >= 1

BurstInv ==
  /\ ~late /\ BurstShape
  /\ rlen >= 0 =>
       IF tpc # "wait" \/ pulses > 0 THEN Rest ELSE Work(4) /\ BurstWork
-----------------------------------------------------------------------------
Unit == IF burst THEN 4 ELSE Stride

Exchange ==
  ~late /\ rlen >= 0 =>
    Contents(Unit) /\ (tpc = "idle" /\ result > 0 => result = rlen)

EcspiInv ==
  /\ Flags /\ Numbers /\ Started /\ Stores
  /\ ~burst => UnitsInv
  /\ burst => BurstInv
  /\ Exchange
-----------------------------------------------------------------------------
(***************************************************************************)
(* Arithmetic.                                                             *)
(***************************************************************************)
(* The longest length of a transfer. *)
LEMMA MaxLenFact == MaxLen \in Nat /\ \A x \in Lens : x \in 1 .. MaxLen
<1>1. PICK m \in Lens : \A x \in Lens : x <= m
  BY EcspiAssumption
<1>2. \A x \in Lens : x \in Nat /\ x >= 1
  BY EcspiAssumption
<1>3. \E x \in Lens : \A y \in Lens : x >= y
  BY <1>1, <1>2
<1>4. MaxLen \in Lens /\ \A y \in Lens : MaxLen >= y
  BY <1>3 DEF MaxLen, Max
<1> QED
  BY <1>2, <1>4

(* The size of the FIFOs and of a burst. *)
LEMMA SizeFact ==
  /\ FifoSize \in Nat /\ FifoSize >= 2 /\ RxMark \in Nat
  /\ RxMark >= 1 /\ RxMark < FifoSize
  /\ BurstMax \in Nat /\ BurstMax >= 4 /\ BurstMax % 4 = 0
  /\ MaxPulses \in Nat /\ MaxPulses >= 1
  BY EcspiAssumption DEF RxMark

(* The lesser of two numbers. *)
LEMMA LeastFact ==
  ASSUME NEW a \in Int, NEW b \in Int
  PROVE  /\ Least(a, b) \in Int /\ Least(a, b) <= a /\ Least(a, b) <= b
         /\ Least(a, b) = a \/ Least(a, b) = b
  BY DEF Least

(* The least of three numbers. *)
LEMMA Min3Fact ==
  ASSUME NEW a \in Int, NEW b \in Int, NEW c \in Int
  PROVE  /\ Min({a, b, c}) \in {a, b, c}
         /\ Min({a, b, c}) <= a /\ Min({a, b, c}) <= b /\ Min({a, b, c}) <= c
<1>1. \E x \in {a, b, c} : \A y \in {a, b, c} : x =< y
  OBVIOUS
<1> QED
  BY <1>1 DEF Min

(* The length of a unit in the buffer. *)
LEMMA StrideFact ==
  ASSUME dlen \in 1 .. 4
  PROVE  Stride \in Strides
  BY DEF Stride, Strides

(* The ways of a byte. *)
LEMMA WayFact == "out" \in Ways /\ In \in Ways
  BY DEF Ways, In

(* Division upwards. *)
LEMMA CeilFact ==
  ASSUME NEW a \in Int, NEW n \in Strides
  PROVE  /\ CeilDiv(a, n) \in Nat
         /\ a <= 0 => CeilDiv(a, n) = 0
         /\ a > 0 => n * CeilDiv(a, n) >= a /\ n * CeilDiv(a, n) < a + n
         /\ a > 0 => CeilDiv(a, n) >= 1
<1>1. CASE n = 1
  BY <1>1 DEF CeilDiv
<1>2. CASE n = 2
  BY <1>2 DEF CeilDiv
<1>3. CASE n = 4
  BY <1>3 DEF CeilDiv
<1> QED
  BY <1>1, <1>2, <1>3 DEF Strides

(* Division upwards of what is more by whole units. *)
LEMMA CeilPlus ==
  ASSUME NEW a \in Int, NEW n \in Strides, NEW k \in Nat, a >= 0
  PROVE  CeilDiv(a + n * k, n) = CeilDiv(a, n) + k
<1>1. CASE n = 1
  BY <1>1 DEF CeilDiv
<1>2. CASE n = 2
  BY <1>2 DEF CeilDiv
<1>3. CASE n = 4
  BY <1>3 DEF CeilDiv
<1> QED
  BY <1>1, <1>2, <1>3 DEF Strides

-----------------------------------------------------------------------------
(***************************************************************************)
(* The FIFOs and the buffer.                                               *)
(***************************************************************************)
(* A function over 1 .. k is a sequence of length k. *)
LEMMA MakeSeq ==
  ASSUME NEW S, NEW k \in Nat, NEW f \in [1 .. k -> S]
  PROVE  f \in Seq(S) /\ Len(f) = k
  BY SeqDef, LenProperties

(* The empty sequence. *)
LEMMA EmptyFact ==
  ASSUME NEW S, NEW f \in Seq(S)
  PROVE  f = << >> <=> Len(f) = 0
  BY EmptySeq

(* What is written to a FIFO keeps its size. *)
LEMMA FillFact ==
  ASSUME NEW f \in Seq(Cell), NEW g \in Seq(Cell)
  PROVE  /\ Fill(f, g) \in Seq(Cell)
         /\ Len(Fill(f, g)) = Least(Len(f) + Len(g), FifoSize)
         /\ Len(f) + Len(g) <= FifoSize => Fill(f, g) = f \o g
<1> DEFINE all == f \o g
           k   == Least(Len(all), FifoSize)
<1>1. all \in Seq(Cell) /\ Len(all) = Len(f) + Len(g) /\ Len(all) \in Nat
  BY ConcatProperties, LenProperties
<1>2. k \in 0 .. Len(all)
  <2> HIDE DEF all
  <2> QED
    BY <1>1, SizeFact DEF Least
<1>3. Fill(f, g) = SubSeq(all, 1, k)
  BY DEF Fill
<1>4. SubSeq(all, 1, k) \in Seq(Cell) /\ Len(SubSeq(all, 1, k)) = k
  BY <1>1, <1>2, SubSeqProperties
<1>5. ASSUME Len(f) + Len(g) <= FifoSize PROVE Fill(f, g) = f \o g
  <2>1. k = Len(all)
    BY <1>1, <1>5, SizeFact DEF Least
  <2> QED
    BY <1>1, <1>3, <2>1, SubSeqFull
<1> QED
  BY <1>1, <1>3, <1>4, <1>5

(* A word of the buffer. *)
LEMMA WordFact ==
  ASSUME NEW b \in [Mem -> Int], NEW p \in Int, NEW n \in 1 .. 4,
         p >= 0, p + n <= MaxLen + 4
  PROVE  /\ Word(b, p, n) \in Cell
         /\ \A c \in 1 .. 4 : c > 4 - n => Word(b, p, n)[c] = b[p + c + n - 5]
<1>1. \A c \in 1 .. 4 : c > 4 - n => p + c + n - 5 \in Mem
  BY MaxLenFact DEF Mem
<1>2. \A c \in 1 .. 4 : c > 4 - n => b[p + c + n - 5] \in Int
  BY <1>1
<1> QED
  BY <1>1, <1>2 DEF Word, Cell

(* Several words of the buffer. *)
LEMMA WordsFact ==
  ASSUME NEW b \in [Mem -> Int], NEW p \in Int, NEW n \in Strides, NEW k \in Nat,
         p >= 0, p + n * k <= MaxLen + 4
  PROVE  /\ Words(b, p, n, k) \in Seq(Cell) /\ Len(Words(b, p, n, k)) = k
         /\ \A i \in 1 .. k, c \in 1 .. 4 :
              c > 4 - n => Words(b, p, n, k)[i][c] = b[p + n * i + c - 5]
<1>1. ASSUME NEW i \in 1 .. k
      PROVE  /\ Word(b, p + (i - 1) * n, n) \in Cell
             /\ \A c \in 1 .. 4 :
                  c > 4 - n => Word(b, p + (i - 1) * n, n)[c] = b[p + n * i + c - 5]
  <2> DEFINE q == p + (i - 1) * n
  <2>1. /\ q \in Int /\ q >= 0 /\ q + n <= MaxLen + 4 /\ n \in 1 .. 4
        /\ \A c \in 1 .. 4 : q + c + n - 5 = p + n * i + c - 5
    <3>1. CASE n = 1
      BY <3>1, MaxLenFact
    <3>2. CASE n = 2
      BY <3>2, MaxLenFact
    <3>3. CASE n = 4
      BY <3>3, MaxLenFact
    <3> QED
      BY <3>1, <3>2, <3>3 DEF Strides
  <2> HIDE DEF q
  <2>2. /\ Word(b, q, n) \in Cell
        /\ \A c \in 1 .. 4 : c > 4 - n => Word(b, q, n)[c] = b[q + c + n - 5]
    BY <2>1, WordFact
  <2>3. \A c \in 1 .. 4 : c > 4 - n => Word(b, q, n)[c] = b[p + n * i + c - 5]
    BY <2>1, <2>2
  <2> QED
    BY <2>2, <2>3 DEF q
<1>2. Words(b, p, n, k) = [i \in 1 .. k |-> Word(b, p + (i - 1) * n, n)]
  BY DEF Words
<1>3. Words(b, p, n, k) \in [1 .. k -> Cell]
  BY <1>1, <1>2
<1>4. Words(b, p, n, k) \in Seq(Cell) /\ Len(Words(b, p, n, k)) = k
  BY <1>3, MakeSeq
<1> QED
  BY <1>1, <1>2, <1>4


(* Nothing covers nothing. *)
LEMMA CoversNothing ==
  ASSUME NEW lo \in Int, NEW n \in Strides, NEW way \in Ways
  PROVE  Covers(<< >>, lo, lo, n, way)
<1>1. CeilDiv(lo - lo, n) = 0
  BY DEF CeilDiv
<1> QED
  BY <1>1 DEF Covers

(* Whole words after the last one. *)
LEMMA CoversAppend ==
  ASSUME NEW f \in Seq(Cell), NEW g \in Seq(Cell), NEW lo \in Int, NEW hi \in Int,
         NEW n \in Strides, NEW way \in Ways,
         lo <= hi, Covers(f, lo, hi, n, way),
         \A i \in 1 .. Len(g), c \in 1 .. 4 :
           c > 4 - n => g[i][c] = Byte(way, hi + n * i - 4 + c)
  PROVE  Covers(f \o g, lo, hi + n * Len(g), n, way)
<1>1. /\ Len(f) \in Nat /\ Len(g) \in Nat /\ Len(f \o g) = Len(f) + Len(g)
      /\ \A i \in 1 .. Len(f) + Len(g) :
           (f \o g)[i] = IF i <= Len(f) THEN f[i] ELSE g[i - Len(f)]
  BY LenProperties, ConcatProperties
<1> DEFINE all == f \o g
           top == hi + n * Len(g)
<1>2. Len(f \o g) = CeilDiv(top - lo, n)
  <2>1. CeilDiv((hi - lo) + n * Len(g), n) = CeilDiv(hi - lo, n) + Len(g)
    <3>1. hi - lo \in Int /\ hi - lo >= 0
      OBVIOUS
    <3> QED
      BY <1>1, <3>1, CeilPlus
  <2>2. (hi - lo) + n * Len(g) = top - lo
    <3>1. n * Len(g) \in Int
      BY <1>1 DEF Strides
    <3> QED
      BY <3>1
  <2> QED
    BY <1>1, <2>1, <2>2 DEF Covers
<1> HIDE DEF all, top
<1>3. top = hi + n * Len(g)
  BY DEF top
<1>4. Len(all) = Len(f) + Len(g) /\ Len(all) = CeilDiv(top - lo, n)
  BY <1>1, <1>2 DEF all
<1>5. ASSUME NEW i \in 1 .. Len(all), NEW c \in 1 .. 4,
             c > 4 - n, Place(top, n, Len(all) - i, c) > lo
      PROVE  all[i][c] = Byte(way, Place(top, n, Len(all) - i, c))
  <2>1. CASE i <= Len(f)
    <3>1. Place(top, n, Len(all) - i, c) = Place(hi, n, Len(f) - i, c)
      <4>1. CASE n = 1
        BY <1>1, <1>3, <1>4, <4>1 DEF Place
      <4>2. CASE n = 2
        BY <1>1, <1>3, <1>4, <4>2 DEF Place
      <4>3. CASE n = 4
        BY <1>1, <1>3, <1>4, <4>3 DEF Place
      <4> QED
        BY <4>1, <4>2, <4>3 DEF Strides
    <3>2. i \in 1 .. Len(f) /\ all[i] = f[i]
      BY <1>1, <1>4, <2>1 DEF all
    <3> QED
      BY <1>5, <3>1, <3>2 DEF Covers
  <2>2. CASE i > Len(f)
    <3>1. i - Len(f) \in 1 .. Len(g) /\ all[i] = g[i - Len(f)]
      BY <1>1, <1>4, <2>2 DEF all
    <3>2. Place(top, n, Len(all) - i, c) = hi + n * (i - Len(f)) - 4 + c
      <4>1. CASE n = 1
        BY <1>1, <1>3, <1>4, <4>1 DEF Place
      <4>2. CASE n = 2
        BY <1>1, <1>3, <1>4, <4>2 DEF Place
      <4>3. CASE n = 4
        BY <1>1, <1>3, <1>4, <4>3 DEF Place
      <4> QED
        BY <4>1, <4>2, <4>3 DEF Strides
    <3> QED
      BY <1>5, <3>1, <3>2
  <2> QED
    BY <1>1, <1>4, <2>1, <2>2
<1>6. Covers(all, lo, top, n, way)
  BY <1>4, <1>5 DEF Covers
<1> QED
  BY <1>6 DEF all, top

(* One word, whole or cut, is the first. *)
LEMMA CoversFirst ==
  ASSUME NEW w \in Cell, NEW lo \in Int, NEW n \in Strides, NEW m \in 1 .. n,
         NEW way \in Ways,
         \A c \in 1 .. 4 : c > 4 - m => w[c] = Byte(way, lo + m - 4 + c)
  PROVE  Covers(<<w>>, lo, lo + m, n, way)
<1>1. CeilDiv(lo + m - lo, n) = 1
  <2>1. CASE n = 1
    BY <2>1 DEF CeilDiv
  <2>2. CASE n = 2
    BY <2>2 DEF CeilDiv
  <2>3. CASE n = 4
    BY <2>3 DEF CeilDiv
  <2> QED
    BY <2>1, <2>2, <2>3 DEF Strides
<1>2. ASSUME NEW c \in 1 .. 4, Place(lo + m, n, 0, c) > lo
      PROVE  w[c] = Byte(way, Place(lo + m, n, 0, c))
  <2>1. Place(lo + m, n, 0, c) = lo + m - 4 + c
    BY DEF Place, Strides
  <2>2. c > 4 - m
    BY <1>2, <2>1
  <2> QED
    BY <2>1, <2>2
<1> QED
  BY <1>1, <1>2 DEF Covers

(* The words from the (k + 1)-st on. *)
LEMMA CoversRest ==
  ASSUME NEW f \in Seq(Cell), NEW lo \in Int, NEW hi \in Int, NEW mid \in Int,
         NEW n \in Strides, NEW way \in Ways, NEW k \in 0 .. Len(f),
         NEW g \in Seq(Cell), Len(g) = Len(f) - k,
         \A i \in 1 .. Len(g) : g[i] = f[i + k],
         lo <= mid, Len(g) = CeilDiv(hi - mid, n), Covers(f, lo, hi, n, way)
  PROVE  Covers(g, mid, hi, n, way)
<1>1. Len(f) \in Nat /\ Len(g) \in Nat
  BY LenProperties
<1>2. ASSUME NEW i \in 1 .. Len(g), NEW c \in 1 .. 4, c > 4 - n,
             Place(hi, n, Len(g) - i, c) > mid
      PROVE  g[i][c] = Byte(way, Place(hi, n, Len(g) - i, c))
  <2> DEFINE m == Len(g) - i
  <2>1. i + k \in 1 .. Len(f) /\ m = Len(f) - (i + k) /\ m \in Int
    BY <1>1
  <2> HIDE DEF m
  <2>2. Place(hi, n, m, c) \in Int
    BY <2>1 DEF Place, Strides
  <2>3. Place(hi, n, m, c) > lo
    BY <1>2, <2>2 DEF m
  <2> QED
    BY <1>2, <2>1, <2>3 DEF Covers, m
<1> QED
  BY <1>2 DEF Covers


(* What is read from the receive FIFO. *)
LEMMA ReadFact ==
  ASSUME rxf \in Seq(Cell), NEW k \in Nat
  PROVE  /\ Read(k) \in Seq(Cell) /\ Len(Read(k)) = k
         /\ k <= Len(rxf) => \A i \in 1 .. k : Read(k)[i] = rxf[i]
<1>1. Len(rxf) \in Nat /\ \A i \in 1 .. Len(rxf) : rxf[i] \in Cell
  BY LenProperties
<1>2. <<0, 0, 0, 0>> \in Cell
  BY DEF Cell
<1>3. Read(k) \in [1 .. k -> Cell]
  BY <1>1, <1>2 DEF Read
<1>4. k <= Len(rxf) => \A i \in 1 .. k : Read(k)[i] = rxf[i]
  BY <1>1 DEF Read
<1> QED
  BY <1>3, <1>4, MakeSeq

(* What is left in it. *)
LEMMA LeftFact ==
  ASSUME rxf \in Seq(Cell), NEW k \in Nat
  PROVE  /\ Left(k) \in Seq(Cell)
         /\ Len(Left(k)) = IF k <= Len(rxf) THEN Len(rxf) - k ELSE 0
         /\ \A i \in 1 .. Len(Left(k)) : Left(k)[i] = rxf[i + k]
<1>1. Len(rxf) \in Nat /\ \A i \in k + 1 .. Len(rxf) : rxf[i] \in Cell
  BY LenProperties
<1>2. Left(k) = SubSeq(rxf, k + 1, Len(rxf)) /\ k + 1 \in Int /\ Len(rxf) \in Int
  BY <1>1 DEF Left
<1>3. /\ Left(k) \in Seq(Cell)
      /\ Len(Left(k)) = IF k + 1 <= Len(rxf) THEN Len(rxf) - (k + 1) + 1 ELSE 0
      /\ \A i \in 1 .. Len(rxf) - (k + 1) + 1 : Left(k)[i] = rxf[k + 1 + i - 1]
  BY <1>1, <1>2, SubSeqProperties
<1>4. Len(Left(k)) = IF k <= Len(rxf) THEN Len(rxf) - k ELSE 0
  BY <1>1, <1>3
<1>5. ASSUME NEW i \in 1 .. Len(Left(k)) PROVE Left(k)[i] = rxf[i + k]
  <2>1. i \in 1 .. Len(rxf) - (k + 1) + 1 /\ k + 1 + i - 1 = i + k
    BY <1>1, <1>4
  <2> QED
    BY <1>3, <2>1
<1> QED
  BY <1>3, <1>4, <1>5

(* Where a byte is found in the words that are stored. *)
LEMMA StoredPlace ==
  ASSUME NEW q \in Int, NEW p \in Int, NEW n \in 1 .. 4, NEW k \in Nat,
         q \in p .. p + n * k - 1
  PROVE  /\ ((q - p) \div n) + 1 \in 1 .. k
         /\ 5 - n + ((q - p) % n) \in 1 .. 4 /\ 5 - n + ((q - p) % n) > 4 - n
         /\ p + n * (((q - p) \div n) + 1) - 4 + (5 - n + ((q - p) % n)) = q + 1
<1> DEFINE d == q - p
<1>1. d \in Int /\ d >= 0 /\ d < n * k /\ q = p + d
  OBVIOUS
<1> HIDE DEF d
<1>2. /\ (d \div n) + 1 \in 1 .. k
      /\ 5 - n + (d % n) \in 1 .. 4 /\ 5 - n + (d % n) > 4 - n
      /\ p + n * ((d \div n) + 1) - 4 + (5 - n + (d % n)) = q + 1
  <2>1. CASE n = 1
    BY <1>1, <2>1
  <2>2. CASE n = 2
    BY <1>1, <2>2
  <2>3. CASE n = 3
    BY <1>1, <2>3
  <2>4. CASE n = 4
    BY <1>1, <2>4
  <2> QED
    BY <2>1, <2>2, <2>3, <2>4
<1> QED
  BY <1>2 DEF d

(* The buffer with words stored in it. *)
LEMMA StoredFact ==
  ASSUME NEW b \in [Mem -> Int], NEW p \in Int, NEW n \in 1 .. 4, NEW ws \in Seq(Cell)
  PROVE  /\ Stored(b, p, n, ws) \in [Mem -> Int]
         /\ \A q \in Mem : q < p \/ q >= p + n * Len(ws) => Stored(b, p, n, ws)[q] = b[q]
<1>1. Len(ws) \in Nat /\ \A i \in 1 .. Len(ws) : ws[i] \in [1 .. 4 -> Int]
  BY LenProperties DEF Cell
<1>2. Mem \subseteq Int
  BY MaxLenFact DEF Mem
<1>3. ASSUME NEW q \in Mem, q \in p .. p + n * Len(ws) - 1
      PROVE  ws[((q - p) \div n) + 1][5 - n + ((q - p) % n)] \in Int
  <2>1. q \in Int
    BY <1>2
  <2>2. ((q - p) \div n) + 1 \in 1 .. Len(ws) /\ 5 - n + ((q - p) % n) \in 1 .. 4
    BY <1>1, <1>3, <2>1, StoredPlace
  <2> QED
    BY <1>1, <2>2
<1>4. Stored(b, p, n, ws) \in [Mem -> Int]
  BY <1>3 DEF Stored
<1>5. ASSUME NEW q \in Mem, q < p \/ q >= p + n * Len(ws)
      PROVE  Stored(b, p, n, ws)[q] = b[q]
  <2>1. n * Len(ws) \in Int /\ q \in Int
    BY <1>1, <1>2
  <2>2. ~(q \in p .. p + n * Len(ws) - 1)
    BY <1>5, <2>1
  <2> QED
    BY <2>2 DEF Stored
<1> QED
  BY <1>4, <1>5

(* The bytes received are where they belong. *)
LEMMA StoredBytes ==
  ASSUME NEW b \in [Mem -> Int], NEW p \in Int, NEW n \in 1 .. 4, NEW ws \in Seq(Cell), NEW way \in Ways,
         \A i \in 1 .. Len(ws), c \in 1 .. 4 :
           c > 4 - n => ws[i][c] = Byte(way, p + n * i - 4 + c)
  PROVE  \A q \in Mem : p <= q /\ q < p + n * Len(ws)
                          => Stored(b, p, n, ws)[q] = Byte(way, q + 1)
<1>1. Len(ws) \in Nat
  BY LenProperties
<1>2. SUFFICES ASSUME NEW q \in Mem, p <= q, q < p + n * Len(ws)
               PROVE  Stored(b, p, n, ws)[q] = Byte(way, q + 1)
  OBVIOUS
<1> DEFINE i == ((q - p) \div n) + 1
           c == 5 - n + ((q - p) % n)
<1>3. q \in Int /\ q \in p .. p + n * Len(ws) - 1
  <2>1. q \in Int /\ n * Len(ws) \in Int
    BY <1>1, MaxLenFact DEF Mem
  <2> QED
    BY <1>2, <2>1
<1>4. /\ i \in 1 .. Len(ws) /\ c \in 1 .. 4 /\ c > 4 - n
      /\ p + n * i - 4 + c = q + 1
  BY <1>1, <1>3, StoredPlace
<1>5. Stored(b, p, n, ws)[q] = ws[i][c]
  BY <1>3 DEF Stored
<1> HIDE DEF i, c
<1>6. ws[i][c] = Byte(way, p + n * i - 4 + c)
  BY <1>4
<1> QED
  BY <1>4, <1>5, <1>6


(* The words of a FIFO without a cut one. *)
LEMMA CoversWhole ==
  ASSUME NEW f \in Seq(Cell), NEW lo \in Int, NEW hi \in Int, NEW n \in Strides,
         NEW way \in Ways, Covers(f, lo, hi, n, way), hi = lo + n * Len(f)
  PROVE  \A i \in 1 .. Len(f), c \in 1 .. 4 :
           c > 4 - n => f[i][c] = Byte(way, lo + n * i - 4 + c)
<1>1. Len(f) \in Nat
  BY LenProperties
<1>2. SUFFICES ASSUME NEW i \in 1 .. Len(f), NEW c \in 1 .. 4, c > 4 - n
               PROVE  f[i][c] = Byte(way, lo + n * i - 4 + c)
  OBVIOUS
<1>3. /\ Place(hi, n, Len(f) - i, c) = lo + n * i - 4 + c
      /\ Place(hi, n, Len(f) - i, c) > lo
  <2>1. CASE n = 1
    BY <1>1, <1>2, <2>1 DEF Place
  <2>2. CASE n = 2
    BY <1>1, <1>2, <2>2 DEF Place
  <2>3. CASE n = 4
    BY <1>1, <1>2, <2>3 DEF Place
  <2> QED
    BY <2>1, <2>2, <2>3 DEF Strides
<1> QED
  BY <1>2, <1>3 DEF Covers

(* The first word holds m bytes, the others n each. *)
Cut(f, lo, hi, n, m) ==
  /\ f \in Seq(Cell) /\ Len(f) >= 1 /\ lo \in Int /\ hi \in Int /\ n \in Strides
  /\ m \in 1 .. n /\ hi = lo + m + n * (Len(f) - 1)

(* The last m bytes of a word are those after lo. *)
Holds(w, lo, m, way) == \A c \in 1 .. 4 : c > 4 - m => w[c] = Byte(way, lo + m - 4 + c)

(* The first word of a FIFO, which may be cut. *)
LEMMA CoversHead ==
  ASSUME NEW f, NEW lo, NEW hi, NEW n, NEW way \in Ways, NEW m,
         Covers(f, lo, hi, n, way), Cut(f, lo, hi, n, m)
  PROVE  Holds(f[1], lo, m, way)
<1> USE DEF Cut
<1>1. Len(f) \in Nat /\ 1 \in 1 .. Len(f)
  BY LenProperties
<1>2. SUFFICES ASSUME NEW c \in 1 .. 4, c > 4 - m
               PROVE  f[1][c] = Byte(way, lo + m - 4 + c)
  BY DEF Holds
<1>3. /\ Place(hi, n, Len(f) - 1, c) = lo + m - 4 + c
      /\ Place(hi, n, Len(f) - 1, c) > lo /\ c > 4 - n
  <2>1. CASE n = 1
    BY <1>1, <1>2, <2>1 DEF Place
  <2>2. CASE n = 2
    BY <1>1, <1>2, <2>2 DEF Place
  <2>3. CASE n = 4
    BY <1>1, <1>2, <2>3 DEF Place
  <2> QED
    BY <2>1, <2>2, <2>3 DEF Strides
<1> QED
  BY <1>1, <1>3 DEF Covers
-----------------------------------------------------------------------------
(***************************************************************************)
(* The initial states.                                                     *)
(***************************************************************************)
LEMMA InitInv == Init => EcspiInv
<1> SUFFICES ASSUME Init PROVE EcspiInv
  OBVIOUS
<1> USE DEF Init
<1>0. Flags /\ Started
  BY DEF Flags, Started
<1>1. Numbers
  BY MaxLenFact, SizeFact DEF Numbers
<1>2. << >> \in Seq(Cell) /\ << >> \in Seq(Int) /\ Len(<< >>) = 0
  OBVIOUS
<1>3. buf \in [Mem -> Int] /\ \A p \in Mem : p >= 0 => buf[p] = p + 1
  BY MaxLenFact DEF Mem
<1>4. Stores
  BY <1>2, <1>3, SizeFact DEF Stores
<1>5. Rest
  BY <1>2 DEF Rest
<1>6. UnitsInv
  BY <1>5 DEF UnitsInv, Stride
<1>7. BurstInv
  BY <1>5, SizeFact DEF BurstInv, BurstShape, InStep
<1>8. Unit \in Strides
  BY DEF Unit, Stride, Strides
<1>9. Contents(Unit)
  <2>1. 0 \in Int /\ "out" \in Ways /\ In \in Ways
    BY WayFact
  <2>4. Covers(<< >>, 0, 0, Unit, "out") /\ Covers(<< >>, 0, 0, Unit, In)
    BY <1>8, <2>1, CoversNothing, Zenon
  <2>2. tlen = 0 /\ rlen = 0 /\ Len(bus) = 0 /\ txf = << >> /\ rxf = << >>
    BY <1>2
  <2>3. \A p \in Mem : p \in Int
    BY MaxLenFact DEF Mem
  <2> QED
    <3>1. Covers(txf, Len(bus), tlen, Unit, "out") /\ Covers(rxf, rlen, Len(bus), Unit, In)
      BY <2>2, <2>4, Zenon
    <3>2. /\ \A p \in 1 .. Len(bus) : bus[p] = -Byte(In, p)
          /\ \A p \in Mem : p >= tlen => buf[p] = p + 1
          /\ \A p \in Mem : 0 <= p /\ p < rlen => buf[p] = Byte(In, p + 1)
      BY <1>3, <2>2, <2>3
    <3> QED
      BY <3>1, <3>2 DEF Contents
<1> QED
  BY <1>0, <1>1, <1>4, <1>6, <1>7, <1>9 DEF EcspiInv, Exchange
-----------------------------------------------------------------------------
(***************************************************************************)
(* Steps that move no data.                                                *)
(***************************************************************************)
(* A pulse ends the wait. *)
LEMMA WaitPulseStep ==
  ASSUME EcspiInv, WaitPulse
  PROVE  EcspiInv'
<1> USE DEF WaitPulse, lengths, handler, ctrl
<1>1. Flags' /\ Started'
  BY DEF EcspiInv, Flags, Started
<1>6. Numbers'
  BY SizeFact DEF EcspiInv, Numbers
<1>2. Stores'
  BY DEF EcspiInv, Stores
<1>3. ASSUME ~burst PROVE UnitsInv'
  BY <1>3 DEF EcspiInv, UnitsInv, Rest, Dead, Stride, Numbers
<1>4. ASSUME burst PROVE BurstInv'
  BY <1>4 DEF EcspiInv, BurstInv, BurstShape, Rest, Numbers
<1>5. Exchange'
  BY DEF EcspiInv, Exchange, Contents, Unit, In, Stride
<1> QED
  BY <1>1, <1>2, <1>3, <1>4, <1>5, <1>6 DEF EcspiInv


(* A time-out ends it: without bursts the controller has hung. *)
LEMMA WaitTimeoutStep ==
  ASSUME EcspiInv, WaitTimeout
  PROVE  EcspiInv'
<1> USE DEF WaitTimeout, lengths, handler, ctrl
<1>1. Flags' /\ Started'
  BY DEF EcspiInv, Flags, Started
<1>2. Numbers'
  BY SizeFact, MaxLenFact DEF EcspiInv, Numbers
<1>3. Stores'
  BY DEF EcspiInv, Stores
<1>4. ASSUME ~burst PROVE UnitsInv'
  <2>1. hung /\ ~tc /\ Len(rxf) <= RxMark
    <3>1. CASE late \/ rlen < 0
      BY <1>4, <3>1 DEF EcspiInv, UnitsInv, Dead
    <3>2. CASE ~late /\ rlen >= 0
      <4>1. Work(Stride) /\ UnitsWork
        BY <1>4, <3>2 DEF EcspiInv, UnitsInv, Numbers
      <4>2. ~tc /\ ~(Len(rxf) > RxMark)
        BY <4>1 DEF Work, Irq
      <4>3. txf # << >> /\ xch
        BY <4>1, <4>2 DEF Work, UnitsWork
      <4>4. hung
        BY <4>3 DEF Busy
      <4>5. Len(rxf) \in Nat /\ RxMark \in Nat
        BY SizeFact DEF EcspiInv, Stores
      <4> QED
        BY <4>2, <4>4, <4>5
    <3> QED
      BY <3>1, <3>2 DEF EcspiInv, Numbers
  <2>2. Dead'
    BY <2>1 DEF Dead, RxMark
  <2> QED
    BY <1>4, <2>2 DEF EcspiInv, UnitsInv, Stride
<1>5. ASSUME burst PROVE BurstInv'
  BY <1>5 DEF EcspiInv, BurstInv, BurstShape
<1>6. Exchange'
  BY DEF Exchange
<1> QED
  BY <1>1, <1>2, <1>3, <1>4, <1>5, <1>6 DEF EcspiInv

(* The interrupt. *)
LEMMA IsrEnterStep ==
  ASSUME EcspiInv, IsrEnter
  PROVE  EcspiInv'
<1> USE DEF IsrEnter, thread, lengths, ctrl
<1>1. Flags' /\ Started'
  BY DEF EcspiInv, Flags, Started, Irq
<1>2. Numbers'
  BY DEF EcspiInv, Numbers
<1>3. Stores'
  BY DEF EcspiInv, Stores
<1>4. inten /\ (tc \/ Len(rxf) > RxMark)
  BY DEF Irq
<1>5. ASSUME ~burst PROVE UnitsInv'
  <2>1. (late \/ rlen < 0) => FALSE
    BY <1>4, <1>5, SizeFact DEF EcspiInv, UnitsInv, Dead, Stores
  <2>2. ~(tpc # "wait" \/ pulses > 0) /\ Work(Stride) /\ UnitsWork
    BY <1>4, <1>5, <2>1 DEF EcspiInv, UnitsInv, Rest, Numbers
  <2>3. Work(Stride)' /\ UnitsWork'
    BY <1>4, <2>2 DEF Work, UnitsWork, Stride, RxMark
  <2> QED
    BY <1>5, <2>1, <2>2, <2>3 DEF EcspiInv, UnitsInv, Stride
<1>6. ASSUME burst PROVE BurstInv'
  <2>1. BurstShape'
    BY <1>6 DEF EcspiInv, BurstInv, BurstShape
  <2>2. ASSUME ~late, rlen >= 0
        PROVE  /\ ~(tpc # "wait" \/ pulses > 0)
               /\ Work(4)' /\ BurstWork'
    <3>1. ~(tpc # "wait" \/ pulses > 0) /\ Work(4) /\ BurstWork
      BY <1>4, <1>6, <2>2 DEF EcspiInv, BurstInv, Rest
    <3>2. Work(4)'
      BY <1>4, <3>1 DEF Work, RxMark
    <3>3. BurstWork'
      BY <3>1 DEF BurstWork, InStep, BurstTo, BurstFrom
    <3> QED
      BY <3>1, <3>2, <3>3
  <2>3. ~late
    BY <1>6 DEF EcspiInv, BurstInv
  <2> QED
    BY <2>1, <2>2, <2>3 DEF BurstInv
<1>7. Exchange'
  BY DEF EcspiInv, Exchange, Contents, Unit, In, Stride
<1> QED
  BY <1>1, <1>2, <1>3, <1>5, <1>6, <1>7 DEF EcspiInv

(* The controller hangs. *)
LEMMA HwHangStep ==
  ASSUME EcspiInv, HwHang
  PROVE  EcspiInv'
<1> USE DEF HwHang, thread, lengths, handler
<1>1. Flags' /\ Started'
  BY DEF EcspiInv, Flags, Started
<1>2. Numbers'
  BY DEF EcspiInv, Numbers
<1>3. Stores'
  BY DEF EcspiInv, Stores
<1>4. Rest' = Rest /\ (Work(Stride))' = Work(Stride) /\ Work(4)' = Work(4)
  BY DEF Rest, Work, Stride, RxMark
<1>5. ASSUME ~burst PROVE UnitsInv'
  <2>1. UnitsWork' = UnitsWork
    BY DEF UnitsWork, Stride
  <2> QED
    BY <1>4, <1>5, <2>1 DEF EcspiInv, UnitsInv, Stride, Dead
<1>6. ASSUME burst PROVE BurstInv'
  <2>1. BurstShape' = BurstShape /\ BurstWork' = BurstWork
    BY DEF BurstShape, BurstWork, InStep, BurstFrom, BurstTo
  <2> QED
    BY <1>4, <1>6, <2>1 DEF EcspiInv, BurstInv
<1>7. Exchange'
  BY DEF EcspiInv, Exchange, Contents, Unit, In, Stride
<1> QED
  BY <1>1, <1>2, <1>3, <1>5, <1>6, <1>7 DEF EcspiInv


(* The handler looks at the registers. *)
LEMMA IsrReadStep ==
  ASSUME EcspiInv, IsrRead
  PROVE  EcspiInv'
<1> DEFINE right == tc \/ Len(rxf) > RxMark
<1> USE DEF thread, lengths
<1>0. Len(rxf) \in Nat /\ Len(rxf) <= FifoSize
  BY DEF EcspiInv, Stores
<1>1. /\ ipc = "read" /\ tc' = FALSE /\ inten' = (inten /\ right)
      /\ ipc' \in {"idle", "serve"}
      /\ UNCHANGED <<tpc, burst, nx, result, xlen, dlen, bxlen, rlen, tlen, brlen>>
      /\ UNCHANGED <<btlen, adj, xch, bcnt, left, hung, txf, rxf, buf, bus, late>>
  BY DEF IsrRead
<1>2. \/ /\ right /\ rlen >= 0 /\ ipc' = "serve" /\ pulses' = pulses
         /\ count' = IF tc THEN Len(rxf) ELSE RxMark
      \/ /\ ~(right /\ rlen >= 0) /\ ipc' = "idle" /\ count' = count
         /\ pulses' = Least(pulses + 1, MaxPulses)
  BY DEF IsrRead, Pulse
<1>3. Flags' /\ Started'
  BY <1>1 DEF EcspiInv, Flags, Started
<1>4. pulses' \in 0 .. MaxPulses /\ count' \in 0 .. FifoSize
  BY <1>0, <1>2, SizeFact DEF EcspiInv, Numbers, Least
<1>5. Numbers'
  BY <1>1, <1>4 DEF EcspiInv, Numbers
<1>6. Stores'
  BY <1>1 DEF EcspiInv, Stores
<1>7. ASSUME NEW n \in Strides, Work(n), rlen >= 0
      PROVE  /\ Work(n)' /\ ipc' = "serve" /\ pulses' = pulses
             /\ count' = IF tc THEN Len(rxf) ELSE RxMark
  <2>1. right
    BY <1>1, <1>7 DEF Work
  <2>2. /\ ipc' = "serve" /\ count' = (IF tc THEN Len(rxf) ELSE RxMark)
        /\ pulses' = pulses /\ count' <= Len(rxf)
    BY <1>0, <1>2, <1>7, <2>1, SizeFact
  <2>3. Work(n)'
    BY <1>1, <1>7, <2>1, <2>2 DEF Work
  <2> QED
    BY <2>2, <2>3
<1>8. ASSUME ~burst PROVE UnitsInv'
  <2>1. (late \/ rlen < 0) => FALSE
    BY <1>1, <1>8 DEF EcspiInv, UnitsInv, Dead
  <2>2. ~(tpc # "wait" \/ pulses > 0) /\ Work(Stride) /\ UnitsWork
    BY <1>1, <1>8, <2>1 DEF EcspiInv, UnitsInv, Rest, Numbers
  <2>3. Stride \in Strides /\ Stride' = Stride /\ rlen >= 0
    BY <1>1, <2>1, StrideFact DEF EcspiInv, Numbers, Stride
  <2>4. Work(Stride)' /\ pulses' = pulses /\ ipc' = "serve"
        /\ count' = (IF tc THEN Len(rxf) ELSE RxMark)
    BY <1>7, <2>2, <2>3 DEF Work
  <2>5. UnitsWork'
    <3>1. count' >= 1
      BY <1>0, <2>2, <2>4, SizeFact DEF UnitsWork, EcspiInv, Stores
    <3>2. txf = << >> => tc /\ count' = Len(rxf)
      BY <1>1, <2>2, <2>4 DEF UnitsWork
    <3> QED
      BY <1>1, <2>2, <2>3, <2>4, <3>1, <3>2 DEF UnitsWork
  <2> QED
    BY <1>1, <1>8, <2>1, <2>2, <2>3, <2>4, <2>5 DEF EcspiInv, UnitsInv
<1>9. ASSUME burst PROVE BurstInv'
  <2>1. BurstShape'
    BY <1>1, <1>2, <1>9 DEF EcspiInv, BurstInv, BurstShape
  <2>2. ASSUME ~late, rlen >= 0
        PROVE  /\ ~(tpc # "wait" \/ pulses > 0)
               /\ pulses' = pulses /\ Work(4)' /\ BurstWork'
    <3>1. ~(tpc # "wait" \/ pulses > 0) /\ Work(4) /\ BurstWork
      BY <1>1, <1>9, <2>2 DEF EcspiInv, BurstInv, Rest
    <3>2. Work(4)' /\ pulses' = pulses /\ ipc' = "serve"
          /\ count' = (IF tc THEN Len(rxf) ELSE RxMark)
      BY <1>7, <2>2, <3>1 DEF Strides
    <3>3. Len(bus) # BurstFrom
      <4>1. ASSUME Len(bus) = BurstFrom PROVE FALSE
        <5>1. ~tc /\ Len(rxf) > RxMark
          BY <1>1, <3>1, <4>1 DEF BurstWork, Work
        <5>2. Len(bus) - rlen <= 0 /\ Len(bus) - rlen \in Int
          BY <3>1, <4>1 DEF BurstWork, BurstFrom, EcspiInv, Stores, Numbers
        <5>3. Len(rxf) <= 0
          BY <1>0, <3>1, <5>2, CeilFact DEF Work, Strides
        <5> QED
          BY <1>0, <5>1, <5>3, SizeFact
      <4> QED
        BY <4>1
    <3>4. adj # 0 => count' >= 1
      <4>0. BurstFrom \in Int /\ Len(bus) \in Int
        BY DEF BurstFrom, EcspiInv, Stores, Numbers
      <4>1. Len(bus) > BurstFrom
        BY <3>1, <3>3, <4>0 DEF BurstWork
      <4>2. adj # 0 => rxf # << >>
        BY <3>1, <4>1 DEF BurstWork
      <4> QED
        BY <1>0, <3>2, <4>2, SizeFact DEF EcspiInv, Stores
    <3>5. BurstWork'
      BY <1>1, <3>1, <3>2, <3>3, <3>4 DEF BurstWork, InStep, BurstTo, BurstFrom
    <3> QED
      BY <3>1, <3>2, <3>5
  <2>3. ~late
    BY <1>9 DEF EcspiInv, BurstInv
  <2> QED
    BY <1>1, <2>1, <2>2, <2>3 DEF BurstInv
<1>10. Exchange'
  BY <1>1 DEF EcspiInv, Exchange, Contents, Unit, In, Stride
<1> QED
  BY <1>1, <1>3, <1>5, <1>6, <1>8, <1>9, <1>10 DEF EcspiInv

-----------------------------------------------------------------------------
(***************************************************************************)
(* A transfer begins.                                                      *)
(***************************************************************************)
LEMMA XferStep ==
  ASSUME EcspiInv, NEW x \in Lens, NEW d \in DLens, Xfer(x, d), ~(burst' /\ late')
  PROVE  EcspiInv'
<1>1. /\ tpc = "idle" /\ nx' = nx + 1 /\ xlen' = x /\ dlen' = d
      /\ rlen' = 0 /\ tlen' = 0 /\ bxlen' = 0 /\ adj' = 0
      /\ bus' = << >> /\ buf' = [p \in Mem |-> p + 1]
      /\ late' = (late \/ rlen < 0)
      /\ UNCHANGED <<burst, brlen, btlen, pulses, ipc, count, tc, xch, bcnt>>
      /\ UNCHANGED <<left, hung, txf>>
  BY DEF Xfer, handler
<1>2. \/ x < d /\ tpc' = "idle" /\ result' = -1 /\ inten' = inten /\ rxf' = rxf
      \/ tpc' = "loop" /\ inten' = FALSE /\ rxf' = << >> /\ result' = result
  BY DEF Xfer
<1>3. x \in 1 .. MaxLen /\ d \in 1 .. 4
  BY MaxLenFact, EcspiAssumption
<1>4. << >> \in Seq(Cell) /\ << >> \in Seq(Int) /\ Len(<< >>) = 0
  OBVIOUS
<1>5. Flags'
  BY <1>1, <1>2 DEF EcspiInv, Flags
<1>6. Started'
  BY <1>1, <1>2 DEF EcspiInv, Started
<1>7. Numbers'
  BY <1>1, <1>2, <1>3, MaxLenFact, SizeFact DEF EcspiInv, Numbers
<1>8. /\ buf' \in [Mem -> Int] /\ \A p \in Mem : p \in Int /\ buf'[p] = p + 1
  BY <1>1, MaxLenFact DEF Mem
<1>9. Stores'
  <2>1. rxf' \in Seq(Cell) /\ Len(rxf') <= FifoSize
    <3>1. rxf \in Seq(Cell) /\ Len(rxf) <= FifoSize /\ 0 <= FifoSize
      BY SizeFact DEF EcspiInv, Stores
    <3>2. rxf' = rxf \/ rxf' = << >>
      BY <1>2
    <3> QED
      BY <1>4, <3>1, <3>2
  <2> QED
    BY <1>1, <1>4, <1>8, <2>1 DEF EcspiInv, Stores
<1>10. Stride' \in Strides
  BY <1>1, <1>3 DEF Stride, Strides
<1>11. ASSUME ~late' PROVE Rest /\ Rest'
  <2>1. ~late /\ rlen >= 0
    <3>1. ~late /\ ~(rlen < 0)
      BY <1>1, <1>11, Zenon
    <3> QED
      BY <3>1 DEF EcspiInv, Numbers
  <2>2. Rest
    BY <1>1, <2>1 DEF EcspiInv, UnitsInv, BurstInv
  <2> QED
    BY <1>1, <1>2, <1>4, <2>2 DEF Rest
<1>12. ASSUME ~burst PROVE UnitsInv'
  <2>1. (late \/ rlen < 0) => Dead'
    BY <1>1, <1>2, <1>4, <1>12, SizeFact DEF EcspiInv, UnitsInv, Dead, RxMark
  <2>2. 0 % Stride' = 0 /\ 0 < x + Stride'
    <3>1. \A s \in Strides : 0 % s = 0 /\ 0 < x + s
      BY <1>3 DEF Strides
    <3> QED
      BY <1>10, <3>1
  <2>3. late' => Dead'
    BY <1>1, <2>1
  <2> QED
    BY <1>1, <1>2, <1>11, <2>2, <2>3 DEF UnitsInv
<1>13. ASSUME burst PROVE BurstInv'
  <2>2. BurstShape'
    BY <1>1, <1>2, <1>3, <1>13 DEF EcspiInv, BurstInv, BurstShape, InStep, Numbers
  <2>3. ~late'
    BY <1>1, <1>13
  <2> QED
    BY <1>1, <1>2, <1>11, <2>2, <2>3 DEF BurstInv
<1>14. Exchange'
  <2>1. SUFFICES ASSUME ~late'
                 PROVE  Contents(Unit)' /\ (tpc' = "idle" /\ result' > 0 => result' = rlen')
    BY DEF Exchange
  <2>2. Rest
    BY <1>11, <2>1
  <2>3. /\ txf' = << >> /\ rxf' = << >> /\ Len(bus') = 0 /\ tlen' = 0 /\ rlen' = 0
    BY <1>1, <1>2, <1>4, <2>2 DEF Rest
  <2>4. Unit' \in Strides /\ 0 \in Int /\ "out" \in Ways /\ In' \in Ways
    BY <1>10 DEF Unit, Strides, Ways, In
  <2>5. Covers(<< >>, 0, 0, Unit', "out") /\ Covers(<< >>, 0, 0, Unit', In')
    BY <2>4, CoversNothing, Zenon
  <2>6. /\ Covers(txf', Len(bus'), tlen', Unit', "out")
        /\ Covers(rxf', rlen', Len(bus'), Unit', In')
    BY <2>3, <2>5, Zenon
  <2>7. /\ \A p \in 1 .. Len(bus') : bus'[p] = -Byte(In', p)
        /\ \A p \in Mem : p >= tlen' => buf'[p] = p + 1
        /\ \A p \in Mem : 0 <= p /\ p < rlen' => buf'[p] = Byte(In', p + 1)
    BY <1>8, <2>3
  <2>8. Contents(Unit)'
    BY <2>6, <2>7 DEF Contents, Mem, MaxLen
  <2> QED
    BY <1>2, <2>8, <1>1, <2>2 DEF Rest, EcspiInv, Numbers
<1> QED
  BY <1>1, <1>5, <1>6, <1>7, <1>9, <1>12, <1>13, <1>14 DEF EcspiInv

-----------------------------------------------------------------------------
(***************************************************************************)
(* The thread goes on.                                                     *)
(***************************************************************************)
(* Words of the client's data, after those that are on their way. *)
LEMMA SendCovers ==
  ASSUME NEW b \in [Mem -> Int], NEW f \in Seq(Cell), NEW lo \in Int, NEW t \in Nat,
         NEW n \in Strides, NEW k \in Nat, lo <= t, t + n * k <= MaxLen + 4,
         \A p \in Mem : p >= t => b[p] = p + 1, Covers(f, lo, t, n, "out")
  PROVE  Covers(f \o Words(b, t, n, k), lo, t + n * k, n, "out")
<1> DEFINE g == Words(b, t, n, k)
<1>1. /\ g \in Seq(Cell) /\ Len(g) = k
      /\ \A i \in 1 .. k, c \in 1 .. 4 : c > 4 - n => g[i][c] = b[t + n * i + c - 5]
  <2>1. t \in Int /\ t >= 0
    OBVIOUS
  <2> QED
    BY <2>1, WordsFact, Zenon
<1> HIDE DEF g
<1>2. ASSUME NEW i \in 1 .. k, NEW c \in 1 .. 4, c > 4 - n
      PROVE  g[i][c] = Byte("out", t + n * i - 4 + c)
  <2>1. t + n * i + c - 5 \in Mem /\ t + n * i + c - 5 >= t
    <3>1. CASE n = 1
      BY <1>2, <3>1, MaxLenFact DEF Mem
    <3>2. CASE n = 2
      BY <1>2, <3>2, MaxLenFact DEF Mem
    <3>3. CASE n = 4
      BY <1>2, <3>3, MaxLenFact DEF Mem
    <3> QED
      BY <3>1, <3>2, <3>3 DEF Strides
  <2>2. g[i][c] = (t + n * i + c - 5) + 1
    BY <1>1, <1>2, <2>1
  <2>3. n * i \in Int
    BY DEF Strides
  <2> QED
    BY <2>2, <2>3, SMTT(30) DEF Byte
<1>3. t \in Int /\ "out" \in Ways
  BY WayFact
<1>4. Covers(f \o g, lo, t + n * Len(g), n, "out")
  BY <1>1, <1>2, <1>3, CoversAppend
<1> QED
  BY <1>1, <1>4 DEF g

(* The transfer returns. *)
LEMMA LoopReturnStep ==
  ASSUME EcspiInv, Loop, ~(rlen < xlen /\ tlen < xlen)
  PROVE  EcspiInv'
<1>1. /\ tpc = "loop" /\ tpc' = "idle" /\ result' = rlen /\ inten' = FALSE
      /\ UNCHANGED <<txf, tlen, brlen, btlen, bcnt, xch, bxlen, adj, burst, nx, xlen>>
      /\ UNCHANGED <<dlen, rlen, pulses, ipc, count, tc, left, hung, rxf, buf, bus, late>>
  BY DEF Loop, Return, handler
<1>2. Flags' /\ Started'
  BY <1>1 DEF EcspiInv, Flags, Started
<1>3. Numbers'
  BY <1>1 DEF EcspiInv, Numbers
<1>4. Stores'
  BY <1>1 DEF EcspiInv, Stores
<1>5. ASSUME Rest PROVE Rest'
  BY <1>1, <1>5 DEF Rest
<1>6. ASSUME ~burst PROVE UnitsInv'
  BY <1>1, <1>5, <1>6 DEF EcspiInv, UnitsInv, Dead, Stride, RxMark
<1>7. ASSUME burst PROVE BurstInv'
  BY <1>1, <1>5, <1>7 DEF EcspiInv, BurstInv, BurstShape
<1>8. Exchange'
  BY <1>1 DEF EcspiInv, Exchange, Contents, Unit, In, Stride
<1> QED
  BY <1>1, <1>2, <1>3, <1>4, <1>6, <1>7, <1>8 DEF EcspiInv

(* What a start without bursts does to the counters. *)
LEMMA StartUnitsNumbers ==
  ASSUME NEW s \in Strides, NEW t \in Nat, NEW x \in Nat, t < x, t % s = 0,
         NEW k, k = Least(FifoSize, CeilDiv(x - t, s)), NEW u, u = t + k * s
  PROVE  /\ k \in Nat /\ k >= 1 /\ k <= FifoSize
         /\ u \in Nat /\ u < x + s /\ u % s = 0 /\ u = t + s * k /\ u > t
         /\ CeilDiv(u - t, s) = k
<1>1. CASE s = 1
  BY <1>1, SizeFact DEF CeilDiv, Least
<1>2. CASE s = 2
  BY <1>2, SizeFact DEF CeilDiv, Least
<1>3. CASE s = 4
  BY <1>3, SizeFact DEF CeilDiv, Least
<1> QED
  BY <1>1, <1>2, <1>3 DEF Strides


(* A start without bursts. *)
LEMMA StartUnitsStep ==
  ASSUME EcspiInv, Loop, rlen < xlen, tlen < xlen, ~burst
  PROVE  EcspiInv'
<1> DEFINE s == Stride
           k == Least(FifoSize, CeilDiv(xlen - tlen, s))
           g == Words(buf, tlen, s, k)
<1>1. /\ tpc = "loop" /\ tpc' = "wait" /\ txf' = Fill(txf, g) /\ tlen' = tlen + k * s
      /\ brlen' = 0 /\ btlen' = 0 /\ bcnt' = dlen /\ inten' = TRUE /\ xch' = TRUE
      /\ UNCHANGED <<bxlen, adj, result, burst, nx, xlen, dlen, rlen, pulses, ipc>>
      /\ UNCHANGED <<count, tc, left, hung, rxf, buf, bus, late>>
  BY DEF Loop, Overtaken, StartUnits, handler
<1>2. s \in Strides /\ s' = s
  BY <1>1, StrideFact DEF EcspiInv, Numbers, Stride
<1>3. UnitsInv /\ Stores /\ Numbers
  BY DEF EcspiInv
<1> HIDE DEF s
<1>4. /\ tlen \in Nat /\ xlen \in Nat /\ xlen <= MaxLen /\ tlen % s = 0 /\ rlen \in Int
  BY <1>3 DEF Numbers, UnitsInv, s
<1>5. /\ k \in Nat /\ k >= 1 /\ k <= FifoSize
      /\ tlen' \in Nat /\ tlen' < xlen + s /\ tlen' % s = 0
      /\ tlen' = tlen + s * k /\ tlen' > tlen
      /\ CeilDiv(tlen' - tlen, s) = k
  <2>1. k = Least(FifoSize, CeilDiv(xlen - tlen, s)) /\ tlen' = tlen + k * s
    BY <1>1
  <2> HIDE DEF k
  <2> QED
    BY <1>2, <1>4, <2>1, StartUnitsNumbers
<1> HIDE DEF k
<1>6. tlen' <= MaxLen + 3
  BY <1>2, <1>4, <1>5, MaxLenFact DEF Strides
<1>7. g \in Seq(Cell) /\ Len(g) = k
  <2>1. tlen \in Int /\ tlen >= 0 /\ tlen + s * k <= MaxLen + 4 /\ buf \in [Mem -> Int]
    BY <1>3, <1>4, <1>5, <1>6, MaxLenFact DEF Stores
  <2> QED
    BY <1>2, <1>5, <2>1, WordsFact, ZenonT(30)
<1> HIDE DEF g
<1>8. Flags'
  BY <1>1 DEF EcspiInv, Flags
<1>9. Started'
  BY <1>1, <1>3 DEF Started, Numbers
<1>10. Numbers'
  BY <1>1, <1>2, <1>3, <1>5, <1>6, SizeFact DEF Numbers, Strides
<1>11. Stores'
  <2>1. txf' \in Seq(Cell) /\ Len(txf') = Least(Len(txf) + Len(g), FifoSize)
    BY <1>1, <1>3, <1>7, FillFact DEF Stores
  <2>2. Len(txf) \in Nat
    BY <1>3 DEF Stores
  <2>3. Len(txf') <= FifoSize
    BY <1>5, <1>7, <2>1, <2>2, SizeFact DEF Least
  <2> QED
    BY <1>1, <1>3, <2>1, <2>3 DEF Stores
<1>12. ASSUME ~late, rlen >= 0
       PROVE  Work(Stride)' /\ UnitsWork' /\ pulses = 0 /\ Contents(Unit)'
  <2>1. Rest
    BY <1>1, <1>3, <1>12 DEF UnitsInv
  <2>2. txf' = g
    <3>0. txf = << >> /\ txf \in Seq(Cell) /\ Len(txf) + Len(g) <= FifoSize
      BY <1>3, <1>5, <1>7, <2>1, SizeFact DEF Rest, Stores
    <3>1. Fill(txf, g) = << >> \o g
      BY <1>7, <3>0, FillFact
    <3> QED
      BY <1>1, <1>7, <3>1, ConcatEmptySeq
  <2>3. Len(bus) = tlen /\ rlen = tlen /\ Len(rxf) = 0 /\ Len(txf') = k
    BY <1>7, <2>1, <2>2 DEF Rest
  <2>4. Len(rxf) = CeilDiv(Len(bus) - rlen, s)
    BY <1>4, <2>3 DEF CeilDiv
  <2>5. Len(txf') = CeilDiv(tlen' - Len(bus), s)
    BY <1>5, <2>3
  <2>6. Work(s)'
    BY <1>1, <1>2, <1>4, <1>5, <2>1, <2>3, <2>4, <2>5 DEF Work, Rest
  <2>7. UnitsWork'
    BY <1>1, <1>2, <1>4, <1>5, <2>1, <2>3, <2>4, <2>5, SizeFact DEF UnitsWork, Rest, s
  <2>8. Contents(s)
    BY <1>12 DEF EcspiInv, Exchange, Unit, s
  <2>9. Covers(txf', Len(bus), tlen', s, "out")
    <3>1. Covers(<< >>, tlen, tlen, s, "out")
      BY <2>1, <2>8 DEF Rest, Contents
    <3>2. /\ << >> \in Seq(Cell) /\ tlen \in Int /\ tlen <= tlen /\ buf \in [Mem -> Int]
          /\ tlen + s * k <= MaxLen + 4
      BY <1>3, <1>4, <1>5, <1>6, MaxLenFact DEF Stores
    <3>3. Covers(<< >> \o Words(buf, tlen, s, k), tlen, tlen + s * k, s, "out")
      BY <1>2, <1>4, <1>5, <2>8, <3>1, <3>2, SendCovers DEF Contents
    <3>4. << >> \o Words(buf, tlen, s, k) = txf'
      BY <1>7, <2>2, ConcatEmptySeq DEF g
    <3> QED
      BY <1>5, <2>3, <3>3, <3>4
  <2>10. Contents(s)'
    <3>1. \A p \in Mem : p >= tlen' => buf[p] = p + 1
      <4>1. Mem \subseteq Int
        BY MaxLenFact DEF Mem
      <4> QED
        BY <1>4, <1>5, <2>8, <4>1 DEF Contents
    <3> QED
      BY <1>1, <1>2, <2>8, <2>9, <3>1 DEF Contents, In
  <2> QED
    BY <1>1, <1>2, <2>1, <2>6, <2>7, <2>10 DEF Rest, s, Unit
<1>13. UnitsInv'
  <2>1. Dead' = Dead
    BY <1>1 DEF Dead
  <2> QED
    BY <1>1, <1>2, <1>3, <1>5, <1>12, <2>1 DEF UnitsInv, s
<1>14. Exchange'
  BY <1>1, <1>12 DEF Exchange
<1> QED
  BY <1>1, <1>8, <1>9, <1>10, <1>11, <1>13, <1>14 DEF EcspiInv

(* Whole words. *)
LEMMA WholeWords ==
  ASSUME NEW a \in Int
  PROVE  /\ a % 4 = 0 => \E m \in Int : a = 4 * m
         /\ \A m \in Int : a = 4 * m => a % 4 = 0
  OBVIOUS

(* A burst is a cut word and whole words. *)
LEMMA CutWord ==
  ASSUME NEW b \in Nat, NEW f, f = b % 4, NEW q, q = (b - f) \div 4
  PROVE  f \in 0 .. 3 /\ q \in Nat /\ b = f + 4 * q
  OBVIOUS

(* What the start of a burst does to the counters: the inequalities. *)
LEMMA StartBurstBounds ==
  ASSUME NEW t \in Nat, NEW x \in Nat, t < x, NEW bx \in Nat, NEW first \in 0 .. 3,
         NEW j \in Nat, NEW k \in Int, NEW u \in Int, NEW e \in 0 .. 1,
         bx >= 1, bx <= x - t, bx <= BurstMax, bx = x - t \/ bx = BurstMax,
         bx = first + 4 * j,
         first = 0 => e = 0, first # 0 => e = 1, FifoSize \in Nat, FifoSize >= 2,
         k <= j, k <= FifoSize - e, k = j \/ k = FifoSize - e,
         u = t + first + 4 * k
  PROVE  /\ k >= 0 /\ first <= bx /\ e + k <= FifoSize
         /\ first + 4 * k >= 1 /\ first + 4 * k <= bx
         /\ u >= 0 /\ u <= x /\ u > t
         /\ bx = x - t => x - u = 4 * (j - k)
<1>1. k >= 0 /\ first <= bx /\ e + k <= FifoSize
  OBVIOUS
<1>2. first + 4 * k >= 1 /\ first + 4 * k <= bx
  OBVIOUS
<1>3. u >= 0 /\ u <= x /\ u > t
  BY <1>2
<1>4. bx = x - t => x - u = 4 * (j - k)
  OBVIOUS
<1> QED
  BY <1>1, <1>2, <1>3, <1>4

(* A burst of bx bytes from t on of a transfer of x bytes: first bytes in a *)
(* cut word (e words) and j whole words, of which k fit into the FIFO.      *)
Sizes(t, x, bx, first, e, j, k) ==
  /\ t \in Nat /\ x \in Nat /\ t < x
  /\ bx \in Nat /\ bx >= 1 /\ bx <= x - t /\ bx <= BurstMax
  /\ bx = x - t \/ bx = BurstMax
  /\ first \in 0 .. 3 /\ j \in Nat /\ bx = first + 4 * j
  /\ e \in 0 .. 1 /\ (first = 0 => e = 0) /\ (first # 0 => e = 1)
  /\ k \in Int /\ k <= j /\ k <= FifoSize - e /\ (k = j \/ k = FifoSize - e)

(* The length of a burst, of its cut word and the number of its words. *)
LEMMA StartBurstSizes ==
  ASSUME NEW t \in Nat, NEW x \in Nat, t < x, NEW bx, bx = Least(x - t, BurstMax),
         NEW first, first = bx % 4, NEW e, e = (IF first = 0 THEN 0 ELSE 1),
         NEW j, j = (bx - first) \div 4, NEW k, k = Least(j, FifoSize - e)
  PROVE  /\ Sizes(t, x, bx, first, e, j, k)
         /\ (x - t) % 4 = 0 => first = 0
<1>1. /\ bx \in Nat /\ bx >= 1 /\ bx <= x - t /\ bx <= BurstMax
      /\ bx = x - t \/ bx = BurstMax
  BY SizeFact DEF Least
<1>2. first \in 0 .. 3 /\ j \in Nat /\ bx = first + 4 * j
  BY <1>1, CutWord
<1>3. e \in 0 .. 1 /\ (first = 0 => e = 0) /\ (first # 0 => e = 1)
  OBVIOUS
<1>4. FifoSize - e \in Int /\ j \in Int
  BY <1>2, <1>3, SizeFact
<1>5. k \in Int /\ k <= j /\ k <= FifoSize - e /\ (k = j \/ k = FifoSize - e)
  BY <1>4, LeastFact, Zenon
<1>6. (x - t) % 4 = 0 => first = 0
  <2>1. BurstMax % 4 = 0
    BY SizeFact
  <2> QED
    BY <1>1, <2>1, Zenon
<1> QED
  BY <1>1, <1>2, <1>3, <1>5, <1>6, Zenon DEF Sizes

(* What the start of a burst does to the counters. *)
LEMMA StartBurstNumbers ==
  ASSUME NEW t, NEW x, NEW bx, NEW first, NEW e, NEW j, NEW k,
         Sizes(t, x, bx, first, e, j, k), NEW u, u = t + first + 4 * k
  PROVE  /\ k \in Nat /\ first <= bx /\ e + k <= FifoSize
         /\ first + 4 * k >= 1 /\ first + 4 * k <= bx
         /\ u \in Nat /\ u <= x /\ u > t
         /\ first # 0 => (x - u) % 4 = 0
         /\ (bx - first) % 4 = 0 /\ (bx - (first + 4 * k)) % 4 = 0
<1> USE DEF Sizes
<1>5. PICK M \in Int : BurstMax = 4 * M
  BY WholeWords, SizeFact
<1>6. u \in Int
  OBVIOUS
<1>8. /\ k >= 0 /\ first <= bx /\ e + k <= FifoSize
      /\ first + 4 * k >= 1 /\ first + 4 * k <= bx
      /\ u >= 0 /\ u <= x /\ u > t
      /\ bx = x - t => x - u = 4 * (j - k)
  BY <1>6, SizeFact, StartBurstBounds
<1>7. first # 0 => bx = x - t
  BY <1>5, SizeFact
<1>9. (bx - first) % 4 = 0 /\ (bx - (first + 4 * k)) % 4 = 0
  <2>1. bx - first \in Int /\ bx - first = 4 * j /\ j \in Int
    OBVIOUS
  <2>2. /\ bx - (first + 4 * k) \in Int /\ j - k \in Int
        /\ bx - (first + 4 * k) = 4 * (j - k)
    OBVIOUS
  <2> QED
    BY <2>1, <2>2, WholeWords
<1>10. ASSUME first # 0 PROVE (x - u) % 4 = 0
  <2>1. x - u \in Int /\ j - k \in Int /\ x - u = 4 * (j - k)
    BY <1>6, <1>7, <1>8, <1>10
  <2> QED
    BY <2>1, WholeWords
<1>11. k \in Nat /\ u \in Nat
  BY <1>8
<1> QED
  BY <1>6, <1>8, <1>9, <1>10, <1>11

(* The cut word and the whole words of a burst. *)
WordsSent(b, t, first, k) ==
  (IF first = 0 THEN << >> ELSE <<Word(b, t, first)>>) \o Words(b, t + first, 4, k)

(* They are in the buffer. *)
InBuffer(b, t, first, k) ==
  b \in [Mem -> Int] /\ k \in Nat /\ t + first + 4 * k <= MaxLen

(* Their number. *)
LEMMA WordsSentLen ==
  ASSUME NEW b, NEW t, NEW x, NEW bx, NEW first, NEW e, NEW j, NEW k,
         Sizes(t, x, bx, first, e, j, k), InBuffer(b, t, first, k)
  PROVE  WordsSent(b, t, first, k) \in Seq(Cell) /\ Len(WordsSent(b, t, first, k)) = e + k
<1> DEFINE g == WordsSent(b, t, first, k)
           u == t + first + 4 * k
<1>0. /\ t \in Nat /\ first \in 0 .. 3 /\ e \in 0 .. 1
      /\ (first = 0 => e = 0) /\ (first # 0 => e = 1)
      /\ b \in [Mem -> Int] /\ k \in Nat /\ t + first + 4 * k <= MaxLen
  BY DEF Sizes, InBuffer
<1> DEFINE cut == IF first = 0 THEN << >> ELSE <<Word(b, t, first)>>
           m   == t + first
           ws  == Words(b, m, 4, k)
<1>1. m \in Nat /\ m \in Int /\ m >= 0 /\ m + 4 * k = u /\ m + 4 * k <= MaxLen + 4 /\ t <= m
  BY <1>0, MaxLenFact
<1>2. 4 \in Strides /\ t \in Int
  BY <1>0 DEF Strides
<1> HIDE DEF m
<1>3. ws \in Seq(Cell) /\ Len(ws) = k
  BY <1>0, <1>1, <1>2, WordsFact, Zenon
<1>4. ASSUME first # 0
      PROVE  /\ Word(b, t, first) \in Cell
             /\ \A c \in 1 .. 4 : c > 4 - first => Word(b, t, first)[c] = b[t + c + first - 5]
  <2>1. first \in 1 .. 4 /\ t >= 0 /\ t + first <= MaxLen + 4
    BY <1>0, <1>1, <1>4, MaxLenFact
  <2> QED
    BY <1>0, <1>2, <2>1, WordFact
<1>5. cut \in Seq(Cell) /\ Len(cut) = e
  BY <1>0, <1>4
<1>6. g = cut \o ws
  BY <1>0 DEF m, WordsSent
<1>7. g \in Seq(Cell) /\ Len(g) = e + k
  <2> HIDE DEF cut, ws
  <2> QED
    BY <1>0, <1>3, <1>5, <1>6, ConcatProperties
<1> QED
  BY <1>7

(* They hold the client's data. *)
LEMMA WordsSentCovers ==
  ASSUME NEW b, NEW t, NEW x, NEW bx, NEW first, NEW e, NEW j, NEW k,
         Sizes(t, x, bx, first, e, j, k), InBuffer(b, t, first, k),
         \A p \in Mem : p >= t => b[p] = p + 1
  PROVE  Covers(WordsSent(b, t, first, k), t, t + first + 4 * k, 4, "out")
<1> DEFINE g == WordsSent(b, t, first, k)
           u == t + first + 4 * k
<1>0. /\ t \in Nat /\ first \in 0 .. 3 /\ e \in 0 .. 1
      /\ (first = 0 => e = 0) /\ (first # 0 => e = 1)
      /\ b \in [Mem -> Int] /\ k \in Nat /\ t + first + 4 * k <= MaxLen
  BY DEF Sizes, InBuffer
<1> DEFINE cut == IF first = 0 THEN << >> ELSE <<Word(b, t, first)>>
           m   == t + first
           ws  == Words(b, m, 4, k)
<1>1. m \in Nat /\ m \in Int /\ m >= 0 /\ m + 4 * k = u /\ m + 4 * k <= MaxLen + 4 /\ t <= m
  BY <1>0, MaxLenFact
<1>2. 4 \in Strides /\ t \in Int
  BY <1>0 DEF Strides
<1> HIDE DEF m
<1>3. ws \in Seq(Cell) /\ Len(ws) = k
  BY <1>0, <1>1, <1>2, WordsFact, Zenon
<1>4. ASSUME first # 0
      PROVE  /\ Word(b, t, first) \in Cell
             /\ \A c \in 1 .. 4 : c > 4 - first => Word(b, t, first)[c] = b[t + c + first - 5]
  <2>1. first \in 1 .. 4 /\ t >= 0 /\ t + first <= MaxLen + 4
    BY <1>0, <1>1, <1>4, MaxLenFact
  <2> QED
    BY <1>0, <1>2, <2>1, WordFact
<1>5. cut \in Seq(Cell) /\ Len(cut) = e
  BY <1>0, <1>4
<1>6. g = cut \o ws
  BY <1>0 DEF m, WordsSent
<1>11. Covers(cut, t, m, 4, "out")
  <2>1. CASE first = 0
    <3>1. Covers(<< >>, t, t, 4, "out")
      BY <1>0, <1>2, WayFact, CoversNothing
    <3>2. m = t
      BY <1>0, <2>1 DEF m
    <3> QED
      BY <1>0, <2>1, <3>1, <3>2
  <2>2. CASE first # 0
    <3>1. \A c \in 1 .. 4 : c > 4 - first =>
             Word(b, t, first)[c] = Byte("out", t + first - 4 + c)
      <4>1. ASSUME NEW c \in 1 .. 4, c > 4 - first
            PROVE  t + c + first - 5 \in Mem /\ t + c + first - 5 >= t
        BY <1>0, <1>1, <4>1, MaxLenFact DEF Mem, m
      <4>2. ASSUME NEW c \in 1 .. 4, c > 4 - first
            PROVE  b[t + c + first - 5] = t + first - 4 + c
        <5>1. b[t + c + first - 5] = (t + c + first - 5) + 1
          BY <1>0, <4>1, <4>2, Zenon
        <5> QED
          BY <1>0, <5>1
      <4> QED
        BY <1>0, <1>4, <2>2, <4>2 DEF Byte
    <3>2. first \in 1 .. 4 /\ "out" \in Ways
      BY <1>0, <2>2, WayFact
    <3>3. Covers(<<Word(b, t, first)>>, t, t + first, 4, "out")
      BY <1>0, <1>2, <1>4, <2>2, <3>1, <3>2, CoversFirst
    <3> QED
      BY <1>0, <2>2, <3>3 DEF m
  <2> QED
    BY <1>0, <2>1, <2>2
<1>12. \A p \in Mem : p >= m => b[p] = p + 1
  BY <1>0, <1>1, MaxLenFact DEF Mem
<1> HIDE DEF cut
<1>13. Covers(cut \o Words(b, m, 4, k), t, m + 4 * k, 4, "out")
  BY <1>0, <1>1, <1>2, <1>5, <1>11, <1>12, SendCovers
<1> QED
  BY <1>0, <1>1, <1>6, <1>13

(* The start of a burst. *)
LEMMA StartBurstStep ==
  ASSUME EcspiInv, Loop, rlen < xlen, tlen < xlen, burst
  PROVE  EcspiInv'
<1> DEFINE bx    == BurstLen
           first == bx % 4
           e     == IF first = 0 THEN 0 ELSE 1
           j     == (bx - first) \div 4
           k     == Least(j, FifoSize - e)
           u     == tlen + first + 4 * k
           g     == WordsSent(buf, tlen, first, k)
           ok    == CutOk(first) /\ dlen # 3
<1>30. ~Overtaken /\ tpc = "loop"
  BY DEF Loop, EcspiInv, BurstInv, Rest, Overtaken
<1>1. /\ tpc = "loop" /\ bxlen' = bx /\ brlen' = 0
      /\ UNCHANGED <<burst, nx, xlen, dlen, rlen, pulses, ipc, count, tc, left, hung>>
      /\ UNCHANGED <<rxf, buf, bus, late>>
  BY <1>30 DEF Loop, StartBurst, handler
<1>2. ok => /\ txf' = Fill(txf, g) /\ btlen' = first + 4 * k /\ tlen' = u /\ adj' = first
            /\ bcnt' = bx /\ inten' = TRUE /\ xch' = TRUE /\ tpc' = "wait"
            /\ UNCHANGED result
  BY <1>30 DEF Loop, StartBurst, WordsSent
<1>3. ~ok => /\ tpc' = "idle" /\ result' = -1 /\ inten' = FALSE /\ btlen' = first
             /\ UNCHANGED <<txf, tlen, adj, bcnt, xch>>
  BY <1>30 DEF Loop, StartBurst, Return
<1>4. Flags /\ Numbers /\ Started /\ Stores /\ BurstInv /\ Exchange
  BY DEF EcspiInv
<1>5. tlen \in Nat /\ xlen \in Nat /\ xlen <= MaxLen /\ rlen \in Int /\ adj \in 0 .. 3
  BY <1>4, MaxLenFact DEF Numbers
<1>0. /\ Sizes(tlen, xlen, bx, first, e, j, k)
      /\ (xlen - tlen) % 4 = 0 => first = 0
  <2>1. bx = Least(xlen - tlen, BurstMax)
    BY DEF BurstLen
  <2> HIDE DEF bx
  <2>2. first = bx % 4
    OBVIOUS
  <2> HIDE DEF first
  <2>3. e = (IF first = 0 THEN 0 ELSE 1) /\ j = (bx - first) \div 4
    OBVIOUS
  <2> HIDE DEF e, j
  <2>4. k = Least(j, FifoSize - e)
    OBVIOUS
  <2> HIDE DEF k
  <2> QED
    BY <1>5, <2>1, <2>2, <2>3, <2>4, StartBurstSizes
<1>7. first = bx % 4
  OBVIOUS
<1>8. ok <=> (first = 0 \/ dlen = 1 \/ (dlen = 2 /\ first = 2)) /\ dlen # 3
  BY DEF CutOk
<1> HIDE DEF bx, first, e, j, k, ok
<1>6. /\ bx \in Nat /\ bx >= 1 /\ bx <= xlen - tlen /\ bx <= BurstMax
      /\ first \in 0 .. 3 /\ e \in 0 .. 1 /\ k \in Int
      /\ (xlen - tlen) % 4 = 0 => first = 0
  BY <1>0 DEF Sizes
<1>9. u \in Int /\ u = tlen + first + 4 * k
  BY <1>5, <1>6
<1>10. /\ k \in Nat /\ first <= bx /\ e + k <= FifoSize
       /\ first + 4 * k >= 1 /\ first + 4 * k <= bx
       /\ u \in Nat /\ u <= xlen /\ u > tlen
       /\ first # 0 => (xlen - u) % 4 = 0
       /\ (bx - first) % 4 = 0 /\ (bx - (first + 4 * k)) % 4 = 0
  <2> HIDE DEF u
  <2> QED
    BY <1>0, <1>9, StartBurstNumbers
<1>11. adj # 0 => ok
  <2> HIDE DEF u
  <2> QED
    BY <1>4, <1>6, <1>8, <1>10 DEF BurstInv, BurstShape
<1> HIDE DEF u
<1>13. g \in Seq(Cell) /\ Len(g) = e + k
       /\ ((\A p \in Mem : p >= tlen => buf[p] = p + 1) => Covers(g, tlen, u, 4, "out"))
  <2>1. buf \in [Mem -> Int] /\ u <= MaxLen
    BY <1>4, <1>5, <1>10, MaxLenFact DEF Stores
  <2> QED
    <3>1. InBuffer(buf, tlen, first, k)
      BY <1>9, <1>10, <2>1 DEF InBuffer
    <3>2. g \in Seq(Cell) /\ Len(g) = e + k
      BY <1>0, <3>1, WordsSentLen
    <3>4. ASSUME \A p \in Mem : p >= tlen => buf[p] = p + 1
          PROVE  Covers(g, tlen, tlen + first + 4 * k, 4, "out")
      BY <1>0, <3>1, <3>4, WordsSentCovers, Zenon
    <3> QED
      BY <1>9, <3>2, <3>4, Zenon
<1> HIDE DEF g
<1>20. Flags'
  BY <1>1, <1>2, <1>3, <1>4 DEF Flags
<1>29. Started'
  BY <1>1, <1>2, <1>3, <1>4, <1>6 DEF Started
<1>21. Numbers'
  <2>1. /\ btlen' \in 0 .. BurstMax /\ tlen' \in 0 .. MaxLen + 3 /\ adj' \in 0 .. 3
        /\ bcnt' \in 0 .. BurstMax /\ bxlen' \in 0 .. BurstMax /\ brlen' \in 0 .. BurstMax
    BY <1>1, <1>2, <1>3, <1>4, <1>5, <1>6, <1>10, SizeFact, MaxLenFact DEF Numbers
  <2>2. tpc' \in {"idle", "loop", "wait"} /\ result' \in -1 .. MaxLen + 3
    BY <1>2, <1>3, <1>4, MaxLenFact DEF Numbers
  <2> QED
    BY <1>1, <1>4, <2>1, <2>2 DEF Numbers
<1>22. Stores'
  <2>1. Fill(txf, g) \in Seq(Cell) /\ Len(Fill(txf, g)) = Least(Len(txf) + Len(g), FifoSize)
    BY <1>4, <1>13, FillFact DEF Stores
  <2>2. Len(txf) \in Nat /\ Len(g) \in Nat
    BY <1>4, <1>13 DEF Stores
  <2>3. Len(Fill(txf, g)) <= FifoSize
    BY <2>1, <2>2, SizeFact DEF Least
  <2>4. txf' \in Seq(Cell) /\ Len(txf') <= FifoSize
    BY <1>2, <1>3, <1>4, <2>1, <2>3 DEF Stores
  <2> QED
    BY <1>1, <1>4, <2>4 DEF Stores
<1>23. BurstShape'
  <2>1. CASE ok
    <3>2. /\ bxlen' > 0 /\ btlen' <= bxlen' /\ (bxlen' - btlen') % 4 = 0
          /\ tlen' + bxlen' - btlen' <= xlen' /\ tlen' <= xlen'
      BY <1>1, <1>2, <1>5, <1>6, <1>9, <1>10, <2>1
    <3>3. (bxlen' - brlen' - adj') % 4 = 0 /\ brlen' + adj' <= BurstMax
      <4>1. bx - 0 - first = bx - first /\ 0 + first <= BurstMax
        BY <1>6, <1>10, SizeFact
      <4> QED
        BY <1>1, <1>2, <1>10, <2>1, <4>1
    <3>4. adj' # 0 => dlen' # 3 /\ (xlen' - tlen') % 4 = 0
      BY <1>1, <1>2, <1>8, <1>10, <2>1
    <3>5. ipc' = "serve" => rlen' >= 0
      BY <1>1, <1>4 DEF BurstInv, BurstShape
    <3>6. ~(bxlen' = 0)
      BY <3>2, <1>1, <1>6
    <3> QED
      BY <1>1, <3>2, <3>3, <3>4, <3>5, <3>6 DEF BurstShape
  <2>2. CASE ~ok
    <3>1. adj = 0
      BY <1>11, <2>2
    <3>3. /\ bxlen' > 0 /\ btlen' <= bxlen' /\ (bxlen' - btlen') % 4 = 0
          /\ tlen' + bxlen' - btlen' <= xlen' /\ tlen' <= xlen'
          /\ (brlen' + adj') % 4 = 0 /\ brlen' + adj' <= BurstMax
      BY <1>1, <1>3, <1>5, <1>6, <1>10, <2>2, <3>1, SizeFact
    <3>4. ~(bxlen' = 0) /\ adj' = 0
      BY <1>1, <1>3, <1>6, <2>2, <3>1
    <3>5. ipc' = "serve" => rlen' >= 0
      BY <1>1, <1>4 DEF BurstInv, BurstShape
    <3> QED
      BY <1>1, <3>3, <3>4, <3>5 DEF BurstShape
  <2> QED
    BY <2>1, <2>2
<1>24. ASSUME ~late, rlen >= 0 PROVE Rest /\ pulses = 0 /\ adj = 0
  BY <1>1, <1>4, <1>24 DEF BurstInv, Rest
<1>25. ASSUME ~late, rlen >= 0, ok PROVE Work(4)' /\ BurstWork' /\ Contents(4)'
  <2>1. Rest
    BY <1>24, <1>25
  <2>2. /\ Len(bus) = tlen /\ rlen = tlen /\ rxf = << >> /\ txf = << >> /\ ~tc
        /\ ipc = "idle" /\ left = 0 /\ Len(rxf) = 0
    BY <2>1 DEF Rest
  <2>3. txf' = g /\ Len(txf') = e + k
    <3>0. txf \in Seq(Cell) /\ Len(txf) + Len(g) <= FifoSize
      BY <1>4, <1>6, <1>10, <1>13, <2>2, SizeFact DEF Stores
    <3>1. Fill(txf, g) = << >> \o g
      BY <1>13, <2>2, <3>0, FillFact
    <3> QED
      BY <1>2, <1>13, <1>25, <3>1, ConcatEmptySeq
  <2>4. CeilDiv(u - tlen, 4) = e + k /\ CeilDiv(tlen - tlen, 4) = 0
    <3>1. u - tlen = first + 4 * k
      BY <1>5, <1>6, <1>9, <1>10
    <3> QED
      BY <1>0, <1>5, <1>6, <1>10, <3>1 DEF CeilDiv, Sizes
  <2>5. Work(4)'
    BY <1>1, <1>2, <1>5, <1>10, <1>25, <2>2, <2>3, <2>4 DEF Work
  <2>6. BurstTo' = tlen + bx /\ BurstFrom' = tlen
    BY <1>1, <1>2, <1>5, <1>6, <1>9, <1>10, <1>25 DEF BurstTo, BurstFrom
  <2>7. BurstWork'
    <3>1. rlen' < BurstTo' /\ rlen' - brlen' = BurstFrom' /\ bcnt' = bxlen'
      BY <1>1, <1>2, <1>5, <1>6, <1>25, <2>2, <2>6
    <3>2. InStep'
      <4>1. /\ rlen + first <= u /\ u - rlen - first = 4 * k /\ u - rlen - first \in Int
            /\ k \in Int
        BY <1>5, <1>6, <1>9, <1>10, <2>2
      <4>2. (u - rlen - first) % 4 = 0
        BY <4>1, WholeWords
      <4> QED
        BY <1>1, <1>2, <1>25, <4>1, <4>2 DEF InStep
    <3>3. (BurstTo' - rlen' - adj') % 4 = 0
      <4>1. (tlen + bx) - tlen - first = bx - first
        BY <1>5, <1>6
      <4> QED
        BY <1>1, <1>2, <1>10, <1>25, <2>2, <2>6, <4>1
    <3>4. /\ rlen' = BurstFrom' /\ Len(bus') >= BurstFrom' /\ Len(bus') = BurstFrom'
          /\ left' = 0 /\ adj' = bxlen' % 4 /\ ~tc' /\ ipc' = "idle"
      BY <1>1, <1>2, <1>5, <1>7, <1>25, <2>2, <2>6
    <3>5. ~(Len(bus') > BurstFrom')
      BY <1>1, <1>5, <2>2, <2>6
    <3> QED
      BY <3>1, <3>2, <3>3, <3>4, <3>5 DEF BurstWork
  <2>8. Contents(4)
    BY <1>4, <1>25 DEF Exchange, Unit
  <2>9. Covers(txf', Len(bus'), tlen', 4, "out")
    BY <1>1, <1>2, <1>13, <1>25, <2>2, <2>3, <2>8 DEF Contents
  <2>10. \A p \in Mem : p >= tlen' => buf[p] = p + 1
    <3>1. Mem \subseteq Int
      BY MaxLenFact DEF Mem
    <3> QED
      BY <1>2, <1>5, <1>10, <1>25, <2>8, <3>1 DEF Contents
  <2>11. Contents(4)'
    BY <1>1, <2>8, <2>9, <2>10 DEF Contents, In
  <2> QED
    BY <2>5, <2>7, <2>11
<1>26. ASSUME ~late, rlen >= 0, ~ok PROVE Rest' /\ Contents(4)'
  <2>1. Rest'
    BY <1>1, <1>3, <1>24, <1>26 DEF Rest
  <2>2. Contents(4)
    BY <1>4, <1>26 DEF Exchange, Unit
  <2> QED
    BY <1>1, <1>3, <1>26, <2>1, <2>2 DEF Contents, In
<1>31. ~late
  BY DEF EcspiInv, BurstInv
<1>27. BurstInv'
  BY <1>1, <1>2, <1>3, <1>23, <1>24, <1>25, <1>26, <1>31 DEF BurstInv
<1>28. Exchange'
  BY <1>1, <1>2, <1>3, <1>25, <1>26 DEF Exchange, Unit
<1> QED
  BY <1>1, <1>20, <1>21, <1>22, <1>27, <1>28, <1>29 DEF EcspiInv


-----------------------------------------------------------------------------
(***************************************************************************)
(* The controller exchanges a word.                                        *)
(***************************************************************************)
(* What is left of the burst, what is exchanged of it, and what comes in. *)
ShiftAll == IF left = 0 THEN bcnt ELSE left
ShiftLen == IF ShiftAll % 4 = 0 THEN 4 ELSE ShiftAll % 4

(* The bytes of the buffer that this stands for. *)
ShiftStep == IF burst THEN ShiftLen ELSE Stride

Outgoing(w, n) == [i \in 1 .. 4 |-> IF i <= 4 - n THEN 0 ELSE w[i]]
Incoming(n, m) == [i \in 1 .. 4 |-> IF i <= 4 - n THEN 0 ELSE -(Len(bus) + i + m - 4)]

(* As much of a burst as makes the rest whole words. *)
LEMMA ShiftNumber ==
  ASSUME NEW a \in Nat, a >= 1, NEW n, n = IF a % 4 = 0 THEN 4 ELSE a % 4
  PROVE  n \in 1 .. 4 /\ n <= a /\ (a - n) % 4 = 0 /\ (a % 4 = 0 => n = 4) /\ (n = 4 => a % 4 = 0)
  OBVIOUS

(* The bytes that go out. *)
LEMMA ShiftBus ==
  ASSUME NEW w \in Cell, NEW b \in Seq(Int), NEW n \in 1 .. 4
  PROVE  /\ b \o SubSeq(w, 5 - n, 4) \in Seq(Int)
         /\ Len(b \o SubSeq(w, 5 - n, 4)) = Len(b) + n
         /\ \A p \in 1 .. Len(b) + n :
              (b \o SubSeq(w, 5 - n, 4))[p]
                = IF p <= Len(b) THEN b[p] ELSE w[4 - n + (p - Len(b))]
<1>1. w \in Seq(Int) /\ Len(w) = 4
  <2> DEFINE k == 4
  <2>1. w \in [1 .. k -> Int] /\ k \in Nat
    BY DEF Cell
  <2> HIDE DEF k
  <2>2. w \in Seq(Int) /\ Len(w) = k
    BY <2>1, MakeSeq, Zenon
  <2> QED
    BY <2>2 DEF k
<1> DEFINE m == 5 - n
           g == SubSeq(w, m, 4)
           c == b \o g
<1>2. m \in Int /\ m >= 1 /\ m <= 4 /\ 4 - m + 1 = n /\ \A i \in 1 .. n : m + i - 1 = 4 - n + i
  OBVIOUS
<1>8. m = 5 - n
  OBVIOUS
<1> HIDE DEF m
<1>3. g \in Seq(Int) /\ Len(g) = n /\ \A i \in 1 .. n : g[i] = w[4 - n + i]
  <2>1. \A i \in m .. 4 : w[i] \in Int
    BY <1>2 DEF Cell
  <2>2. 4 \in Int
    OBVIOUS
  <2>3. /\ g \in Seq(Int)
        /\ Len(g) = (IF m <= 4 THEN 4 - m + 1 ELSE 0)
        /\ \A i \in 1 .. 4 - m + 1 : g[i] = w[m + i - 1]
    BY <1>1, <1>2, <2>1, <2>2, SubSeqProperties
  <2> QED
    BY <1>2, <2>3
<1> HIDE DEF g
<1>4. c = b \o g
  OBVIOUS
<1>5. Len(b) \in Nat
  BY LenProperties
<1>6. c \in Seq(Int) /\ Len(c) = Len(b) + n
      /\ \A i \in 1 .. Len(b) + Len(g) : c[i] = IF i <= Len(b) THEN b[i] ELSE g[i - Len(b)]
  <2> HIDE DEF c
  <2> QED
    BY <1>3, <1>4, <1>5, ConcatProperties
<1> HIDE DEF c
<1>7. ASSUME NEW p \in 1 .. Len(b) + n, ~(p <= Len(b))
      PROVE  p - Len(b) \in 1 .. n
  BY <1>5, <1>7
<1>9. \A p \in 1 .. Len(b) + n : c[p] = IF p <= Len(b) THEN b[p] ELSE w[4 - n + (p - Len(b))]
  BY <1>3, <1>5, <1>6, <1>7
<1> QED
  BY <1>6, <1>8, <1>9 DEF c, g

(* What a step of the controller does, in either mode. *)
LEMMA ShiftFact ==
  ASSUME EcspiInv, HwShift
  PROVE  /\ ~hung /\ xch /\ bcnt > 0
         /\ ShiftAll \in 1 .. BurstMax /\ ShiftLen \in 1 .. 4 /\ ShiftLen <= ShiftAll
         /\ (ShiftAll - ShiftLen) % 4 = 0 /\ (ShiftAll % 4 = 0 => ShiftLen = 4)
         /\ Len(txf) \in Nat /\ Len(txf) >= 1 /\ txf' \in Seq(Cell)
         /\ Len(txf') = Len(txf) - 1 /\ \A i \in 1 .. Len(txf') : txf'[i] = txf[i + 1]
         /\ ShiftStep \in 1 .. 4
         /\ bus' \in Seq(Int) /\ Len(bus) \in Nat /\ Len(bus') = Len(bus) + ShiftStep
         /\ \A p \in 1 .. Len(bus) + ShiftStep :
              bus'[p] = IF p <= Len(bus) THEN bus[p]
                        ELSE Outgoing(txf[1], ShiftLen)[4 - ShiftStep + (p - Len(bus))]
         /\ Incoming(ShiftLen, ShiftStep) \in Cell
         /\ rxf' = Fill(rxf, <<Incoming(ShiftLen, ShiftStep)>>)
         /\ rxf' \in Seq(Cell) /\ Len(rxf) \in Nat
         /\ Len(rxf') = Least(Len(rxf) + 1, FifoSize)
         /\ left' = ShiftAll - ShiftLen /\ left' \in 0 .. BurstMax
         /\ tc' = (tc \/ (left' = 0 /\ Len(txf) = 1))
         /\ xch' = ~(left' = 0 /\ Len(txf) = 1)
<1> DEFINE n == ShiftLen
<1>1. ~hung /\ xch /\ txf # << >>
  BY DEF HwShift, Busy
<1>2. Numbers /\ Stores /\ Started
  BY DEF EcspiInv
<1>3. bcnt > 0
  BY <1>1, <1>2 DEF Started, Numbers
<1>4. ShiftAll \in 1 .. BurstMax
  BY <1>2, <1>3, SizeFact DEF ShiftAll, Numbers
<1>5. /\ n \in 1 .. 4 /\ n <= ShiftAll /\ (ShiftAll - n) % 4 = 0
      /\ (ShiftAll % 4 = 0 => n = 4)
  <2>1. ShiftAll \in Nat /\ ShiftAll >= 1
    BY <1>4, SizeFact
  <2>2. n = IF ShiftAll % 4 = 0 THEN 4 ELSE ShiftAll % 4
    BY DEF ShiftLen
  <2> HIDE DEF n
  <2> QED
    BY <2>1, <2>2, ShiftNumber
<1>6. /\ Len(txf) \in Nat /\ Len(txf) >= 1 /\ txf' \in Seq(Cell)
      /\ Len(txf') = Len(txf) - 1 /\ \A i \in 1 .. Len(txf') : txf'[i] = txf[i + 1]
      /\ Head(txf) = txf[1] /\ txf[1] \in Cell
  <2>1. txf' = Tail(txf)
    BY DEF HwShift
  <2>2. txf \in Seq(Cell) /\ txf # << >>
    BY <1>1, <1>2 DEF Stores
  <2>3. /\ Tail(txf) \in Seq(Cell) /\ Len(Tail(txf)) = Len(txf) - 1
        /\ \A i \in 1 .. Len(Tail(txf)) : Tail(txf)[i] = txf[i + 1]
        /\ Head(txf) = txf[1] /\ txf[1] \in Cell /\ Len(txf) \in Nat /\ Len(txf) >= 1
    BY <2>2
  <2> QED
    BY <2>1, <2>3
<1> DEFINE m == ShiftStep
           v == Outgoing(txf[1], n)
<1>7. /\ bus' = bus \o SubSeq(v, 5 - m, 4)
      /\ rxf' = Fill(rxf, <<Incoming(n, m)>>)
      /\ left' = ShiftAll - n
      /\ tc' = (tc \/ (left' = 0 /\ Len(txf) = 1))
      /\ xch' = ~(left' = 0 /\ Len(txf) = 1)
  BY <1>6 DEF HwShift, ShiftAll, ShiftLen, ShiftStep, Incoming, Outgoing
<1>12. v \in Cell
  BY <1>6 DEF Outgoing, Cell
<1> HIDE DEF n, v
<1>13. m \in 1 .. 4
  BY <1>2, <1>5, StrideFact DEF ShiftStep, n, Numbers, Strides
<1> HIDE DEF m
<1>8. /\ bus' \in Seq(Int) /\ Len(bus) \in Nat /\ Len(bus') = Len(bus) + m
      /\ \A p \in 1 .. Len(bus) + m :
           bus'[p] = IF p <= Len(bus) THEN bus[p] ELSE v[4 - m + (p - Len(bus))]
  <2>1. bus \in Seq(Int) /\ Len(bus) \in Nat
    BY <1>2 DEF Stores
  <2> DEFINE b == bus \o SubSeq(v, 5 - m, 4)
  <2>3. /\ b \in Seq(Int) /\ Len(b) = Len(bus) + m
        /\ \A p \in 1 .. Len(bus) + m :
             b[p] = IF p <= Len(bus) THEN bus[p] ELSE v[4 - m + (p - Len(bus))]
    BY <1>12, <1>13, <2>1, ShiftBus, ZenonT(30)
  <2>4. bus' = b
    BY <1>7
  <2> HIDE DEF b
  <2> QED
    BY <2>1, <2>3, <2>4
<1>9. Incoming(n, m) \in Cell
  BY <1>5, <1>8, <1>13 DEF Incoming, Cell
<1>10. rxf' \in Seq(Cell) /\ Len(rxf) \in Nat /\ Len(rxf') = Least(Len(rxf) + 1, FifoSize)
  <2>1. <<Incoming(n, m)>> \in Seq(Cell) /\ Len(<<Incoming(n, m)>>) = 1
    BY <1>9
  <2>2. rxf \in Seq(Cell) /\ Len(rxf) \in Nat
    BY <1>2 DEF Stores
  <2> QED
    BY <1>7, <2>1, <2>2, FillFact
<1>11. left' \in 0 .. BurstMax
  BY <1>4, <1>5, <1>7, SizeFact
<1> QED
  BY <1>1, <1>3, <1>4, <1>5, <1>6, <1>7, <1>8, <1>9, <1>10, <1>11, <1>13 DEF n, m, v

(* The first word holds what is exchanged, and what comes in follows what *)
(* is in the receive FIFO.                                                *)
ShiftShape(s) ==
  /\ ShiftStep \in 1 .. s /\ rlen <= Len(bus)
  /\ tlen = Len(bus) + ShiftStep + s * (Len(txf) - 1)
  /\ ShiftStep = s \/ (rlen = Len(bus) /\ rxf = << >>)
  /\ \/ ShiftLen = ShiftStep /\ In = "in"
     \/ ShiftLen = 3 /\ ShiftStep = 4 /\ In = "in24" /\ Len(bus) % 4 = 0

(* The word that goes out is the client's, and what comes in is in order. *)
LEMMA ShiftContents ==
  ASSUME EcspiInv, HwShift, NEW s \in Strides, Contents(s), ShiftShape(s),
         Len(txf') = CeilDiv(tlen - Len(bus'), s),
         Len(rxf') = CeilDiv(Len(bus') - rlen, s)
           => Len(rxf) = CeilDiv(Len(bus) - rlen, s) /\ Len(rxf) < FifoSize
  PROVE  Contents(s)'
<1> DEFINE n == ShiftStep
           v == Outgoing(txf[1], ShiftLen)
           h == Incoming(ShiftLen, ShiftStep)
<1>1. /\ Len(txf) \in Nat /\ Len(txf) >= 1 /\ txf' \in Seq(Cell)
      /\ Len(txf') = Len(txf) - 1 /\ \A i \in 1 .. Len(txf') : txf'[i] = txf[i + 1]
      /\ n \in 1 .. 4
  BY ShiftFact
<1>2. /\ bus' \in Seq(Int) /\ Len(bus) \in Nat /\ Len(bus') = Len(bus) + n
      /\ \A p \in 1 .. Len(bus) + n :
           bus'[p] = IF p <= Len(bus) THEN bus[p] ELSE v[4 - n + (p - Len(bus))]
  BY ShiftFact
<1>3. /\ h \in Cell /\ rxf' = Fill(rxf, <<h>>)
      /\ rxf' \in Seq(Cell) /\ Len(rxf) \in Nat
  BY ShiftFact
<1>4. /\ rlen \in Int /\ tlen \in Int /\ txf \in Seq(Cell) /\ rxf \in Seq(Cell)
      /\ "out" \in Ways /\ In \in Ways
  BY WayFact DEF EcspiInv, Numbers, Stores
<1>5. UNCHANGED <<buf, rlen, tlen>>
  BY DEF HwShift
<1>6. Holds(txf[1], Len(bus), n, "out")
  <2>1. Covers(txf, Len(bus), tlen, s, "out")
    BY Zenon DEF Contents
  <2>2. n \in 1 .. s /\ tlen = Len(bus) + n + s * (Len(txf) - 1)
    BY DEF ShiftShape
  <2>3. Len(bus) \in Int
    BY <1>2
  <2>4. Cut(txf, Len(bus), tlen, s, n)
    BY <1>1, <1>4, <2>2, <2>3 DEF Cut
  <2> HIDE DEF n
  <2> QED
    BY <1>4, <2>1, <2>4, CoversHead
<1>12. In' = In
  BY DEF HwShift, lengths, thread, In
<1>13. \A c \in 1 .. 4 : c > 4 - n =>
         /\ v[c] = -Byte(In, Len(bus) + n - 4 + c)
         /\ h[c] = Byte(In, Len(bus) + n - 4 + c)
  <2>1. SUFFICES ASSUME NEW c \in 1 .. 4, c > 4 - n
                 PROVE  /\ v[c] = -Byte(In, Len(bus) + n - 4 + c)
                        /\ h[c] = Byte(In, Len(bus) + n - 4 + c)
    OBVIOUS
  <2>2. /\ v[c] = (IF c <= 4 - ShiftLen THEN 0 ELSE txf[1][c])
        /\ h[c] = (IF c <= 4 - ShiftLen THEN 0 ELSE -(Len(bus) + c + n - 4))
    BY DEF Outgoing, Incoming
  <2>3. txf[1][c] = Len(bus) + n - 4 + c
    BY <1>6, <2>1 DEF Holds, Byte
  <2>4. CASE ShiftLen = n /\ In = "in"
    BY <1>1, <1>2, <2>1, <2>2, <2>3, <2>4 DEF Byte
  <2>5. CASE ShiftLen = 3 /\ n = 4 /\ In = "in24" /\ Len(bus) % 4 = 0
    <3>1. (Len(bus) + n - 4 + c) % 4 = 1 <=> c <= 4 - ShiftLen
      <4>1. PICK m \in Int : Len(bus) = 4 * m
        BY <1>2, <2>5, WholeWords
      <4>2. \A d \in 1 .. 4 : (4 * m + d) % 4 = 1 <=> d <= 1
        OBVIOUS
      <4>3. Len(bus) + n - 4 + c = 4 * m + c /\ (c <= 4 - ShiftLen <=> c <= 1)
        BY <2>5, <4>1
      <4> QED
        BY <4>2, <4>3
    <3>2. Len(bus) + n - 4 + c = Len(bus) + c + n - 4 /\ Len(bus) + n - 4 + c \in Int
      BY <1>2, <2>5
    <3> QED
      BY <2>2, <2>3, <2>5, <3>1, <3>2 DEF Byte
  <2> QED
    BY <2>4, <2>5 DEF ShiftShape
<1> HIDE DEF n, v, h
<1>11. Len(bus) \in Int /\ Len(bus) >= 0 /\ n \in 1 .. 4
  BY <1>1, <1>2
<1>7. \A p \in 1 .. Len(bus') : bus'[p] = -Byte(In, p)
  <2>1. SUFFICES ASSUME NEW p \in 1 .. Len(bus) + n
                 PROVE  bus'[p] = -Byte(In, p)
    BY <1>2
  <2>2. CASE p <= Len(bus)
    <3>1. p \in 1 .. Len(bus)
      BY <1>2, <2>1, <2>2
    <3> QED
      BY <1>2, <2>2, <3>1 DEF Contents
  <2>3. CASE ~(p <= Len(bus))
    <3> DEFINE c == 4 - n + (p - Len(bus))
    <3>1. /\ c \in 1 .. 4 /\ c > 4 - n /\ Len(bus) + n - 4 + c = p
      BY <1>11, <2>1, <2>3
    <3>2. bus'[p] = v[c]
      BY <1>2, <2>1, <2>3
    <3> HIDE DEF c
    <3> QED
      BY <1>13, <3>1, <3>2
  <2> QED
    BY <2>2, <2>3
<1>8. Covers(txf', Len(bus'), tlen, s, "out")
  <2>1. /\ Len(bus) \in Int /\ Len(bus') \in Int /\ 1 \in 0 .. Len(txf) /\ Len(bus) <= Len(bus')
    BY <1>1, <1>2
  <2>2. Covers(txf, Len(bus), tlen, s, "out")
    BY Zenon DEF Contents
  <2> QED
    BY <1>1, <1>4, <2>1, <2>2, CoversRest
<1>9. ASSUME Len(rxf') = CeilDiv(Len(bus') - rlen, s)
      PROVE  /\ \A p \in Mem : 0 <= p /\ p < rlen => buf[p] = Byte(In, p + 1)
             /\ Covers(rxf', rlen, Len(bus'), s, In)
  <2>1. Len(rxf) = CeilDiv(Len(bus) - rlen, s) /\ Len(rxf) < FifoSize
    BY <1>9
  <2>2. /\ \A p \in Mem : 0 <= p /\ p < rlen => buf[p] = Byte(In, p + 1)
        /\ Covers(rxf, rlen, Len(bus), s, In)
    BY <2>1 DEF Contents
  <2> DEFINE g == <<h>>
  <2>3. g \in Seq(Cell) /\ Len(g) = 1 /\ g[1] = h
    BY <1>3
  <2>4. \A c \in 1 .. 4 : c > 4 - n => h[c] = Byte(In, Len(bus) + n - 4 + c)
    BY <1>13
  <2>5. rxf' = rxf \o g
    <3>1. Len(rxf) + Len(g) <= FifoSize
      BY <1>3, <2>1, <2>3, SizeFact
    <3> QED
      BY <1>3, <1>4, <2>3, <3>1, FillFact
  <2>6. CASE rlen = Len(bus) /\ rxf = << >>
    <3>1. rxf' = <<h>>
      BY <2>3, <2>5, <2>6, ConcatEmptySeq
    <3>2. n \in 1 .. s /\ Len(bus) \in Int
      BY <1>2 DEF n, ShiftShape
    <3>3. Covers(<<h>>, Len(bus), Len(bus) + n, s, In)
      BY <1>3, <1>4, <2>4, <3>2, CoversFirst
    <3> QED
      BY <1>2, <2>2, <2>6, <3>1, <3>3, Zenon
  <2>7. CASE n = s
    <3>1. \A i \in 1 .. Len(g), c \in 1 .. 4 :
             c > 4 - s => g[i][c] = Byte(In, Len(bus) + s * i - 4 + c)
      <4>1. \A i \in 1 .. Len(g) : i = 1 /\ s * i = s
        BY <2>3 DEF Strides
      <4> HIDE DEF g
      <4> QED
        BY <2>3, <2>4, <2>7, <4>1
    <3>2. Len(bus) + s * Len(g) = Len(bus') /\ Len(bus) \in Int
      BY <1>2, <2>3, <2>7 DEF Strides
    <3> HIDE DEF g
    <3>3. Covers(rxf \o g, rlen, Len(bus) + s * Len(g), s, In)
      BY <1>4, <1>11, <2>2, <2>3, <3>1, CoversAppend, Zenon DEF ShiftShape
    <3> QED
      BY <2>2, <2>5, <3>2, <3>3, Zenon
  <2> QED
    BY <2>6, <2>7 DEF n, ShiftShape
<1>10. \A p \in Mem : p >= tlen => buf[p] = p + 1
  BY DEF Contents
<1> QED
  BY <1>5, <1>7, <1>8, <1>9, <1>10, <1>12 DEF Contents

(* What is received, on the bus and sent is a number of units. *)
Aligned(s, r, l, t, lt) ==
  /\ r \in Nat /\ l \in Nat /\ t \in Nat /\ s \in Strides
  /\ t % s = 0 /\ l % s = 0 /\ r % s = 0 /\ r <= l /\ l <= t
  /\ lt = CeilDiv(t - l, s) /\ lt >= 1

(* The counters when a unit is exchanged. *)
LEMMA ShiftUnitsNumbers ==
  ASSUME NEW s, NEW r, NEW l, NEW t, NEW lt, Aligned(s, r, l, t, lt)
  PROVE  /\ t = l + s + s * (lt - 1) /\ l + s <= t /\ (l + s) % s = 0
         /\ lt - 1 = CeilDiv(t - (l + s), s)
         /\ CeilDiv((l + s) - r, s) = CeilDiv(l - r, s) + 1
<1>1. CASE s = 1
  BY <1>1 DEF CeilDiv, Aligned
<1>2. CASE s = 2
  BY <1>2 DEF CeilDiv, Aligned
<1>3. CASE s = 4
  BY <1>3 DEF CeilDiv, Aligned
<1> QED
  BY <1>1, <1>2, <1>3 DEF Strides, Aligned

(* The n bytes after l, of what has been sent up to t, make the rest of a *)
(* burst up to e whole words.                                             *)
BurstAligned(l, t, e, n, lt) ==
  /\ l \in Nat /\ t \in Nat /\ e \in Nat /\ n \in 1 .. 4
  /\ (e - t) % 4 = 0 /\ (e - l - n) % 4 = 0 /\ l < t /\ lt = CeilDiv(t - l, 4)

(* The counters when a word of a burst is exchanged. *)
LEMMA ShiftBurstNumbers ==
  ASSUME NEW l, NEW t, NEW e, NEW n, NEW lt, BurstAligned(l, t, e, n, lt)
  PROVE  /\ t = l + n + 4 * (lt - 1) /\ l + n <= t
         /\ lt - 1 = CeilDiv(t - (l + n), 4)
<1>0. l \in Nat /\ t \in Nat /\ e \in Nat /\ n \in 1 .. 4 /\ l < t /\ lt = CeilDiv(t - l, 4)
  BY DEF BurstAligned
<1>1. PICK i \in Int : e - t = 4 * i
  BY <1>0, WholeWords DEF BurstAligned
<1>2. PICK j \in Int : e - l - n = 4 * j
  BY <1>0, WholeWords DEF BurstAligned
<1> DEFINE m == j - i
<1>3. m \in Int /\ t - l = n + 4 * m /\ m >= 0
  BY <1>0, <1>1, <1>2
<1> HIDE DEF m
<1>4. lt = m + 1
  BY <1>0, <1>3 DEF CeilDiv
<1>5. t - (l + n) = 4 * m
  BY <1>0, <1>3
<1>6. CeilDiv(t - (l + n), 4) = m
  BY <1>3, <1>5 DEF CeilDiv
<1> QED
  BY <1>0, <1>3, <1>4, <1>6

(* A step of the controller. *)
LEMMA HwShiftStep ==
  ASSUME EcspiInv, HwShift
  PROVE  EcspiInv'
<1> DEFINE n == ShiftStep
<1>1. UNCHANGED <<tpc, burst, nx, result, xlen, dlen, bxlen, rlen, tlen, brlen, btlen>>
  BY DEF HwShift, thread, lengths
<1>2. UNCHANGED <<adj, pulses, ipc, count, inten, bcnt, hung, buf, late>>
  BY DEF HwShift, handler
<1>3. Flags /\ Numbers /\ Started /\ Stores /\ Exchange
  BY DEF EcspiInv
<1>4. /\ ~hung /\ xch /\ bcnt > 0
      /\ Len(txf) \in Nat /\ Len(txf) >= 1 /\ txf' \in Seq(Cell) /\ Len(txf') = Len(txf) - 1
      /\ bus' \in Seq(Int) /\ Len(bus) \in Nat /\ Len(bus') = Len(bus) + n
      /\ rxf' \in Seq(Cell) /\ Len(rxf) \in Nat /\ Len(rxf') = Least(Len(rxf) + 1, FifoSize)
      /\ left' = ShiftAll - ShiftLen /\ left' \in 0 .. BurstMax /\ n \in 1 .. 4
  BY ShiftFact
<1>5. /\ tc' = (tc \/ (left' = 0 /\ Len(txf) = 1))
      /\ xch' = ~(left' = 0 /\ Len(txf) = 1)
  BY ShiftFact
<1>6. Flags'
  <2>1. tc' \in BOOLEAN /\ xch' \in BOOLEAN
    BY <1>5
  <2> QED
    BY <1>1, <1>2, <1>3, <2>1 DEF Flags
<1>7. Started'
  BY <1>2, <1>4 DEF Started
<1>8. Numbers'
  BY <1>1, <1>2, <1>3, <1>4 DEF Numbers
<1>9. Stores'
  <2>1. Len(txf') <= FifoSize /\ Len(rxf') <= FifoSize
    BY <1>3, <1>4, SizeFact, SMTT(30) DEF Stores, Least
  <2> QED
    BY <1>2, <1>3, <1>4, <2>1 DEF Stores
<1>10. txf # << >>
  BY <1>4
<1>11. tlen \in Nat /\ xlen \in Nat /\ rlen \in Int /\ left \in Nat /\ bcnt \in Nat /\ count \in Nat
  BY <1>3, SizeFact, MaxLenFact DEF Numbers
<1> HIDE DEF n
<1>12. /\ Len(rxf') \in Nat /\ Len(rxf') >= Len(rxf) /\ Len(rxf') >= 1
       /\ Len(rxf') <= Len(rxf) + 1
       /\ Len(rxf) < FifoSize => Len(rxf') = Len(rxf) + 1
       /\ ~(Len(rxf) < FifoSize) => Len(rxf') = Len(rxf)
  BY <1>3, <1>4, SizeFact, SMTT(30) DEF Stores, Least
<1>13. rxf' # << >> /\ (txf' # << >> => Len(txf) # 1) /\ (txf' = << >> => Len(txf) = 1)
  <2>1. Len(rxf') # 0 /\ (Len(txf') = 0 <=> Len(txf) = 1)
    BY <1>4, <1>12
  <2> QED
    BY <1>4, <2>1, EmptyFact
<1>14. (tc => tc') /\ (Len(rxf) > RxMark => Len(rxf') > RxMark)
  <2>1. tc => tc'
    BY <1>5, Zenon
  <2>2. Len(rxf) > RxMark => Len(rxf') > RxMark
    BY <1>4, <1>12, SizeFact, SMTT(30)
  <2> QED
    BY <2>1, <2>2
<1>20. ASSUME ~burst PROVE UnitsInv' /\ Exchange'
  <2> DEFINE s == Stride
  <2>1. UnitsInv /\ s \in Strides /\ s' = s
    BY <1>1, <1>3, <1>20, StrideFact DEF EcspiInv, Numbers, Stride
  <2>2. ~late /\ rlen >= 0
    BY <1>4, <1>11, <2>1 DEF UnitsInv, Dead
  <2>3. tpc = "wait" /\ ~(pulses > 0) /\ Work(s) /\ UnitsWork
    BY <1>10, <2>1, <2>2 DEF UnitsInv, Rest
  <2>4. Contents(s)
    BY <1>3, <1>20, <2>2 DEF Exchange, Unit
  <2>5. /\ tlen % s = 0 /\ Len(bus) % s = 0 /\ rlen % s = 0 /\ left = 0 /\ bcnt = dlen
        /\ Len(rxf) = CeilDiv(Len(bus) - rlen, s) /\ Len(rxf) + Len(txf) <= FifoSize
    BY <2>1, <2>3 DEF UnitsInv, UnitsWork
  <2> HIDE DEF s
  <2>6. rlen <= Len(bus) /\ Len(bus) <= tlen /\ Len(txf) = CeilDiv(tlen - Len(bus), s)
    BY <2>3 DEF Work
  <2>16. /\ inten /\ (ipc = "serve" => count <= Len(rxf))
         /\ (ipc = "read" => tc \/ Len(rxf) > RxMark)
    BY <2>3, Zenon DEF Work
  <2>7. /\ n = s /\ left' = 0
        /\ \/ ShiftLen = n /\ In = "in"
           \/ ShiftLen = 3 /\ n = 4 /\ In = "in24" /\ Len(bus) % 4 = 0
    <3>1. ShiftAll = dlen /\ dlen \in 1 .. 4
      BY <1>3, <2>5 DEF ShiftAll, Numbers
    <3>2. ShiftLen = dlen
      BY <3>1 DEF ShiftLen
    <3>3. n = s
      BY <1>20 DEF n, ShiftStep, s
    <3>4. left' = 0
      BY <1>4, <3>1, <3>2
    <3>5. CASE dlen # 3
      BY <3>2, <3>3, <3>4, <3>5 DEF In, s, Stride
    <3>6. CASE dlen = 3
      <4>1. s = 4
        BY <3>6 DEF s, Stride
      <4> QED
        BY <1>20, <2>5, <3>2, <3>3, <3>4, <3>6, <4>1 DEF In
    <3> QED
      BY <3>5, <3>6
  <2>8. /\ tlen = Len(bus) + s + s * (Len(txf) - 1) /\ Len(bus) + s <= tlen
        /\ (Len(bus) + s) % s = 0
        /\ Len(txf) - 1 = CeilDiv(tlen - (Len(bus) + s), s)
        /\ CeilDiv((Len(bus) + s) - rlen, s) = CeilDiv(Len(bus) - rlen, s) + 1
    <3>1. rlen \in Nat
      BY <1>11, <2>2
    <3> QED
      <4>1. Aligned(s, rlen, Len(bus), tlen, Len(txf))
        BY <1>4, <1>11, <2>1, <2>5, <2>6, <3>1 DEF Aligned
      <4> QED
        BY <4>1, ShiftUnitsNumbers
  <2>9. Len(rxf) < FifoSize /\ Len(rxf') = Len(rxf) + 1
    BY <1>4, <1>12, <2>5, SizeFact, SMTT(30)
  <2>10. /\ Len(txf') = CeilDiv(tlen - Len(bus'), s)
         /\ Len(rxf') = CeilDiv(Len(bus') - rlen, s)
    BY <1>4, <2>5, <2>7, <2>8, <2>9
  <2>11. Contents(s)'
    <3>1. ShiftShape(s)
      <4>1. s \in 1 .. s
        BY <2>1 DEF Strides
      <4> QED
        BY <2>6, <2>7, <2>8, <4>1 DEF ShiftShape, n
    <3> QED
      BY <2>1, <2>4, <2>5, <2>9, <2>10, <3>1, ShiftContents
  <2>12. Work(s)'
    <3>1. rlen <= Len(bus') /\ Len(bus') <= tlen
      BY <1>4, <1>11, <2>6, <2>7, <2>8
    <3>2. ipc' = "read" => tc' \/ Len(rxf') > RxMark
      BY <1>2, <1>14, <2>16, Zenon
    <3>3. ipc' = "serve" => count' < Len(rxf')
      BY <1>2, <1>4, <1>11, <2>9, <2>16
    <3>4. txf' # << >> => xch'
      BY <1>5, <1>13
    <3>5. inten' /\ Len(rxf') <= CeilDiv(Len(bus') - rlen, s)
      BY <1>2, <1>12, <2>10, <2>16
    <3>6. ipc' = "serve" => count' <= Len(rxf')
      BY <1>2, <1>11, <1>12, <3>3
    <3> QED
      BY <1>1, <2>1, <2>10, <3>1, <3>2, <3>3, <3>4, <3>5, <3>6 DEF Work, RxMark
  <2>13. UnitsWork'
    <3>1. rlen < xlen /\ (ipc = "serve" => count >= 1)
      BY <2>3 DEF UnitsWork
    <3>2. Len(rxf') + Len(txf') <= FifoSize
      BY <1>4, <2>5, <2>9, SizeFact, SMTT(30)
    <3>3. txf' = << >> => tc'
      BY <1>5, <1>13, <2>7
    <3>4. Len(bus') % s = 0
      BY <1>4, <2>7, <2>8
    <3> QED
      BY <1>1, <1>2, <1>13, <2>1, <2>5, <2>7, <2>10, <3>1, <3>2, <3>3, <3>4 DEF UnitsWork, s
  <2>14. UnitsInv'
    BY <1>1, <1>2, <1>11, <2>1, <2>2, <2>3, <2>12, <2>13 DEF UnitsInv, s
  <2>15. Exchange'
    BY <1>1, <2>1, <2>3, <2>11, <1>20 DEF Exchange, Unit, s
  <2> QED
    BY <2>14, <2>15
<1>21. ASSUME burst PROVE BurstInv' /\ Exchange'
  <2>1. BurstShape /\ BurstShape'
    BY <1>1, <1>2, <1>21 DEF EcspiInv, BurstInv, BurstShape
  <2>2. ASSUME ~late, rlen >= 0
        PROVE  Work(4)' /\ BurstWork' /\ Contents(4)' /\ tpc = "wait" /\ ~(pulses > 0)
    <3>1. tpc = "wait" /\ ~(pulses > 0) /\ Work(4) /\ BurstWork
      BY <1>10, <1>21, <2>2 DEF EcspiInv, BurstInv, Rest
    <3>2. Contents(4)
      BY <1>3, <1>21, <2>2 DEF Exchange, Unit
    <3>3. /\ inten /\ (ipc = "serve" => count <= Len(rxf))
          /\ (ipc = "read" => tc \/ Len(rxf) > RxMark)
      BY <3>1, Zenon DEF Work
    <3>4. /\ rlen <= Len(bus) /\ Len(bus) <= tlen /\ Len(txf) = CeilDiv(tlen - Len(bus), 4)
          /\ Len(rxf) <= CeilDiv(Len(bus) - rlen, 4)
      BY <3>1, Zenon DEF Work
    <3> DEFINE e == BurstTo
               f == BurstFrom
    <3>5. /\ e \in Nat /\ f \in Int /\ e = f + bxlen /\ bxlen \in Nat /\ bxlen > 0
          /\ tlen <= e /\ (e - tlen) % 4 = 0
      <4>1. /\ btlen \in Nat /\ bxlen \in Nat /\ bxlen > 0 /\ btlen <= bxlen
            /\ (bxlen - btlen) % 4 = 0
        BY <1>3, <2>1, <3>1, SizeFact DEF Numbers, BurstShape
      <4>2. e = tlen + bxlen - btlen /\ f = tlen - btlen
        BY DEF BurstTo, BurstFrom
      <4> HIDE DEF e, f
      <4>3. e - tlen = bxlen - btlen
        BY <1>11, <4>1, <4>2
      <4> QED
        BY <1>11, <4>1, <4>2, <4>3
    <3>6. /\ rlen < e /\ rlen - brlen = f /\ bcnt = bxlen
          /\ Len(bus) >= f /\ left = IF Len(bus) = f THEN 0 ELSE e - Len(bus)
          /\ (Len(bus) = f => adj = bxlen % 4 /\ ~tc /\ ipc # "serve")
          /\ (Len(bus) > f => (e - Len(bus)) % 4 = 0)
          /\ brlen \in Nat
      BY <1>3, <3>1, SizeFact DEF BurstWork, Numbers
    <3> HIDE DEF e, f
    <3>7. Len(bus) < tlen
      <4>1. ASSUME ~(Len(bus) < tlen) PROVE FALSE
        <5>1. tlen - Len(bus) <= 0
          BY <1>4, <1>11, <4>1
        <5> QED
          BY <1>4, <3>4, <5>1 DEF CeilDiv
      <4> QED
        BY <4>1
    <3>8. /\ n \in 1 .. 4 /\ n <= ShiftAll /\ (ShiftAll - n) % 4 = 0
          /\ (ShiftAll % 4 = 0 => n = 4) /\ ShiftLen = n /\ In = "in"
      BY <1>21, ShiftFact DEF n, ShiftStep, In
    <3>9. ShiftAll = e - Len(bus) /\ (Len(bus) = f \/ n = 4)
      <4>1. CASE Len(bus) = f
        <5>1. ShiftAll = bxlen
          BY <3>6, <4>1 DEF ShiftAll
        <5> QED
          BY <1>4, <3>5, <4>1, <5>1
      <4>2. CASE Len(bus) # f
        <5>1. left = e - Len(bus) /\ left # 0 /\ (e - Len(bus)) % 4 = 0
          BY <1>4, <1>11, <3>5, <3>6, <3>7, <4>2, SMTT(30)
        <5>2. ShiftAll = left
          BY <5>1 DEF ShiftAll
        <5> QED
          BY <3>8, <5>1, <5>2
      <4> QED
        BY <4>1, <4>2
    <3>10. (e - Len(bus) - n) % 4 = 0 /\ left' = e - Len(bus')
      <4>1. ShiftAll - n = e - Len(bus) - n /\ e - Len(bus) - n = e - (Len(bus) + n)
        BY <1>4, <3>5, <3>8, <3>9
      <4> QED
        BY <1>4, <3>8, <3>9, <4>1
    <3>11. /\ tlen = Len(bus) + n + 4 * (Len(txf) - 1) /\ Len(bus) + n <= tlen
           /\ Len(txf) - 1 = CeilDiv(tlen - (Len(bus) + n), 4)
      <4>1. BurstAligned(Len(bus), tlen, e, n, Len(txf))
        BY <1>4, <1>11, <3>4, <3>5, <3>7, <3>8, <3>10 DEF BurstAligned
      <4> QED
        BY <4>1, ShiftBurstNumbers
    <3>12. Len(txf') = CeilDiv(tlen - Len(bus'), 4)
      BY <1>4, <3>11
    <3> DEFINE c == CeilDiv(Len(bus) - rlen, 4)
               d == CeilDiv(Len(bus') - rlen, 4)
    <3>13. /\ c \in Nat /\ d \in Nat /\ Len(rxf) <= c
           /\ Len(bus) = f => rlen = Len(bus) /\ rxf = << >> /\ Len(rxf) = 0 /\ c = 0 /\ d = 1
           /\ n = 4 => d = c + 1
      <4>1. Len(bus) - rlen \in Int /\ Len(bus) - rlen >= 0 /\ 4 \in Strides
        BY <1>4, <1>11, <3>4 DEF Strides
      <4>2. c \in Nat /\ d \in Nat
        <5>1. Len(bus') - rlen \in Int
          BY <1>4, <1>11
        <5> QED
          BY <4>1, <5>1, CeilFact
      <4>3. ASSUME n = 4 PROVE d = c + 1
        <5>1. Len(bus') - rlen = (Len(bus) - rlen) + 4 * 1 /\ 1 \in Nat
          BY <1>4, <1>11, <4>3
        <5>2. CeilDiv((Len(bus) - rlen) + 4 * 1, 4) = CeilDiv(Len(bus) - rlen, 4) + 1
          BY <4>1, <5>1, CeilPlus
        <5> QED
          BY <5>1, <5>2
      <4>4. ASSUME Len(bus) = f
            PROVE  rlen = Len(bus) /\ rxf = << >> /\ Len(rxf) = 0 /\ c = 0 /\ d = 1
        <5>1. rlen = Len(bus)
          BY <1>4, <1>11, <3>4, <3>5, <3>6, <4>4
        <5>2. Len(bus) - rlen = 0 /\ Len(bus') - rlen = n
          BY <1>4, <1>11, <5>1
        <5>3. c = 0 /\ d = 1
          BY <3>8, <5>2 DEF CeilDiv
        <5>4. Len(rxf) = 0
          BY <1>4, <3>4, <5>3
        <5> QED
          BY <1>3, <5>1, <5>3, <5>4, EmptyFact DEF Stores
      <4> QED
        BY <3>4, <4>2, <4>3, <4>4
    <3> HIDE DEF c, d
    <3>14. /\ Len(rxf') <= d
           /\ Len(rxf') = d => Len(rxf) = c /\ Len(rxf) < FifoSize
      <4>0. c \in Nat /\ d \in Nat /\ Len(rxf) <= c /\ Len(rxf) \in Nat
        BY <1>4, <3>13
      <4>1. CASE Len(bus) = f
        <5>1. Len(rxf) = 0 /\ c = 0 /\ d = 1
          BY <3>13, <4>1
        <5> QED
          BY <1>4, <1>12, <5>1, SizeFact
      <4>2. CASE n = 4
        <5>1. d = c + 1
          BY <3>13, <4>2
        <5> QED
          <6>1. Len(rxf') <= d
            BY <1>12, <4>0, <5>1
          <6>2. CASE Len(rxf) < FifoSize
            BY <1>12, <4>0, <5>1, <6>1, <6>2
          <6>3. CASE ~(Len(rxf) < FifoSize)
            BY <1>12, <4>0, <5>1, <6>1, <6>3
          <6> QED
            BY <6>2, <6>3
      <4> QED
        BY <3>9, <4>1, <4>2
    <3>15. Contents(4)'
      <4>1. ShiftShape(4)
        BY <3>4, <3>8, <3>9, <3>11, <3>13 DEF ShiftShape, n
      <4>2. Len(rxf') = CeilDiv(Len(bus') - rlen, 4)
              => Len(rxf) = CeilDiv(Len(bus) - rlen, 4) /\ Len(rxf) < FifoSize
        BY <3>14 DEF c, d
      <4>3. 4 \in Strides
        BY DEF Strides
      <4> QED
        BY <3>2, <3>12, <4>1, <4>2, <4>3, ShiftContents
    <3>16. Work(4)'
      <4>1. rlen <= Len(bus') /\ Len(bus') <= tlen
        BY <1>4, <1>11, <3>4, <3>8, <3>11
      <4>2. ipc' = "read" => tc' \/ Len(rxf') > RxMark
        BY <1>2, <1>14, <3>3, Zenon
      <4>3. ipc' = "serve" => count' <= Len(rxf') /\ (count' < Len(rxf') \/ Len(rxf') # d)
        BY <1>2, <1>4, <1>11, <1>12, <3>3, <3>14, SizeFact, SMTT(30)
      <4>4. txf' # << >> => xch'
        BY <1>5, <1>13, Zenon
      <4> QED
        BY <1>1, <1>2, <3>3, <3>12, <3>14, <4>1, <4>2, <4>3, <4>4 DEF Work, RxMark, d
    <3>17. BurstWork'
      <4>1. e' = e /\ f' = f /\ InStep' = InStep
        BY <1>1, <1>2 DEF e, f, BurstTo, BurstFrom, InStep
      <4>2. /\ Len(bus') > f /\ Len(bus') >= f /\ Len(bus') # f
        <5>1. Len(bus) >= f /\ f \in Int /\ n \in 1 .. 4 /\ Len(bus) \in Nat
          BY <1>4, <3>5, <3>6, <3>8
        <5> QED
          BY <1>4, <5>1, SMTT(30)
      <4>3. (e - Len(bus')) % 4 = 0
        <5>1. e - Len(bus) - n = e - Len(bus')
          BY <1>4, <3>5, <3>8
        <5> QED
          BY <3>10, <5>1
      <4>4. /\ rlen < e /\ rlen - brlen = f /\ bcnt = bxlen
            /\ InStep /\ (e - rlen - adj) % 4 = 0
            /\ (adj # 0 => rlen = f) /\ (adj # 0 /\ ipc = "serve" => count >= 1)
        BY <3>1, Zenon DEF BurstWork, e, f
      <4> QED
        BY <1>1, <1>2, <1>13, <3>10, <4>1, <4>2, <4>3, <4>4 DEF BurstWork, e, f
    <3> QED
      BY <3>1, <3>15, <3>16, <3>17
  <2>5. ~late
    BY <1>21 DEF EcspiInv, BurstInv
  <2>3. BurstInv'
    BY <1>1, <1>2, <2>1, <2>2, <2>5 DEF BurstInv
  <2>4. Exchange'
    BY <1>1, <1>2, <1>21, <2>2 DEF Exchange, Unit
  <2> QED
    BY <2>3, <2>4
<1> QED
  BY <1>1, <1>6, <1>7, <1>8, <1>9, <1>20, <1>21, <1>3 DEF EcspiInv, Flags

-----------------------------------------------------------------------------
(***************************************************************************)
(* The handler serves the interrupt, without bursts.                       *)
(***************************************************************************)
(* The counters when c units are read: lr are in the receive FIFO, lt in   *)
(* the transmit FIFO.                                                      *)
UnitsAt(s, x, r, l, t, c, lr, lt) ==
  /\ s \in Strides /\ x \in Nat /\ r \in Nat /\ l \in Nat /\ t \in Nat
  /\ r % s = 0 /\ l % s = 0 /\ t % s = 0 /\ r <= l /\ l <= t /\ t < x + s
  /\ lr = CeilDiv(l - r, s) /\ lt = CeilDiv(t - l, s) /\ c \in 1 .. lr

(* In numbers of units. *)
LEMMA UnitsCounts ==
  ASSUME NEW s, NEW x, NEW r, NEW l, NEW t, NEW c, NEW lr, NEW lt,
         UnitsAt(s, x, r, l, t, c, lr, lt)
  PROVE  /\ \E i \in Nat : r = s * i
         /\ lr \in Nat /\ lt \in Nat /\ l = r + s * lr /\ t = l + s * lt
         /\ CeilDiv(x - t, s) \in Nat
         /\ CeilDiv(x - t, s) = 0 <=> t >= x
         /\ t < x => s * CeilDiv(x - t, s) < x - t + s
<1> USE DEF UnitsAt
<1>1. CASE s = 1
  BY <1>1 DEF CeilDiv
<1>2. CASE s = 2
  <2>1. /\ lr \in Nat /\ lt \in Nat /\ l = r + s * lr /\ t = l + s * lt
    BY <1>2 DEF CeilDiv
  <2>2. \E i \in Nat : r = s * i
    BY <1>2
  <2> QED
    BY <1>2, <2>1, <2>2 DEF CeilDiv
<1>3. CASE s = 4
  <2>1. /\ lr \in Nat /\ lt \in Nat /\ l = r + s * lr /\ t = l + s * lt
    BY <1>3 DEF CeilDiv
  <2>2. \E i \in Nat : r = s * i
    BY <1>3
  <2> QED
    BY <1>3, <2>1, <2>2 DEF CeilDiv
<1> QED
  BY <1>1, <1>2, <1>3 DEF Strides

(* A number of units. *)
LEMMA UnitsMultiple ==
  ASSUME NEW s \in Strides, NEW i \in Nat
  PROVE  s * i \in Nat /\ (s * i) % s = 0 /\ CeilDiv(s * i, s) = i
<1>1. CASE s = 1
  BY <1>1 DEF CeilDiv
<1>2. CASE s = 2
  BY <1>2 DEF CeilDiv
<1>3. CASE s = 4
  BY <1>3 DEF CeilDiv
<1> QED
  BY <1>1, <1>2, <1>3 DEF Strides

(* As many are sent, if there are: k; the counters are then u and v. *)
UnitsServed(s, x, r, t, c, k, u, v) ==
  k = Least(c, CeilDiv(x - t, s)) /\ u = r + c * s /\ v = t + k * s

(* The counters stay aligned; the transfer is done when all is received. *)
UnitsNext(s, x, r, l, t, c, lr, lt, k, u, v) ==
  /\ k \in Nat /\ k <= c /\ u \in Nat /\ v \in Nat /\ u = r + s * c /\ v = t + s * k
  /\ u % s = 0 /\ v % s = 0 /\ u <= l /\ t <= v /\ v < x + s
  /\ l = r + s * lr /\ lr - c = CeilDiv(l - u, s) /\ lt + k = CeilDiv(v - l, s)
  /\ u >= x => u = l /\ v = u /\ lt = 0 /\ c = lr
  /\ lt + k = 0 /\ c = lr => u >= x

(* What the handler does to the counters. *)
LEMMA ServeUnitsNumbers ==
  ASSUME NEW s, NEW x, NEW r, NEW l, NEW t, NEW c, NEW lr, NEW lt, NEW k, NEW u, NEW v,
         UnitsAt(s, x, r, l, t, c, lr, lt), UnitsServed(s, x, r, t, c, k, u, v)
  PROVE  UnitsNext(s, x, r, l, t, c, lr, lt, k, u, v)
<1> DEFINE q == CeilDiv(x - t, s)
<1>1. PICK i \in Nat : r = s * i
  BY UnitsCounts
<1>2. /\ lr \in Nat /\ lt \in Nat /\ l = r + s * lr /\ t = l + s * lt
      /\ q \in Nat /\ (q = 0 <=> t >= x) /\ (t < x => s * q < x - t + s)
  BY UnitsCounts
<1>3. /\ s \in Strides /\ x \in Nat /\ c \in Nat /\ c >= 1 /\ c <= lr /\ t < x + s
  BY <1>2 DEF UnitsAt
<1>4. k = Least(c, q) /\ u = r + c * s /\ v = t + k * s
  BY DEF UnitsServed
<1> HIDE DEF q
<1>5. k \in Nat /\ k <= c /\ k <= q /\ (k = c \/ k = q)
  BY <1>2, <1>3, <1>4 DEF Least
<1> DEFINE m == i + c
           w == i + lr + lt + k
<1>6. u = s * m /\ v = s * w /\ l = s * (i + lr) /\ t = s * (i + lr + lt) /\ u = r + s * c /\ v = t + s * k
      /\ l - u = s * (lr - c) /\ v - l = s * (lt + k)
  <2>1. CASE s = 1
    BY <1>1, <1>2, <1>3, <1>4, <1>5, <2>1
  <2>2. CASE s = 2
    BY <1>1, <1>2, <1>3, <1>4, <1>5, <2>2
  <2>3. CASE s = 4
    BY <1>1, <1>2, <1>3, <1>4, <1>5, <2>3
  <2> QED
    BY <1>3, <2>1, <2>2, <2>3 DEF Strides
<1>7. m \in Nat /\ w \in Nat /\ lr - c \in Nat /\ lt + k \in Nat
  BY <1>1, <1>2, <1>3, <1>5
<1>8. u \in Nat /\ v \in Nat /\ u % s = 0 /\ v % s = 0
      /\ lr - c = CeilDiv(l - u, s) /\ lt + k = CeilDiv(v - l, s)
  <2> HIDE DEF m, w
  <2>1. /\ s * m \in Nat /\ (s * m) % s = 0 /\ s * w \in Nat /\ (s * w) % s = 0
        /\ CeilDiv(s * (lr - c), s) = lr - c /\ CeilDiv(s * (lt + k), s) = lt + k
    BY <1>3, <1>7, UnitsMultiple
  <2> QED
    BY <1>6, <2>1
<1>9. /\ u <= l /\ t <= v /\ v < x + s
      /\ u >= x => u = l /\ v = u /\ lt = 0 /\ c = lr
      /\ lt + k = 0 /\ c = lr => u >= x
  <2> HIDE DEF m, w
  <2>1. m = i + c /\ w = i + lr + lt + k
    BY DEF m, w
  <2>2. u <= l /\ t <= v
    <3>1. CASE s = 1
      BY <1>3, <1>5, <1>6, <1>7, <1>1, <1>2, <2>1, <3>1
    <3>2. CASE s = 2
      BY <1>3, <1>5, <1>6, <1>7, <1>1, <1>2, <2>1, <3>2
    <3>3. CASE s = 4
      BY <1>3, <1>5, <1>6, <1>7, <1>1, <1>2, <2>1, <3>3
    <3> QED
      BY <1>3, <3>1, <3>2, <3>3 DEF Strides
  <2>3. t \in Nat /\ l \in Nat /\ r \in Nat
    BY DEF UnitsAt
  <2>4. v < x + s
    <3>0. CASE t >= x
      <4>1. k = 0
        BY <1>2, <1>5, <3>0
      <4>2. v = t
        BY <1>3, <1>6, <2>3, <4>1 DEF Strides
      <4> QED
        BY <1>3, <4>2
    <3>1. CASE t < x
      <4>1. s * q < x - t + s /\ k \in Nat /\ k <= q /\ q \in Nat /\ v = t + s * k
        BY <1>2, <1>5, <1>6, <3>1
      <4>2. s * k <= s * q
        BY <1>3, <4>1 DEF Strides
      <4>3. s * k \in Int /\ s * q \in Int /\ s \in Int
        BY <1>3, <4>1 DEF Strides
      <4> QED
        BY <1>3, <2>3, <4>1, <4>2, <4>3
    <3> QED
      BY <1>3, <2>3, <3>0, <3>1
  <2>5. ASSUME u >= x PROVE u = l /\ v = u /\ lt = 0 /\ c = lr
    <3>1. t >= x /\ u \in Nat
      BY <1>3, <1>8, <2>2, <2>3, <1>2, <2>5 DEF UnitsAt
    <3>2. k = 0
      BY <1>2, <1>5, <3>1
    <3>3. s * (i + lr + lt) < s * (i + c) + s
      BY <1>3, <1>6, <1>8, <2>1, <2>3, <2>5 DEF Strides
    <3>4. i + lr + lt < i + c + 1
      <4>1. CASE s = 1
        BY <1>1, <1>2, <1>3, <3>3, <4>1
      <4>2. CASE s = 2
        BY <1>1, <1>2, <1>3, <3>3, <4>2
      <4>3. CASE s = 4
        BY <1>1, <1>2, <1>3, <3>3, <4>3
      <4> QED
        BY <1>3, <4>1, <4>2, <4>3 DEF Strides
    <3>5. lt = 0 /\ c = lr
      BY <1>1, <1>2, <1>3, <3>4
    <3>6. w = m /\ m = i + lr
      BY <1>1, <1>2, <2>1, <3>2, <3>5
    <3> QED
      BY <1>6, <3>5, <3>6
  <2>6. ASSUME lt + k = 0, c = lr PROVE u >= x
    <3>1. lt = 0 /\ k = 0
      BY <1>2, <1>5, <2>6
    <3>2. t >= x
      BY <1>2, <1>3, <1>5, <3>1
    <3>3. i + lr + lt = i + c
      BY <1>1, <1>2, <2>6, <3>1
    <3> QED
      BY <1>6, <2>1, <3>2, <3>3
  <2> QED
    BY <2>2, <2>4, <2>5, <2>6
<1> QED
  BY <1>2, <1>5, <1>6, <1>8, <1>9 DEF UnitsNext

(* The words read are in the buffer. *)
LEMMA ServeUnitsBuffer ==
  ASSUME Stores, NEW s \in Strides, NEW c \in Nat, c <= Len(rxf), rlen \in Nat
  PROVE  /\ Stored(buf, rlen, s, Read(c)) \in [Mem -> Int]
         /\ \A q \in Mem : q < rlen \/ q >= rlen + s * c
              => Stored(buf, rlen, s, Read(c))[q] = buf[q]
<1>1. Read(c) \in Seq(Cell) /\ Len(Read(c)) = c
  BY ReadFact DEF Stores
<1>2. s \in 1 .. 4 /\ rlen \in Int /\ buf \in [Mem -> Int]
  BY DEF Strides, Stores
<1>3. /\ Stored(buf, rlen, s, Read(c)) \in [Mem -> Int]
      /\ \A q \in Mem : q < rlen \/ q >= rlen + s * Len(Read(c))
           => Stored(buf, rlen, s, Read(c))[q] = buf[q]
  BY <1>1, <1>2, StoredFact, Zenon
<1> QED
  BY <1>1, <1>3, Zenon

(* They hold what the slave sent. *)
LEMMA ServeUnitsBytes ==
  ASSUME Stores, NEW s \in Strides, NEW c \in Nat, c <= Len(rxf), rlen \in Nat,
         Covers(rxf, rlen, Len(bus), s, In), Len(bus) = rlen + s * Len(rxf)
  PROVE  \A q \in Mem : rlen <= q /\ q < rlen + s * c
                          => Stored(buf, rlen, s, Read(c))[q] = Byte(In, q + 1)
<1>1. Read(c) \in Seq(Cell) /\ Len(Read(c)) = c /\ \A i \in 1 .. c : Read(c)[i] = rxf[i]
  BY ReadFact DEF Stores
<1>2. s \in 1 .. 4 /\ rlen \in Int /\ buf \in [Mem -> Int] /\ rxf \in Seq(Cell)
  BY DEF Strides, Stores
<1>3. Len(bus) \in Int /\ In \in Ways
  BY WayFact DEF Stores
<1>4. \A i \in 1 .. Len(rxf), d \in 1 .. 4 :
         d > 4 - s => rxf[i][d] = Byte(In, rlen + s * i - 4 + d)
  BY <1>2, <1>3, CoversWhole, ZenonT(30)
<1>5. \A i \in 1 .. Len(Read(c)), d \in 1 .. 4 :
         d > 4 - s => Read(c)[i][d] = Byte(In, rlen + s * i - 4 + d)
  <2>1. \A i \in 1 .. c : i \in 1 .. Len(rxf)
    BY <1>2
  <2> QED
    BY <1>1, <1>4, <2>1
<1>6. \A q \in Mem : rlen <= q /\ q < rlen + s * Len(Read(c))
                        => Stored(buf, rlen, s, Read(c))[q] = Byte(In, q + 1)
  BY <1>1, <1>2, <1>3, <1>5, StoredBytes
<1> QED
  BY <1>1, <1>6

(* The handler serves the interrupt, without bursts. *)
LEMMA ServeUnitsStep ==
  ASSUME EcspiInv, IsrServe, ~burst
  PROVE  EcspiInv'
<1> DEFINE s == Stride
           k == Least(count, CeilDiv(xlen - tlen, s))
           b == Stored(buf, rlen, s, Read(count))
           g == Words(b, tlen, s, k)
<1>1. /\ ipc = "serve" /\ ipc' = "idle" /\ count' = 0
      /\ rlen' = rlen + count * s /\ rxf' = Left(count) /\ buf' = b
      /\ txf' = Fill(txf, g) /\ tlen' = tlen + k * s
      /\ UNCHANGED <<tpc, burst, nx, result, xlen, dlen, bxlen, tc, bcnt, left, hung>>
      /\ UNCHANGED <<bus, late, brlen, btlen, adj>>
  BY DEF IsrServe, IsrUnits, thread, lengths
<1>2. \/ rlen' >= xlen /\ inten' = FALSE /\ pulses' = Least(pulses + 1, MaxPulses) /\ xch' = xch
      \/ ~(rlen' >= xlen) /\ xch' = TRUE /\ inten' = inten /\ pulses' = pulses
  BY DEF IsrServe, IsrUnits, Finish, Pulse
<1>3. Flags /\ Numbers /\ Started /\ Stores /\ Exchange /\ UnitsInv
  BY DEF EcspiInv
<1>4. s \in Strides /\ s' = s
  BY <1>1, <1>3, StrideFact DEF Numbers, Stride
<1>5. xlen \in Nat /\ xlen <= MaxLen /\ tlen \in Nat /\ rlen \in Int /\ count \in Nat
  BY <1>3, MaxLenFact, SizeFact DEF Numbers
<1>6. ~late /\ rlen >= 0 /\ rlen \in Nat
  BY <1>1, <1>3, <1>5 DEF UnitsInv, Dead
<1>7. tpc = "wait" /\ ~(pulses > 0) /\ Work(s) /\ UnitsWork
  BY <1>1, <1>3, <1>6 DEF UnitsInv, Rest
<1>8. /\ rlen < xlen /\ rlen % s = 0 /\ Len(bus) % s = 0 /\ tlen % s = 0 /\ tlen < xlen + s
      /\ Len(rxf) = CeilDiv(Len(bus) - rlen, s) /\ Len(rxf) + Len(txf) <= FifoSize
      /\ left = 0 /\ bcnt = dlen /\ (tc => rxf # << >>) /\ count >= 1 /\ adj = 0
      /\ (txf = << >> => tc \/ count = Len(rxf))
  BY <1>1, <1>3, <1>7 DEF UnitsWork, UnitsInv
<1> HIDE DEF s
<1>9. /\ inten /\ rlen <= Len(bus) /\ Len(bus) <= tlen /\ Len(txf) = CeilDiv(tlen - Len(bus), s)
      /\ count <= Len(rxf) /\ (tc => count < Len(rxf))
  BY <1>1, <1>7, <1>8, Zenon DEF Work
<1>10. Len(bus) \in Nat /\ Len(txf) \in Nat /\ Len(rxf) \in Nat
  BY <1>3 DEF Stores
<1>11. UnitsAt(s, xlen, rlen, Len(bus), tlen, count, Len(rxf), Len(txf))
  BY <1>4, <1>5, <1>6, <1>8, <1>9, <1>10 DEF UnitsAt
<1>12. /\ k \in Nat /\ k <= count /\ rlen' \in Nat /\ tlen' \in Nat
       /\ rlen' = rlen + s * count /\ tlen' = tlen + s * k
       /\ rlen' % s = 0 /\ tlen' % s = 0 /\ rlen' <= Len(bus) /\ tlen <= tlen'
       /\ tlen' < xlen + s
       /\ Len(bus) = rlen + s * Len(rxf) /\ Len(rxf) - count = CeilDiv(Len(bus) - rlen', s)
       /\ Len(txf) + k = CeilDiv(tlen' - Len(bus), s)
       /\ rlen' >= xlen => rlen' = Len(bus) /\ tlen' = rlen' /\ Len(txf) = 0 /\ count = Len(rxf)
       /\ Len(txf) + k = 0 /\ count = Len(rxf) => rlen' >= xlen
  <2>1. UnitsServed(s, xlen, rlen, tlen, count, k, rlen', tlen')
    BY <1>1 DEF UnitsServed
  <2> HIDE DEF k
  <2> QED
    <3>1. UnitsNext(s, xlen, rlen, Len(bus), tlen, count, Len(rxf), Len(txf), k, rlen', tlen')
      BY <1>11, <2>1, ServeUnitsNumbers
    <3> QED
      BY <3>1, Zenon DEF UnitsNext
<1> HIDE DEF k
<1>13. tlen' <= MaxLen + 3
  BY <1>4, <1>5, <1>12, MaxLenFact DEF Strides
<1>14. /\ b \in [Mem -> Int]
       /\ \A q \in Mem : q < rlen \/ q >= rlen' => b[q] = buf[q]
  <2>1. rlen' = rlen + s * count
    BY <1>12
  <2> QED
    BY <1>3, <1>4, <1>5, <1>6, <1>9, <2>1, ServeUnitsBuffer
<1> HIDE DEF b
<1>15. tlen \in Int /\ tlen >= 0 /\ tlen + s * k <= MaxLen + 4
  BY <1>5, <1>12, <1>13, MaxLenFact
<1>16. g \in Seq(Cell) /\ Len(g) = k
  BY <1>4, <1>12, <1>14, <1>15, WordsFact, Zenon
<1> HIDE DEF g
<1>17. txf' = txf \o g /\ txf' \in Seq(Cell) /\ Len(txf') = Len(txf) + k
  <2>1. Len(txf) + Len(g) <= FifoSize
    BY <1>5, <1>8, <1>9, <1>10, <1>12, <1>16, SizeFact, SMTT(30)
  <2>2. Fill(txf, g) = txf \o g
    BY <1>3, <1>16, <2>1, FillFact DEF Stores
  <2> QED
    BY <1>1, <1>3, <1>16, <2>2, ConcatProperties DEF Stores
<1>18. rxf' \in Seq(Cell) /\ Len(rxf') = Len(rxf) - count
       /\ \A i \in 1 .. Len(rxf') : rxf'[i] = rxf[i + count]
  BY <1>1, <1>3, <1>5, <1>9, LeftFact DEF Stores
<1>19. /\ rlen' \in Nat /\ rlen <= rlen' /\ rlen' <= Len(bus) /\ Len(bus) <= tlen /\ tlen <= tlen'
       /\ tlen' \in Nat /\ k \in Nat /\ k <= count /\ count \in Nat /\ count <= Len(rxf)
       /\ Len(rxf) + Len(txf) <= FifoSize
  <2>1. s * count \in Nat
    BY <1>4, <1>5 DEF Strides
  <2> QED
    BY <1>5, <1>8, <1>9, <1>12, <2>1
<1>20. Flags'
  BY <1>1, <1>2, <1>3 DEF Flags
<1>21. Started'
  BY <1>1, <1>3, <1>8 DEF Started, Numbers
<1>22. Numbers'
  <2>1. pulses' \in 0 .. MaxPulses
    BY <1>2, <1>3, SizeFact DEF Numbers, Least
  <2>2. rlen' \in -1 .. MaxLen + 3 /\ tlen' \in 0 .. MaxLen + 3 /\ count' \in 0 .. FifoSize
    BY <1>1, <1>10, <1>13, <1>19, <1>5, SizeFact, MaxLenFact
  <2> QED
    BY <1>1, <1>3, <2>1, <2>2 DEF Numbers
<1>23. Stores'
  <2>1. Len(txf') <= FifoSize /\ Len(rxf') <= FifoSize
    BY <1>10, <1>17, <1>18, <1>19, SizeFact
  <2> QED
    BY <1>1, <1>3, <1>14, <1>17, <1>18, <2>1 DEF Stores
<1>24. Contents(s)
  BY <1>3, <1>6 DEF Exchange, Unit, s
<1>25. Contents(s)'
  <2>1. Covers(rxf, rlen, Len(bus), s, In)
    BY <1>8, <1>24, Zenon DEF Contents
  <2>2. \A p \in 1 .. Len(bus') : bus'[p] = -Byte(In, p)
    BY <1>1, <1>24 DEF Contents
  <2>3. Mem \subseteq Int
    BY MaxLenFact DEF Mem
  <2>4. \A p \in Mem : p >= tlen => b[p] = p + 1
    <3>1. \A p \in Mem : p >= tlen => buf[p] = p + 1
      BY <1>24 DEF Contents
    <3>2. \A p \in Mem : p >= tlen => p >= rlen'
      BY <1>5, <1>9, <1>10, <1>12, <2>3
    <3> QED
      BY <1>14, <3>1, <3>2
  <2>5. \A p \in Mem : p >= tlen' => buf'[p] = p + 1
    BY <1>1, <1>5, <1>12, <2>3, <2>4
  <2>6. Covers(txf', Len(bus), tlen', s, "out")
    <3>1. Covers(txf, Len(bus), tlen, s, "out")
      BY <1>24, Zenon DEF Contents
    <3>2. Len(bus) \in Int /\ txf \in Seq(Cell)
      BY <1>3, <1>10 DEF Stores
    <3>3. Covers(txf \o Words(b, tlen, s, k), Len(bus), tlen + s * k, s, "out")
      BY <1>4, <1>5, <1>9, <1>12, <1>14, <1>15, <2>4, <3>1, <3>2, SendCovers
    <3> QED
      BY <1>12, <1>17, <3>3 DEF g
  <2>7. \A p \in Mem : 0 <= p /\ p < rlen' => buf'[p] = Byte(In, p + 1)
    <3>1. \A p \in Mem : 0 <= p /\ p < rlen => buf[p] = Byte(In, p + 1)
      BY <1>8, <1>24 DEF Contents
    <3>2. \A p \in Mem : rlen <= p /\ p < rlen' => b[p] = Byte(In, p + 1)
      <4>1. Len(bus) = rlen + s * Len(rxf) /\ rlen' = rlen + s * count
        BY <1>12
      <4>2. \A q \in Mem : rlen <= q /\ q < rlen + s * count
                              => Stored(buf, rlen, s, Read(count))[q] = Byte(In, q + 1)
        BY <1>3, <1>4, <1>5, <1>6, <1>9, <2>1, <4>1, ServeUnitsBytes
      <4> QED
        BY <4>1, <4>2 DEF b
    <3> QED
      BY <1>1, <1>6, <1>14, <1>19, <2>3, <3>1, <3>2
  <2>8. Covers(rxf', rlen', Len(bus), s, In)
    <3>1. /\ rlen \in Int /\ rlen' \in Int /\ Len(bus) \in Int /\ In \in Ways
          /\ count \in 0 .. Len(rxf) /\ rlen <= rlen' /\ Len(rxf') = CeilDiv(Len(bus) - rlen', s)
          /\ rxf \in Seq(Cell)
      <4>1. Len(rxf') = CeilDiv(Len(bus) - rlen', s)
        BY <1>12, <1>18
      <4> QED
        BY <1>3, <1>5, <1>10, <1>19, <4>1, WayFact DEF Stores
    <3> QED
      BY <1>4, <1>18, <2>1, <3>1, CoversRest
  <2> QED
    BY <1>1, <1>4, <2>2, <2>5, <2>6, <2>7, <2>8 DEF Contents, In
<1>26. Exchange'
  BY <1>1, <1>4, <1>7, <1>25 DEF Exchange, Unit, s
<1>27. ASSUME rlen' >= xlen PROVE Rest' /\ pulses' > 0
  <2>1. inten' = FALSE /\ pulses' = 1
    BY <1>2, <1>3, <1>7, <1>27, SizeFact DEF Least, Numbers
  <2>2. /\ rlen' = Len(bus) /\ tlen' = rlen' /\ Len(txf) = 0 /\ count = Len(rxf)
    BY <1>12, <1>27
  <2>3. ~tc
    BY <1>9, <1>10, <2>2
  <2>4. Len(txf') = 0 /\ Len(rxf') = 0
    <3>1. tlen' - Len(bus) = 0
      BY <1>10, <2>2
    <3>2. Len(txf) + k = 0
      BY <1>12, <3>1 DEF CeilDiv
    <3> QED
      BY <1>10, <1>17, <1>18, <2>2, <3>2
  <2>5. txf' = << >> /\ rxf' = << >>
    BY <1>17, <1>18, <2>4, EmptyFact
  <2> QED
    BY <1>1, <1>7, <1>8, <2>1, <2>2, <2>3, <2>5 DEF Rest
<1>28. ASSUME ~(rlen' >= xlen) PROVE Work(s)' /\ UnitsWork' /\ ~(pulses' > 0)
  <2>1. xch' = TRUE /\ inten' /\ ~(pulses' > 0)
    BY <1>2, <1>7, <1>9, <1>28
  <2>2. Work(s)'
    <3>1. Len(bus) <= tlen' /\ Len(rxf') <= Len(rxf')
      BY <1>5, <1>9, <1>10, <1>12, <1>18, SMTT(30)
    <3>2. ipc' # "read" /\ ipc' # "serve"
      BY <1>1
    <3> QED
      BY <1>1, <1>4, <1>12, <1>17, <1>18, <2>1, <3>1, <3>2 DEF Work
  <2>3. tc => rxf' # << >>
    <3>1. tc => Len(rxf') # 0
      BY <1>5, <1>9, <1>10, <1>18
    <3> QED
      BY <1>18, <3>1, EmptyFact
  <2>4. txf' = << >> => tc
    <3>1. SUFFICES ASSUME txf' = << >>, ~tc PROVE FALSE
      OBVIOUS
    <3>2. Len(txf) = 0 /\ Len(txf) + k = 0
      BY <1>10, <1>12, <1>17, <3>1
    <3>3. count = Len(rxf)
      BY <1>3, <1>8, <3>1, <3>2, EmptyFact DEF Stores
    <3> QED
      BY <1>12, <1>28, <3>2, <3>3
  <2>5. rlen' < xlen
    BY <1>5, <1>12, <1>28
  <2>6. Len(rxf') + Len(txf') <= FifoSize
    BY <1>10, <1>17, <1>18, <1>19, SizeFact
  <2>7. Len(rxf') = CeilDiv(Len(bus) - rlen', s) /\ rlen' % s = 0
    BY <1>12, <1>18
  <2>8. UnitsWork'
    BY <1>1, <1>4, <1>8, <2>3, <2>4, <2>5, <2>6, <2>7 DEF UnitsWork, s
  <2> QED
    BY <2>1, <2>2, <2>8
<1>29. UnitsInv'
  BY <1>1, <1>4, <1>6, <1>7, <1>8, <1>12, <1>27, <1>28 DEF UnitsInv, s
<1> QED
  BY <1>1, <1>20, <1>21, <1>22, <1>23, <1>26, <1>29 DEF EcspiInv

-----------------------------------------------------------------------------
(***************************************************************************)
(* The handler serves the interrupt, with bursts: the counters.            *)
(***************************************************************************)
(* The cut word, what is read after it, and how much at most. *)
First == IF adj = 0 THEN 0 ELSE 1
More  == Min({CeilDiv(xlen - (rlen + adj), 4), CeilDiv(tlen - (rlen + adj), 4),
              CeilDiv(bxlen - (brlen + adj), 4)})
Taken == IF count < First THEN More ELSE Least(count - First, More)

(* Division upwards by four. *)
LEMMA CeilWords ==
  ASSUME NEW a \in Int
  PROVE  /\ CeilDiv(a, 4) \in Nat
         /\ \A m \in Nat : a = 4 * m => CeilDiv(a, 4) = m
         /\ \A m \in Nat : a >= 4 * m => CeilDiv(a, 4) >= m
         /\ a <= 0 => CeilDiv(a, 4) = 0
         /\ a > 0 => 4 * CeilDiv(a, 4) < a + 4
  BY DEF CeilDiv

(* How many words are read after the cut one. *)
LEMMA TakenFact ==
  ASSUME Numbers
  PROVE  /\ First \in 0 .. 1 /\ Taken \in Nat
         /\ Taken <= CeilDiv(xlen - (rlen + adj), 4)
         /\ Taken <= CeilDiv(tlen - (rlen + adj), 4)
         /\ Taken <= CeilDiv(bxlen - (brlen + adj), 4)
         /\ ~(count < First) /\ count - First <= More => Taken = count - First
<1>0. /\ count \in Nat /\ xlen \in Int /\ rlen \in Int /\ adj \in Int /\ tlen \in Int
      /\ bxlen \in Int /\ brlen \in Int
  BY SizeFact, MaxLenFact DEF Numbers
<1> DEFINE p == CeilDiv(xlen - (rlen + adj), 4)
           q == CeilDiv(tlen - (rlen + adj), 4)
           r == CeilDiv(bxlen - (brlen + adj), 4)
<1>1. p \in Nat /\ q \in Nat /\ r \in Nat
  BY <1>0, CeilWords
<1>2. More = Min({p, q, r})
  BY DEF More
<1> HIDE DEF p, q, r
<1>3. Min({p, q, r}) \in {p, q, r} /\ Min({p, q, r}) <= p /\ Min({p, q, r}) <= q /\ Min({p, q, r}) <= r
  <2>1. p \in Int /\ q \in Int /\ r \in Int
    BY <1>1
  <2> QED
    BY <2>1, Min3Fact, Zenon
<1>4. More \in Nat /\ More <= p /\ More <= q /\ More <= r
  BY <1>1, <1>2, <1>3
<1>5. First \in 0 .. 1
  BY DEF First
<1>6. Taken \in Nat /\ Taken <= More /\ (~(count < First) /\ count - First <= More => Taken = count - First)
  BY <1>0, <1>4, <1>5 DEF Taken, Least
<1>7. Taken <= p /\ Taken <= q /\ Taken <= r
  BY <1>1, <1>4, <1>6
<1> QED
  BY <1>5, <1>6, <1>7 DEF p, q, r

(* How many words are sent. *)
LEMMA RefillFact ==
  ASSUME Numbers, Stores, BurstShape
  PROVE  /\ Refill \in Nat /\ Refill + Len(txf) <= FifoSize
         /\ bxlen = 0 => Refill = 0
         /\ bxlen > 0 => /\ 4 * Refill <= bxlen - btlen
                         /\ (bxlen - (btlen + 4 * Refill)) % 4 = 0
<1>0. /\ bxlen \in Nat /\ btlen \in Nat /\ Len(txf) \in Nat /\ Len(txf) <= FifoSize
      /\ FifoSize \in Nat
  BY SizeFact DEF Numbers, Stores
<1> DEFINE c == CeilDiv(bxlen - btlen, 4)
<1>1. c \in Nat /\ (bxlen = 0 => c = 0)
  <2>1. bxlen - btlen \in Int /\ (bxlen = 0 => bxlen - btlen <= 0)
    BY <1>0
  <2> QED
    BY <2>1, CeilWords
<1>2. Refill = Least(c, FifoSize - Len(txf))
  BY DEF Refill
<1> HIDE DEF c
<1>3. Refill \in Nat /\ Refill <= c /\ Refill + Len(txf) <= FifoSize
  BY <1>0, <1>1, <1>2 DEF Least
<1>4. ASSUME bxlen > 0
      PROVE  /\ 4 * Refill <= bxlen - btlen
             /\ (bxlen - (btlen + 4 * Refill)) % 4 = 0
  <2>1. bxlen - btlen \in Int /\ bxlen - btlen >= 0 /\ (bxlen - btlen) % 4 = 0
    BY <1>0, <1>4 DEF BurstShape
  <2>2. PICK m \in Int : bxlen - btlen = 4 * m
    BY <2>1, WholeWords
  <2>3. m \in Nat
    BY <2>1, <2>2
  <2>4. c = m
    BY <2>1, <2>2, <2>3, CeilWords DEF c
  <2>5. /\ bxlen - (btlen + 4 * Refill) = 4 * (m - Refill) /\ m - Refill \in Int
        /\ bxlen - (btlen + 4 * Refill) \in Int
    BY <1>0, <1>3, <2>2, <2>3
  <2>6. (bxlen - (btlen + 4 * Refill)) % 4 = 0
    BY <2>5, WholeWords
  <2> QED
    BY <1>3, <2>2, <2>3, <2>4, <2>6
<1> QED
  BY <1>1, <1>3, <1>4

(* What is received stays within what has been sent ... *)
LEMMA ServeInStep ==
  ASSUME NEW r \in Int, NEW t \in Int, NEW k \in Nat, NEW u \in Nat,
         r <= t, (t - r) % 4 = 0, k <= CeilDiv(t - r, 4)
  PROVE  r + 4 * k <= t /\ (t + 4 * u - (r + 4 * k)) % 4 = 0 /\ (t - (r + 4 * k)) % 4 = 0
<1>1. PICK m \in Int : t - r = 4 * m
  BY WholeWords
<1>2. m \in Nat
  BY <1>1
<1>3. CeilDiv(t - r, 4) = m
  BY <1>1, <1>2, CeilWords
<1>4. r + 4 * k <= t
  BY <1>1, <1>2, <1>3
<1>5. /\ t + 4 * u - (r + 4 * k) = 4 * (m + u - k) /\ m + u - k \in Int
      /\ t + 4 * u - (r + 4 * k) \in Int
      /\ t - (r + 4 * k) = 4 * (m - k) /\ m - k \in Int
      /\ t - (r + 4 * k) \in Int
  BY <1>1, <1>2
<1>6. (t + 4 * u - (r + 4 * k)) % 4 = 0 /\ (t - (r + 4 * k)) % 4 = 0
  BY <1>5, WholeWords
<1> QED
  BY <1>4, <1>6

(* ... and the count of a burst within its bounds. *)
LEMMA ServeCount ==
  ASSUME NEW b \in Nat, NEW bx \in Nat, NEW k \in Nat, b <= BurstMax, bx <= BurstMax,
         k <= CeilDiv(bx - b, 4), (bx - b) % 4 = 0 \/ b % 4 = 0
  PROVE  /\ b + 4 * k <= BurstMax
         /\ (bx - (b + 4 * k)) % 4 = 0 \/ (b + 4 * k) % 4 = 0
<1>1. CASE (bx - b) % 4 = 0
  <2>1. (bx - (b + 4 * k)) % 4 = 0
    <3>1. PICK m \in Int : bx - b = 4 * m
      BY <1>1, WholeWords
    <3>2. bx - (b + 4 * k) = 4 * (m - k) /\ m - k \in Int /\ bx - (b + 4 * k) \in Int
      BY <3>1
    <3> QED
      BY <3>2, WholeWords
  <2>2. CASE bx - b >= 0
    <3>1. PICK m \in Int : bx - b = 4 * m
      BY <1>1, WholeWords
    <3>2. m \in Nat /\ bx - b \in Int
      BY <2>2, <3>1
    <3>3. k <= m
      BY <3>1, <3>2, CeilWords
    <3>4. b + 4 * k <= bx
      BY <3>1, <3>2, <3>3
    <3> QED
      BY <2>1, <3>4, SizeFact
  <2>3. CASE bx - b < 0
    <3>1. k = 0
      BY <2>3, CeilWords
    <3> QED
      BY <2>1, <3>1
  <2> QED
    BY <2>2, <2>3
<1>2. CASE b % 4 = 0
  <2>1. PICK m \in Int : b = 4 * m
    BY <1>2, WholeWords
  <2>2. b + 4 * k = 4 * (m + k) /\ m + k \in Int /\ b + 4 * k \in Int
    BY <2>1
  <2>3. (b + 4 * k) % 4 = 0
    BY <2>2, WholeWords
  <2>4. PICK M \in Int : BurstMax = 4 * M
    BY SizeFact, WholeWords
  <2>5. CASE bx - b <= 0
    <3>1. k = 0
      BY <2>5, CeilWords
    <3> QED
      BY <2>3, <3>1
  <2>6. CASE bx - b > 0
    <3> DEFINE c == CeilDiv(bx - b, 4)
    <3>1. c \in Nat /\ 4 * c < bx - b + 4
      BY <2>6, CeilWords
    <3> HIDE DEF c
    <3>2. k <= c
      BY DEF c
    <3>3. b + 4 * k < bx + 4
      BY <3>1, <3>2
    <3>4. m + k < M + 1
      BY <2>2, <2>4, <3>3, SizeFact
    <3> QED
      BY <2>2, <2>3, <2>4, <3>4
  <2> QED
    BY <2>5, <2>6
<1> QED
  BY <1>1, <1>2

(* The words read after the cut one, and the buffer with all of them. *)
CutStored(ws)    == IF First = 0 THEN buf ELSE Stored(buf, rlen, adj, <<ws[1]>>)
WholeWordsOf(ws) == SubSeq(ws, First + 1, First + Taken)
Served == LET ws == Read(First + Taken)
          IN  Stored(CutStored(ws), rlen + adj, 4, WholeWordsOf(ws))

(* The effect of the handler. *)
LEMMA ServeBurstEffect ==
  ASSUME IsrServe, burst
  PROVE  /\ ipc = "serve" /\ ipc' = "idle" /\ count' = 0 /\ adj' = 0
         /\ rlen' = rlen + adj + 4 * Taken /\ brlen' = brlen + adj + 4 * Taken
         /\ rxf' = Left(First + Taken) /\ buf' = Served
         /\ txf' = txf \o Words(Served, tlen, 4, Refill)
         /\ tlen' = tlen + 4 * Refill /\ btlen' = btlen + 4 * Refill
         /\ \/ /\ brlen' >= bxlen \/ rlen' >= xlen
               /\ inten' = FALSE /\ pulses' = Least(pulses + 1, MaxPulses) /\ xch' = xch
            \/ /\ ~(brlen' >= bxlen \/ rlen' >= xlen)
               /\ xch' = TRUE /\ inten' = inten /\ pulses' = pulses
         /\ UNCHANGED <<tpc, burst, nx, result, xlen, dlen, bxlen, tc, bcnt, left>>
         /\ UNCHANGED <<hung, bus, late>>
  BY DEF IsrServe, IsrBurst, thread, lengths, First, More, Taken, CutStored, WholeWordsOf,
         Served, Finish, Pulse

(* The shape of the counters is kept. *)
LEMMA ServeBurstShape ==
  ASSUME EcspiInv, IsrServe, burst
  PROVE  /\ BurstShape' /\ rlen' \in -1 .. MaxLen + 3 /\ tlen' \in 0 .. MaxLen + 3
         /\ brlen' \in 0 .. BurstMax /\ btlen' \in 0 .. BurstMax
<1> DEFINE k == Taken
           u == Refill
<1>1. /\ ipc = "serve" /\ ipc' = "idle" /\ adj' = 0
      /\ rlen' = rlen + adj + 4 * k /\ brlen' = brlen + adj + 4 * k
      /\ tlen' = tlen + 4 * u /\ btlen' = btlen + 4 * u
      /\ UNCHANGED <<tpc, xlen, dlen, bxlen>>
  BY ServeBurstEffect
<1>2. Numbers /\ Stores /\ BurstShape
  BY DEF EcspiInv, BurstInv
<1>3. /\ rlen \in Int /\ adj \in Nat /\ xlen \in Nat /\ xlen <= MaxLen /\ tlen \in Nat
      /\ bxlen \in Nat /\ bxlen <= BurstMax /\ brlen \in Nat /\ btlen \in Nat
      /\ btlen <= BurstMax
  BY <1>2, SizeFact, MaxLenFact DEF Numbers
<1>4. /\ k \in Nat
      /\ k <= CeilDiv(tlen - (rlen + adj), 4) /\ k <= CeilDiv(bxlen - (brlen + adj), 4)
  BY <1>2, TakenFact
<1>5. /\ u \in Nat /\ (bxlen = 0 => u = 0)
      /\ bxlen > 0 => 4 * u <= bxlen - btlen /\ (bxlen - (btlen + 4 * u)) % 4 = 0
  BY <1>2, RefillFact
<1> HIDE DEF k, u
<1>6. /\ tlen <= xlen /\ rlen >= 0
      /\ (bxlen = 0 => tpc # "wait" /\ rlen = 0 /\ tlen = 0 /\ adj = 0)
      /\ brlen + adj <= BurstMax
      /\ (bxlen > 0 => btlen <= bxlen /\ tlen + bxlen - btlen <= xlen)
      /\ InStep
  <2>1. InStep
    BY <1>1, <1>2 DEF EcspiInv, BurstInv, BurstShape, Rest, BurstWork
  <2> QED
    BY <1>1, <1>2, <2>1 DEF BurstShape
<1>7. bxlen > 0 => (bxlen - brlen - adj) % 4 = 0 \/ (brlen + adj) % 4 = 0
  BY <1>2 DEF BurstShape
<1>8. tlen' <= xlen /\ tlen' \in Nat /\ btlen' \in Nat /\ btlen' <= BurstMax
  <2>1. tlen' = tlen + 4 * u /\ btlen' = btlen + 4 * u /\ u \in Nat
    BY <1>1, <1>5
  <2>2. CASE bxlen = 0
    <3>1. u = 0 /\ tlen <= xlen
      BY <1>5, <1>6, <2>2
    <3> QED
      BY <1>3, <2>1, <3>1
  <2>3. CASE bxlen > 0
    <3>1. 4 * u <= bxlen - btlen /\ tlen + bxlen - btlen <= xlen
      BY <1>5, <1>6, <2>3
    <3> QED
      BY <1>3, <2>1, <3>1, SizeFact
  <2> QED
    BY <1>3, <2>2, <2>3
<1>9. bxlen > 0 => /\ btlen' <= bxlen /\ (bxlen - btlen') % 4 = 0
                   /\ tlen' + bxlen - btlen' <= xlen
  BY <1>1, <1>3, <1>5, <1>6
<1>10. ASSUME bxlen > 0
       PROVE  /\ brlen' \in Nat /\ brlen' <= BurstMax
              /\ (bxlen - brlen' - 0) % 4 = 0 \/ (brlen' + 0) % 4 = 0
  <2> DEFINE b == brlen + adj
  <2>1. b \in Nat /\ b <= BurstMax /\ bxlen - brlen - adj = bxlen - b
    BY <1>3, <1>6
  <2>2. (bxlen - b) % 4 = 0 \/ b % 4 = 0
    BY <1>7, <1>10, <2>1
  <2>3. k <= CeilDiv(bxlen - b, 4) /\ brlen' = b + 4 * k
    BY <1>1, <1>4
  <2> HIDE DEF b
  <2>4. /\ b + 4 * k <= BurstMax
        /\ (bxlen - (b + 4 * k)) % 4 = 0 \/ (b + 4 * k) % 4 = 0
    BY <1>3, <1>4, <2>1, <2>2, <2>3, ServeCount
  <2>5. b + 4 * k \in Nat /\ bxlen - (b + 4 * k) - 0 = bxlen - (b + 4 * k)
        /\ (b + 4 * k) + 0 = b + 4 * k
    BY <1>3, <1>4, <2>1
  <2> QED
    BY <2>3, <2>4, <2>5
<1>11. ASSUME bxlen = 0 PROVE k = 0 /\ rlen' = 0 /\ tlen' = 0 /\ brlen' = brlen
  <2>1. tlen - (rlen + adj) = 0
    BY <1>3, <1>6, <1>11
  <2>2. k = 0
    BY <1>4, <2>1 DEF CeilDiv
  <2> QED
    BY <1>1, <1>3, <1>5, <1>6, <1>11, <2>2
<1>12. rlen' <= tlen'
  <2> DEFINE r == rlen + adj
  <2>1. r \in Int /\ r <= tlen /\ tlen - rlen - adj = tlen - r /\ tlen \in Int
    BY <1>3, <1>6 DEF InStep
  <2>2. (tlen - r) % 4 = 0
    BY <1>6, <2>1 DEF InStep
  <2>3. k <= CeilDiv(tlen - r, 4) /\ rlen' = r + 4 * k
    BY <1>1, <1>4
  <2> HIDE DEF r
  <2>4. r + 4 * k <= tlen /\ (tlen + 4 * u - (r + 4 * k)) % 4 = 0
    BY <1>4, <1>5, <2>1, <2>2, <2>3, ServeInStep
  <2>5. /\ (r + 4 * k) + 0 <= tlen + 4 * u /\ r + 4 * k <= tlen + 4 * u
        /\ tlen + 4 * u - (r + 4 * k) - 0 = tlen + 4 * u - (r + 4 * k)
    BY <1>4, <1>5, <2>1, <2>4
  <2> QED
    BY <1>1, <2>3, <2>5
<1>14. rlen' \in Nat /\ rlen' <= tlen'
  BY <1>1, <1>3, <1>4, <1>6, <1>12
<1>15. brlen' \in Nat /\ brlen' <= BurstMax
  BY <1>3, <1>6, <1>10, <1>11
<1>16. BurstShape'
  <2>1. adj' = 0 /\ xlen' = xlen /\ bxlen' = bxlen /\ tpc' = tpc /\ ipc' = "idle"
    BY <1>1
  <2>3. brlen' + adj' <= BurstMax
    BY <1>15, <2>1
  <2>4. bxlen' > 0 => /\ btlen' <= bxlen' /\ (bxlen' - btlen') % 4 = 0
                      /\ tlen' + bxlen' - btlen' <= xlen'
                      /\ (bxlen' - brlen' - adj') % 4 = 0 \/ (brlen' + adj') % 4 = 0
    BY <1>9, <1>10, <2>1
  <2>5. bxlen' = 0 => tpc' # "wait" /\ rlen' = 0 /\ tlen' = 0 /\ adj' = 0
    BY <1>6, <1>11, <2>1
  <2> QED
    BY <1>8, <2>1, <2>3, <2>4, <2>5 DEF BurstShape
<1> QED
  BY <1>3, <1>8, <1>14, <1>15, <1>16, SizeFact, MaxLenFact


-----------------------------------------------------------------------------
(***************************************************************************)
(* The handler serves the interrupt, with bursts: the data.                *)
(***************************************************************************)
(* The words read. *)
LEMMA ServedWords ==
  ASSUME Numbers, Stores
  PROVE  /\ Read(First + Taken) \in Seq(Cell) /\ Len(Read(First + Taken)) = First + Taken
         /\ WholeWordsOf(Read(First + Taken)) \in Seq(Cell)
         /\ Len(WholeWordsOf(Read(First + Taken))) = Taken
         /\ First + Taken <= Len(rxf) =>
              /\ First = 1 => Read(First + Taken)[1] = rxf[1]
              /\ \A i \in 1 .. Taken : WholeWordsOf(Read(First + Taken))[i] = rxf[First + i]
<1> DEFINE k  == Taken
           f  == First
           ws == Read(f + k)
<1>1. f \in 0 .. 1 /\ k \in Nat
  BY TakenFact
<1>2. /\ ws \in Seq(Cell) /\ Len(ws) = f + k
      /\ f + k <= Len(rxf) => \A i \in 1 .. f + k : ws[i] = rxf[i]
  <2>1. f + k \in Nat /\ rxf \in Seq(Cell)
    BY <1>1 DEF Stores
  <2> QED
    BY <2>1, ReadFact
<1>3. WholeWordsOf(ws) = SubSeq(ws, f + 1, f + k)
  BY DEF WholeWordsOf
<1> HIDE DEF ws, k, f
<1>4. /\ f + 1 \in Int /\ f + k \in Int
      /\ \A i \in f + 1 .. f + k : ws[i] \in Cell
  BY <1>1, <1>2, LenProperties
<1>5. /\ SubSeq(ws, f + 1, f + k) \in Seq(Cell)
      /\ Len(SubSeq(ws, f + 1, f + k)) = IF f + 1 <= f + k THEN (f + k) - (f + 1) + 1 ELSE 0
      /\ \A i \in 1 .. (f + k) - (f + 1) + 1 : SubSeq(ws, f + 1, f + k)[i] = ws[f + 1 + i - 1]
  BY <1>4, SubSeqProperties
<1>6. Len(SubSeq(ws, f + 1, f + k)) = k
  BY <1>1, <1>5
<1>7. \A i \in 1 .. k : SubSeq(ws, f + 1, f + k)[i] = ws[f + i] /\ f + i \in 1 .. f + k
  BY <1>1, <1>5
<1>8. f = 1 => 1 \in 1 .. f + k
  BY <1>1
<1> QED
  BY <1>2, <1>3, <1>5, <1>6, <1>7, <1>8 DEF ws, k, f

(* The buffer with the cut word. *)
LEMMA CutStoredFact ==
  ASSUME Numbers, Stores
  PROVE  /\ CutStored(Read(First + Taken)) \in [Mem -> Int]
         /\ \A q \in Mem : q < rlen \/ q >= rlen + adj
              => CutStored(Read(First + Taken))[q] = buf[q]
<1> DEFINE ws == Read(First + Taken)
<1>1. ws \in Seq(Cell) /\ Len(ws) = First + Taken
  BY ServedWords
<1>2. First \in 0 .. 1 /\ Taken \in Nat
  BY TakenFact
<1>3. buf \in [Mem -> Int] /\ rlen \in Int /\ adj \in 0 .. 3
  BY MaxLenFact DEF Stores, Numbers
<1> HIDE DEF ws
<1>4. CASE First = 0
  BY <1>3, <1>4 DEF CutStored, ws
<1>5. CASE First = 1
  <2>1. adj \in 1 .. 4
    BY <1>3, <1>5 DEF First
  <2>2. <<ws[1]>> \in Seq(Cell) /\ Len(<<ws[1]>>) = 1
    <3>1. ws[1] \in Cell
      BY <1>1, <1>2, <1>5, LenProperties
    <3> QED
      BY <3>1
  <2>3. CutStored(ws) = Stored(buf, rlen, adj, <<ws[1]>>)
    BY <1>5 DEF CutStored
  <2> DEFINE g == <<ws[1]>>
  <2>4. g \in Seq(Cell) /\ Len(g) = 1 /\ CutStored(ws) = Stored(buf, rlen, adj, g)
    BY <2>2, <2>3
  <2> HIDE DEF g
  <2>5. /\ Stored(buf, rlen, adj, g) \in [Mem -> Int]
        /\ \A q \in Mem : q < rlen \/ q >= rlen + adj * Len(g)
             => Stored(buf, rlen, adj, g)[q] = buf[q]
    BY <1>3, <2>1, <2>4, StoredFact, Zenon
  <2>6. rlen + adj * Len(g) = rlen + adj
    BY <1>3, <2>4
  <2> QED
    BY <2>4, <2>5, <2>6 DEF ws
<1> QED
  BY <1>2, <1>4, <1>5

(* The buffer with all of the words. *)
LEMMA ServedFact ==
  ASSUME Numbers, Stores
  PROVE  /\ Served \in [Mem -> Int]
         /\ \A q \in Mem : q < rlen \/ q >= rlen + adj + 4 * Taken => Served[q] = buf[q]
<1> DEFINE ws == Read(First + Taken)
           b  == CutStored(ws)
           g  == WholeWordsOf(ws)
           p  == rlen + adj
<1>1. g \in Seq(Cell) /\ Len(g) = Taken
  BY ServedWords
<1>2. /\ b \in [Mem -> Int]
      /\ \A q \in Mem : q < rlen \/ q >= p => b[q] = buf[q]
  BY CutStoredFact
<1>3. Served = Stored(b, p, 4, g)
  BY DEF Served
<1>4. rlen \in Int /\ adj \in Nat /\ p \in Int /\ p >= rlen /\ 4 \in 1 .. 4 /\ Taken \in Nat
  BY TakenFact, MaxLenFact DEF Numbers
<1> HIDE DEF b, g, p
<1>5. /\ Stored(b, p, 4, g) \in [Mem -> Int]
      /\ \A q \in Mem : q < p \/ q >= p + 4 * Len(g) => Stored(b, p, 4, g)[q] = b[q]
  BY <1>1, <1>2, <1>4, StoredFact, Zenon
<1>6. Mem \subseteq Int
  BY MaxLenFact DEF Mem
<1>7. \A q \in Mem : q < rlen \/ q >= p + 4 * Taken => Served[q] = buf[q]
  <2>1. SUFFICES ASSUME NEW q \in Mem, q < rlen \/ q >= p + 4 * Taken
                 PROVE  Served[q] = buf[q]
    OBVIOUS
  <2>2. (q < p \/ q >= p + 4 * Len(g)) /\ (q < rlen \/ q >= p)
    BY <1>1, <1>4, <1>6, <2>1
  <2> QED
    BY <1>2, <1>3, <1>5, <2>2
<1> QED
  BY <1>3, <1>5, <1>7 DEF p

(* What is stored is what the slave sent. *)
LEMMA ServedBytes ==
  ASSUME Numbers, Stores, First + Taken <= Len(rxf),
         Covers(rxf, rlen, Len(bus), 4, In),
         Len(bus) = rlen + adj + 4 * (Len(rxf) - First)
  PROVE  \A q \in Mem : rlen <= q /\ q < rlen + adj + 4 * Taken => Served[q] = Byte(In, q + 1)
<1> DEFINE ws == Read(First + Taken)
           b  == CutStored(ws)
           g  == WholeWordsOf(ws)
           p  == rlen + adj
<1>1. /\ g \in Seq(Cell) /\ Len(g) = Taken /\ (First = 1 => ws[1] = rxf[1])
      /\ \A i \in 1 .. Taken : g[i] = rxf[First + i]
  BY ServedWords
<1>2. b \in [Mem -> Int]
  BY CutStoredFact
<1>3. Served = Stored(b, p, 4, g) /\ (First = 1 => b = Stored(buf, rlen, adj, <<ws[1]>>))
  BY DEF Served, CutStored
<1>4. /\ rlen \in Int /\ adj \in 0 .. 3 /\ p \in Int /\ p >= rlen /\ 4 \in 1 .. 4
      /\ Taken \in Nat /\ First \in 0 .. 1 /\ (First = 0 <=> adj = 0)
  BY TakenFact, MaxLenFact DEF Numbers, First
<1>5. p = rlen + adj
  OBVIOUS
<1>6. rxf \in Seq(Cell) /\ Len(rxf) \in Nat /\ Len(bus) \in Int /\ Mem \subseteq Int
      /\ buf \in [Mem -> Int]
  BY MaxLenFact DEF Stores, Mem
<1> HIDE DEF b, g, p, ws
<1>7. ASSUME NEW i \in 1 .. Len(g), NEW c \in 1 .. 4, c > 4 - 4
      PROVE  g[i][c] = Byte(In, p + 4 * i - 4 + c)
  <2>1. First + i \in 1 .. Len(rxf) /\ g[i] = rxf[First + i]
    BY <1>1, <1>4, <1>6
  <2>2. /\ Place(Len(bus), 4, Len(rxf) - (First + i), c) = p + 4 * i - 4 + c
        /\ Place(Len(bus), 4, Len(rxf) - (First + i), c) > rlen
    <3>1. /\ rlen \in Int /\ p \in Int /\ p >= rlen /\ i \in Int /\ i >= 1 /\ c \in Int /\ c >= 1
          /\ Len(rxf) \in Int /\ First \in Int
      BY <1>1, <1>4, <1>6
    <3>2. Len(bus) = p + 4 * (Len(rxf) - First)
      BY <1>4, <1>5, <1>6
    <3>3. Len(bus) - 4 * (Len(rxf) - (First + i)) - 4 + c = p + 4 * i - 4 + c
      BY <3>1, <3>2
    <3>4. p + 4 * i - 4 + c > rlen
      BY <3>1
    <3> QED
      BY <3>3, <3>4 DEF Place
  <2>3. rxf[First + i][c] = Byte(In, p + 4 * i - 4 + c)
    BY <1>7, <2>1, <2>2 DEF Covers
  <2> QED
    BY <2>1, <2>3
<1>8. \A q \in Mem : p <= q /\ q < p + 4 * Taken => Served[q] = Byte(In, q + 1)
  <2>1. \A q \in Mem : p <= q /\ q < p + 4 * Len(g) => Stored(b, p, 4, g)[q] = Byte(In, q + 1)
    BY <1>1, <1>2, <1>4, <1>7, WayFact, StoredBytes
  <2> QED
    BY <1>1, <1>3, <2>1
<1>9. \A q \in Mem : rlen <= q /\ q < p => b[q] = Byte(In, q + 1)
  <2>1. CASE First = 0
    BY <1>4, <1>5, <1>6, <2>1
  <2>2. CASE First = 1
    <3>1. adj \in 1 .. 4 /\ Len(rxf) >= 1
      BY <1>4, <1>6, <2>2
    <3>2. Cut(rxf, rlen, Len(bus), 4, adj)
      BY <1>4, <1>6, <2>2, <3>1 DEF Cut, Strides
    <3>3. Holds(rxf[1], rlen, adj, In)
      BY <3>2, WayFact, CoversHead
    <3> DEFINE w == <<ws[1]>>
    <3>4. w \in Seq(Cell) /\ Len(w) = 1 /\ w[1] = rxf[1]
      BY <1>1, <1>6, <2>2, <3>1, LenProperties
    <3>5. b = Stored(buf, rlen, adj, w)
      BY <1>3, <2>2
    <3> HIDE DEF w
    <3>6. ASSUME NEW i \in 1 .. Len(w), NEW c \in 1 .. 4, c > 4 - adj
          PROVE  w[i][c] = Byte(In, rlen + adj * i - 4 + c)
      <4>1. i = 1 /\ adj * i = adj
        BY <1>4, <3>4
      <4>2. rxf[1][c] = Byte(In, rlen + adj - 4 + c)
        BY <3>3, <3>6 DEF Holds
      <4> QED
        BY <3>4, <4>1, <4>2
    <3>7. \A q \in Mem : rlen <= q /\ q < rlen + adj * Len(w)
                           => Stored(buf, rlen, adj, w)[q] = Byte(In, q + 1)
      BY <1>4, <1>6, <3>1, <3>4, <3>6, WayFact, StoredBytes
    <3>8. rlen + adj * Len(w) = p
      BY <1>4, <1>5, <3>4
    <3> QED
      BY <3>5, <3>7, <3>8
  <2> QED
    BY <1>4, <2>1, <2>2
<1>10. \A q \in Mem : q < p => Served[q] = b[q]
  <2>1. /\ \A q \in Mem : q < p \/ q >= p + 4 * Len(g) => Stored(b, p, 4, g)[q] = b[q]
    BY <1>1, <1>2, <1>4, StoredFact, Zenon
  <2> QED
    BY <1>3, <2>1
<1>11. SUFFICES ASSUME NEW q \in Mem, rlen <= q, q < p + 4 * Taken
                PROVE  Served[q] = Byte(In, q + 1)
  BY <1>5
<1>12. q < p \/ p <= q
  BY <1>4, <1>6
<1> QED
  BY <1>8, <1>9, <1>10, <1>11, <1>12


-----------------------------------------------------------------------------
(***************************************************************************)
(* The handler serves the interrupt, with bursts: as long as nothing has   *)
(* timed out, the whole count is read.                                     *)
(***************************************************************************)
(* As many words as any of the three bounds allows may be read. *)
LEMMA MoreFact ==
  ASSUME Numbers, NEW m \in Nat, 4 * m <= xlen - (rlen + adj),
         4 * m <= tlen - (rlen + adj), 4 * m <= bxlen - (brlen + adj)
  PROVE  m <= More
<1>0. /\ xlen \in Int /\ rlen \in Int /\ adj \in Int /\ tlen \in Int
      /\ bxlen \in Int /\ brlen \in Int
  BY SizeFact, MaxLenFact DEF Numbers
<1> DEFINE p == CeilDiv(xlen - (rlen + adj), 4)
           q == CeilDiv(tlen - (rlen + adj), 4)
           r == CeilDiv(bxlen - (brlen + adj), 4)
<1>1. p \in Int /\ p >= m
  BY <1>0, CeilWords
<1>2. q \in Int /\ q >= m
  BY <1>0, CeilWords
<1>3. r \in Int /\ r >= m
  BY <1>0, CeilWords
<1>4. More = Min({p, q, r})
  BY DEF More
<1> HIDE DEF p, q, r
<1>5. Min({p, q, r}) \in {p, q, r}
  BY <1>1, <1>2, <1>3, Min3Fact, Zenon
<1> QED
  BY <1>1, <1>2, <1>3, <1>4, <1>5

(* A burst that is served: it began after byte f and ends with byte e of x, *)
(* r bytes have been received and l and t are on the bus and sent; the      *)
(* first word is cut to a bytes, and c of the lr words received are read.   *)
BurstAt(f, e, x, r, a, l, t, c, lr, lt) ==
  /\ f \in Int /\ e \in Nat /\ x \in Nat /\ r \in Nat /\ a \in 0 .. 3 /\ l \in Nat
  /\ t \in Nat /\ c \in Nat /\ lr \in Nat /\ lt \in Nat
  /\ f < l /\ r <= l /\ l <= t /\ t <= e /\ e <= x
  /\ (e - l) % 4 = 0 /\ (e - r - a) % 4 = 0 /\ (t - r - a) % 4 = 0
  /\ a # 0 => r = f /\ c >= 1
  /\ c <= lr /\ lr <= CeilDiv(l - r, 4) /\ lt = CeilDiv(t - l, 4)

CutWords(a) == IF a = 0 THEN 0 ELSE 1

(* What has come, and may have been lost, are whole words after the cut one. *)
LEMMA BurstWords ==
  ASSUME NEW f, NEW e, NEW x, NEW r, NEW a, NEW l, NEW t, NEW c, NEW lr, NEW lt,
         BurstAt(f, e, x, r, a, l, t, c, lr, lt)
  PROVE  \E m \in Nat : l = r + a + 4 * m /\ CeilDiv(l - r, 4) = m + CutWords(a)
<1>1. /\ f \in Int /\ e \in Nat /\ r \in Nat /\ a \in 0 .. 3 /\ l \in Nat
      /\ f < l /\ r <= l /\ (a # 0 => r = f)
  BY DEF BurstAt
<1>2. (e - l) % 4 = 0 /\ (e - r - a) % 4 = 0
  BY DEF BurstAt
<1>3. PICK i \in Int : e - l = 4 * i
  <2>1. e - l \in Int
    BY <1>1
  <2> QED
    BY <1>2, <2>1, WholeWords
<1>4. PICK j \in Int : e - r - a = 4 * j
  <2>1. e - r - a \in Int
    BY <1>1
  <2> QED
    BY <1>2, <2>1, WholeWords
<1> DEFINE m == j - i
<1>5. m \in Int /\ l = r + a + 4 * m
  BY <1>1, <1>3, <1>4
<1> HIDE DEF m
<1>6. m \in Nat
  BY <1>1, <1>5
<1>7. CASE a = 0
  <2>1. l - r = 4 * m /\ l - r \in Int
    BY <1>1, <1>5, <1>7
  <2>2. CeilDiv(l - r, 4) = m
    BY <1>6, <2>1, CeilWords
  <2> QED
    BY <1>5, <1>6, <1>7, <2>2 DEF CutWords
<1>8. CASE a # 0
  <2>1. l - r = a + 4 * m /\ a \in Int /\ a >= 0 /\ 4 \in Strides
    BY <1>1, <1>5, <1>6 DEF Strides
  <2>2. CeilDiv(a + 4 * m, 4) = CeilDiv(a, 4) + m
    BY <1>6, <2>1, CeilPlus
  <2>3. CeilDiv(a, 4) = 1
    BY <1>1, <1>8 DEF CeilDiv
  <2> QED
    BY <1>5, <1>6, <1>8, <2>1, <2>2, <2>3 DEF CutWords
<1> QED
  BY <1>7, <1>8

(* The counters after the words have been read and u words been sent. *)
BurstNext(e, r, a, l, t, c, lr, lt, u, v) ==
  /\ v \in Nat /\ r <= v /\ v <= l /\ c >= CutWords(a)
  /\ CeilDiv(l - v, 4) = CeilDiv(l - r, 4) - c
  /\ CeilDiv(t + 4 * u - l, 4) = lt + u
  /\ (e - v) % 4 = 0 /\ (t + 4 * u - v) % 4 = 0
  /\ l = r + a + 4 * (CeilDiv(l - r, 4) - CutWords(a))
  /\ v >= e => v = l /\ l = t /\ t = e /\ u = 0 /\ lt = 0 /\ c = lr /\ lr = CeilDiv(l - r, 4)

LEMMA ServeBurstNumbers ==
  ASSUME NEW f, NEW e, NEW x, NEW r, NEW a, NEW l, NEW t, NEW c, NEW lr, NEW lt,
         BurstAt(f, e, x, r, a, l, t, c, lr, lt), NEW u \in Nat, t + 4 * u <= e,
         NEW v, v = r + a + 4 * (c - CutWords(a))
  PROVE  BurstNext(e, r, a, l, t, c, lr, lt, u, v)
<1>1. PICK m \in Nat : l = r + a + 4 * m /\ CeilDiv(l - r, 4) = m + CutWords(a)
  BY BurstWords
<1>2. /\ e \in Nat /\ r \in Nat /\ a \in 0 .. 3 /\ l \in Nat /\ t \in Nat /\ c \in Nat
      /\ lr \in Nat /\ lt \in Nat /\ r <= l /\ l <= t /\ t <= e
      /\ (a # 0 => c >= 1) /\ c <= lr /\ lr <= m + CutWords(a) /\ lt = CeilDiv(t - l, 4)
  BY <1>1 DEF BurstAt
<1>3. CutWords(a) \in Int /\ 0 <= CutWords(a) /\ CutWords(a) <= c
  BY <1>2 DEF CutWords
<1> DEFINE k == c - CutWords(a)
<1>4. k \in Nat /\ k <= m /\ v = r + a + 4 * k /\ c = k + CutWords(a)
  BY <1>2, <1>3
<1> HIDE DEF k
<1>5. v \in Nat /\ r <= v /\ v <= l /\ l - v = 4 * (m - k) /\ m - k \in Nat /\ l - v \in Int
  BY <1>1, <1>2, <1>4
<1>6. CeilDiv(l - v, 4) = m - k
  BY <1>5, CeilWords
<1>7. CeilDiv(l - v, 4) = CeilDiv(l - r, 4) - c
  BY <1>1, <1>3, <1>4, <1>6
<1>8. CeilDiv(t + 4 * u - l, 4) = lt + u
  <2>1. t + 4 * u - l = (t - l) + 4 * u /\ t - l \in Int /\ t - l >= 0 /\ 4 \in Strides
    BY <1>2 DEF Strides
  <2>2. CeilDiv((t - l) + 4 * u, 4) = CeilDiv(t - l, 4) + u
    BY <2>1, CeilPlus
  <2> QED
    BY <1>2, <2>1, <2>2
<1>9. (e - v) % 4 = 0
  <2>1. (e - l) % 4 = 0 /\ e - l \in Int
    BY <1>2 DEF BurstAt
  <2>2. PICK i \in Int : e - l = 4 * i
    BY <2>1, WholeWords
  <2>3. e - v = 4 * (i + m - k) /\ i + m - k \in Int /\ e - v \in Int
    BY <1>2, <1>4, <1>5, <2>2
  <2> QED
    BY <2>3, WholeWords
<1>10. (t + 4 * u - v) % 4 = 0
  <2>1. (t - r - a) % 4 = 0 /\ t - r - a \in Int
    BY <1>2 DEF BurstAt
  <2>2. PICK i \in Int : t - r - a = 4 * i
    BY <2>1, WholeWords
  <2>3. t + 4 * u - v = 4 * (i + u - k) /\ i + u - k \in Int /\ t + 4 * u - v \in Int
    BY <1>2, <1>4, <2>2
  <2> QED
    BY <2>3, WholeWords
<1>11. l = r + a + 4 * (CeilDiv(l - r, 4) - CutWords(a))
  <2>1. CeilDiv(l - r, 4) - CutWords(a) = m
    BY <1>1, <1>3
  <2> QED
    BY <1>1, <2>1
<1>12. ASSUME v >= e
       PROVE v = l /\ l = t /\ t = e /\ u = 0 /\ lt = 0 /\ c = lr /\ lr = CeilDiv(l - r, 4)
  <2>1. v = l /\ l = t /\ t = e /\ u = 0
    BY <1>2, <1>5, <1>12
  <2>2. t - l = 0
    BY <1>2, <2>1
  <2>3. lt = 0
    BY <1>2, <2>2 DEF CeilDiv
  <2>4. m = k
    BY <1>4, <1>5, <2>1
  <2>5. c = m + CutWords(a)
    BY <1>4, <2>4
  <2> QED
    BY <1>1, <1>2, <1>3, <2>1, <2>3, <2>5
<1> QED
  BY <1>3, <1>5, <1>7, <1>8, <1>9, <1>10, <1>11, <1>12 DEF BurstNext


(* The state in which the handler serves a burst. *)
LEMMA ServeBurstState ==
  ASSUME EcspiInv, ipc = "serve", burst, ~late
  PROVE  /\ tpc = "wait" /\ pulses = 0 /\ inten = TRUE /\ rlen \in Nat /\ bxlen > 0
         /\ BurstAt(BurstFrom, BurstTo, xlen, rlen, adj, Len(bus), tlen, count,
                    Len(rxf), Len(txf))
         /\ Work(4) /\ BurstWork /\ rlen < BurstTo
<1>1. Numbers /\ Stores /\ Flags /\ BurstShape /\ BurstInv
  BY DEF EcspiInv, BurstInv
<1>2. /\ rlen \in Int /\ xlen \in Nat /\ tlen \in Nat /\ bxlen \in Nat /\ btlen \in Nat
      /\ adj \in 0 .. 3 /\ count \in Nat /\ pulses \in Nat
  BY <1>1, SizeFact, MaxLenFact DEF Numbers
<1>3. Len(bus) \in Nat /\ Len(rxf) \in Nat /\ Len(txf) \in Nat
  BY <1>1 DEF Stores
<1>4. rlen >= 0 /\ rlen \in Nat
  BY <1>1, <1>2 DEF BurstShape
<1>5. tpc = "wait" /\ ~(pulses > 0) /\ Work(4) /\ BurstWork
  BY <1>1, <1>4 DEF BurstInv, Rest
<1>6. tpc = "wait" /\ pulses = 0 /\ inten = TRUE
  BY <1>1, <1>2, <1>5 DEF Work, Flags
<1>7. bxlen > 0
  BY <1>1, <1>2, <1>5 DEF BurstShape
<1>8. btlen <= bxlen /\ tlen + bxlen - btlen <= xlen /\ tlen <= xlen
  BY <1>1, <1>7 DEF BurstShape
<1>9. /\ rlen <= Len(bus) /\ Len(bus) <= tlen /\ Len(txf) = CeilDiv(tlen - Len(bus), 4)
      /\ Len(rxf) <= CeilDiv(Len(bus) - rlen, 4) /\ count <= Len(rxf)
  BY <1>5, Zenon DEF Work
<1>10. /\ rlen < BurstTo /\ rlen - brlen = BurstFrom
       /\ (BurstTo - rlen - adj) % 4 = 0 /\ (tlen - rlen - adj) % 4 = 0
       /\ (adj # 0 => rlen = BurstFrom /\ count >= 1)
       /\ Len(bus) >= BurstFrom /\ Len(bus) # BurstFrom
       /\ (Len(bus) > BurstFrom => (BurstTo - Len(bus)) % 4 = 0)
  BY <1>5, Zenon DEF BurstWork, InStep
<1>11. BurstFrom \in Int /\ BurstTo \in Int /\ BurstFrom < Len(bus) /\ tlen <= BurstTo
       /\ BurstTo <= xlen /\ BurstTo \in Nat
  BY <1>2, <1>3, <1>8, <1>10 DEF BurstFrom, BurstTo
<1> QED
  BY <1>2, <1>3, <1>4, <1>5, <1>6, <1>7, <1>9, <1>10, <1>11 DEF BurstAt


(* The whole count is read. *)
LEMMA ServeBurstTaken ==
  ASSUME EcspiInv, ipc = "serve", burst, ~late
  PROVE  /\ First = CutWords(adj) /\ Taken = count - First /\ Taken \in Nat
         /\ First + Taken = count
<1>1. BurstAt(BurstFrom, BurstTo, xlen, rlen, adj, Len(bus), tlen, count, Len(rxf), Len(txf))
  BY ServeBurstState
<1>2. PICK m \in Nat : /\ Len(bus) = rlen + adj + 4 * m
                       /\ CeilDiv(Len(bus) - rlen, 4) = m + CutWords(adj)
  BY <1>1, BurstWords
<1>3. First = CutWords(adj) /\ First \in 0 .. 1 /\ Numbers /\ Taken \in Nat
  BY TakenFact DEF First, CutWords, EcspiInv
<1>4. /\ xlen \in Int /\ rlen \in Int /\ adj \in Int /\ tlen \in Int /\ Len(bus) \in Int
      /\ count \in Nat /\ Len(rxf) \in Nat /\ BurstTo \in Int
      /\ Len(bus) <= tlen /\ tlen <= BurstTo /\ BurstTo <= xlen
      /\ count <= Len(rxf) /\ (adj # 0 => count >= 1)
  BY <1>1 DEF BurstAt
<1>5. Len(rxf) <= m + First
  BY <1>1, <1>2, <1>3 DEF BurstAt
<1>6. /\ bxlen \in Int /\ brlen \in Int /\ btlen \in Int
      /\ bxlen - (brlen + adj) = BurstTo - (rlen + adj)
  <2>1. bxlen \in Int /\ brlen \in Int /\ btlen \in Int
    BY <1>3, SizeFact DEF Numbers
  <2>2. rlen - brlen = BurstFrom
    BY ServeBurstState, Zenon DEF BurstWork
  <2> QED
    BY <1>4, <2>1, <2>2 DEF BurstFrom, BurstTo
<1>7. /\ 4 * m <= xlen - (rlen + adj) /\ 4 * m <= tlen - (rlen + adj)
      /\ 4 * m <= bxlen - (brlen + adj)
  BY <1>2, <1>4, <1>6
<1>8. m <= More
  BY <1>3, <1>7, MoreFact
<1>9. ~(count < First) /\ count - First <= m
  BY <1>3, <1>4, <1>5 DEF First
<1>10. More \in Int
  <2>1. /\ CeilDiv(xlen - (rlen + adj), 4) \in Int /\ CeilDiv(tlen - (rlen + adj), 4) \in Int
        /\ CeilDiv(bxlen - (brlen + adj), 4) \in Int
    <3>1. xlen - (rlen + adj) \in Int /\ tlen - (rlen + adj) \in Int /\ bxlen - (brlen + adj) \in Int
      BY <1>4, <1>6
    <3>2. \A a \in Int : CeilDiv(a, 4) \in Int
      BY CeilWords
    <3> QED
      BY <3>1, <3>2, Zenon
  <2>2. More \in {CeilDiv(xlen - (rlen + adj), 4), CeilDiv(tlen - (rlen + adj), 4),
                  CeilDiv(bxlen - (brlen + adj), 4)}
    BY <2>1, Min3Fact, Zenon DEF More
  <2> QED
    BY <2>1, <2>2
<1>11. count - First <= More
  BY <1>3, <1>4, <1>8, <1>9, <1>10
<1>12. Taken = count - First
  BY <1>3, <1>9, <1>11, TakenFact
<1> QED
  BY <1>3, <1>4, <1>12

(* The effect on the counters and the FIFOs. *)
LEMMA ServeBurstCounts ==
  ASSUME EcspiInv, IsrServe, burst, ~late
  PROVE  /\ BurstNext(BurstTo, rlen, adj, Len(bus), tlen, count, Len(rxf), Len(txf),
                      Refill, rlen')
         /\ BurstTo' = BurstTo /\ BurstFrom' = BurstFrom
         /\ rlen' - brlen' = BurstFrom
         /\ (brlen' >= bxlen \/ rlen' >= xlen) <=> rlen' >= BurstTo
<1>1. /\ ipc = "serve" /\ adj' = 0 /\ bxlen' = bxlen
      /\ rlen' = rlen + adj + 4 * Taken /\ brlen' = brlen + adj + 4 * Taken
      /\ tlen' = tlen + 4 * Refill /\ btlen' = btlen + 4 * Refill
  BY ServeBurstEffect
<1>2. BurstAt(BurstFrom, BurstTo, xlen, rlen, adj, Len(bus), tlen, count, Len(rxf), Len(txf))
      /\ rlen \in Nat /\ bxlen > 0
  BY <1>1, ServeBurstState
<1>3. First = CutWords(adj) /\ Taken = count - First /\ Taken \in Nat /\ First + Taken = count
  BY <1>1, ServeBurstTaken
<1>4. Refill \in Nat /\ 4 * Refill <= bxlen - btlen
  BY <1>2, RefillFact DEF EcspiInv, BurstInv
<1>5. /\ tlen \in Int /\ bxlen \in Int /\ btlen \in Int /\ brlen \in Int /\ xlen \in Int
      /\ adj \in Int
  BY SizeFact, MaxLenFact DEF EcspiInv, Numbers
<1>6. tlen + 4 * Refill <= BurstTo
  BY <1>4, <1>5 DEF BurstTo
<1>7. rlen' = rlen + adj + 4 * (count - CutWords(adj))
  BY <1>1, <1>3
<1>8. BurstNext(BurstTo, rlen, adj, Len(bus), tlen, count, Len(rxf), Len(txf), Refill, rlen')
  BY <1>2, <1>4, <1>6, <1>7, ServeBurstNumbers
<1>9. BurstTo' = BurstTo /\ BurstFrom' = BurstFrom
  BY <1>1, <1>4, <1>5 DEF BurstTo, BurstFrom
<1>10. rlen - brlen = BurstFrom
  BY <1>1, ServeBurstState, Zenon DEF BurstWork
<1>11. rlen' - brlen' = BurstFrom /\ rlen' \in Int /\ brlen' \in Int
  <2>1. /\ rlen' = rlen + adj + 4 * Taken /\ brlen' = brlen + adj + 4 * Taken
        /\ rlen \in Int /\ Taken \in Int
    BY <1>1, <1>2, <1>3
  <2> QED
    BY <1>5, <1>10, <2>1
<1>12. BurstTo <= xlen /\ BurstTo = BurstFrom + bxlen /\ BurstTo \in Int /\ BurstFrom \in Int
  <2>1. BurstTo <= xlen
    BY <1>2 DEF BurstAt
  <2> QED
    BY <1>5, <2>1 DEF BurstTo, BurstFrom
<1>13. (brlen' >= bxlen \/ rlen' >= xlen) <=> rlen' >= BurstTo
  <2>1. brlen' >= bxlen <=> rlen' >= BurstTo
    <3> DEFINE b == brlen'
               r == rlen'
    <3>1. /\ r - b = BurstFrom /\ BurstTo = BurstFrom + bxlen
          /\ r \in Int /\ b \in Int /\ BurstTo \in Int /\ BurstFrom \in Int /\ bxlen \in Int
      BY <1>5, <1>11, <1>12
    <3> HIDE DEF b, r
    <3>2. b >= bxlen <=> r >= BurstTo
      BY <3>1
    <3> QED
      BY <3>2 DEF b, r
  <2>2. rlen' >= xlen => rlen' >= BurstTo
    BY <1>5, <1>11, <1>12
  <2> QED
    BY <2>1, <2>2
<1> QED
  BY <1>8, <1>9, <1>11, <1>13


(* The FIFOs and the buffer keep their types. *)
LEMMA ServeBurstStores ==
  ASSUME EcspiInv, IsrServe, burst
  PROVE  /\ Stores' /\ Len(txf') = Len(txf) + Refill
         /\ tlen + 4 * Refill <= MaxLen + 4 /\ Refill \in Nat /\ tlen \in Nat
<1>1. /\ rxf' = Left(First + Taken) /\ buf' = Served /\ bus' = bus
      /\ txf' = txf \o Words(Served, tlen, 4, Refill) /\ tlen' = tlen + 4 * Refill
  BY ServeBurstEffect
<1>2. Numbers /\ Stores /\ BurstShape
  BY DEF EcspiInv, BurstInv
<1>3. Refill \in Nat /\ Refill + Len(txf) <= FifoSize
  BY <1>2, RefillFact
<1>4. tlen \in Nat /\ tlen \in Int /\ tlen >= 0 /\ tlen + 4 * Refill <= MaxLen + 4
  <2>1. tlen' \in 0 .. MaxLen + 3
    BY ServeBurstShape
  <2> QED
    BY <1>1, <1>2, <2>1, MaxLenFact DEF Numbers
<1>5. Served \in [Mem -> Int]
  BY <1>2, ServedFact
<1> DEFINE g == Words(Served, tlen, 4, Refill)
<1>6. g \in Seq(Cell) /\ Len(g) = Refill
  <2>1. 4 \in Strides
    BY DEF Strides
  <2> QED
    BY <1>3, <1>4, <1>5, <2>1, WordsFact, Zenon
<1>7. txf' = txf \o g
  BY <1>1
<1> HIDE DEF g
<1>8. txf' \in Seq(Cell) /\ Len(txf') = Len(txf) + Refill
  BY <1>2, <1>6, <1>7, ConcatProperties DEF Stores
<1>9. First + Taken \in Nat
  BY <1>2, TakenFact
<1>10. rxf' \in Seq(Cell) /\ Len(rxf') <= Len(rxf) /\ Len(rxf') \in Nat /\ Len(rxf) \in Nat
  <2>1. /\ rxf' \in Seq(Cell) /\ Len(rxf) \in Nat
        /\ Len(rxf') = IF First + Taken <= Len(rxf) THEN Len(rxf) - (First + Taken) ELSE 0
    BY <1>1, <1>2, <1>9, LeftFact DEF Stores
  <2> QED
    BY <1>9, <2>1
<1>11. Stores'
  <2>1. Len(txf') <= FifoSize
    BY <1>2, <1>3, <1>8, SizeFact DEF Stores
  <2>2. Len(rxf') <= FifoSize
    BY <1>2, <1>10, SizeFact DEF Stores
  <2> QED
    BY <1>1, <1>2, <1>5, <1>8, <1>10, <2>1, <2>2 DEF Stores
<1> QED
  BY <1>3, <1>4, <1>8, <1>11

(* The contents of the FIFOs, of the buffer and of the bus. *)
LEMMA ServeBurstContents ==
  ASSUME EcspiInv, IsrServe, burst, ~late
  PROVE  Contents(4)'
<1>1. /\ ipc = "serve" /\ rxf' = Left(First + Taken) /\ buf' = Served /\ bus' = bus
      /\ txf' = txf \o Words(Served, tlen, 4, Refill) /\ tlen' = tlen + 4 * Refill
      /\ rlen' = rlen + adj + 4 * Taken
  BY ServeBurstEffect
<1>2. Numbers /\ Stores /\ Exchange
  BY DEF EcspiInv
<1>3. /\ rlen \in Nat /\ Work(4)
      /\ BurstAt(BurstFrom, BurstTo, xlen, rlen, adj, Len(bus), tlen, count, Len(rxf), Len(txf))
  BY <1>1, ServeBurstState
<1>4. /\ First = CutWords(adj) /\ Taken = count - First /\ Taken \in Nat
      /\ First + Taken = count
  BY <1>1, ServeBurstTaken
<1>5. BurstNext(BurstTo, rlen, adj, Len(bus), tlen, count, Len(rxf), Len(txf), Refill, rlen')
  BY ServeBurstCounts
<1>6. /\ tlen + 4 * Refill <= MaxLen + 4 /\ Refill \in Nat /\ tlen \in Nat
      /\ Len(txf') = Len(txf) + Refill
  BY ServeBurstStores
<1>7. Contents(4)
  BY <1>2, <1>3 DEF Exchange, Unit
<1>8. /\ Len(bus) \in Int /\ Len(bus) <= tlen /\ count \in Nat /\ count <= Len(rxf)
      /\ Len(rxf) \in Nat /\ rxf \in Seq(Cell) /\ txf \in Seq(Cell) /\ 4 \in Strides
      /\ Len(rxf) <= CeilDiv(Len(bus) - rlen, 4)
  BY <1>2, <1>3 DEF BurstAt, Stores, Strides
<1>9. /\ rlen' \in Nat /\ rlen <= rlen' /\ rlen' <= Len(bus)
      /\ CeilDiv(Len(bus) - rlen', 4) = CeilDiv(Len(bus) - rlen, 4) - count
      /\ Len(bus) = rlen + adj + 4 * (CeilDiv(Len(bus) - rlen, 4) - First)
  BY <1>4, <1>5, Zenon DEF BurstNext
<1>10. Mem \subseteq Int
  BY MaxLenFact DEF Mem
<1>11. /\ Served \in [Mem -> Int]
       /\ \A q \in Mem : q < rlen \/ q >= rlen' => Served[q] = buf[q]
  BY <1>1, <1>2, ServedFact
<1>12. /\ rxf' \in Seq(Cell) /\ Len(rxf') = Len(rxf) - count
       /\ \A i \in 1 .. Len(rxf') : rxf'[i] = rxf[i + count]
  BY <1>1, <1>4, <1>8, LeftFact
<1>13. \A p \in 1 .. Len(bus') : bus'[p] = -Byte(In, p)
  BY <1>1, <1>7 DEF Contents
<1>14. \A p \in Mem : p >= tlen => Served[p] = p + 1
  <2>1. \A p \in Mem : p >= tlen => buf[p] = p + 1
    BY <1>7 DEF Contents
  <2>2. \A p \in Mem : p >= tlen => p >= rlen'
    BY <1>6, <1>8, <1>9, <1>10
  <2> QED
    BY <1>11, <2>1, <2>2
<1>15. \A p \in Mem : p >= tlen' => buf'[p] = p + 1
  BY <1>1, <1>6, <1>10, <1>14
<1>16. Covers(txf', Len(bus), tlen', 4, "out")
  <2>1. Covers(txf, Len(bus), tlen, 4, "out")
    BY <1>7, Zenon DEF Contents
  <2>2. Covers(txf \o Words(Served, tlen, 4, Refill), Len(bus), tlen + 4 * Refill, 4, "out")
    BY <1>6, <1>8, <1>11, <1>14, <2>1, SendCovers
  <2> QED
    BY <1>1, <2>2
<1>17. ASSUME Len(rxf') = CeilDiv(Len(bus) - rlen', 4)
       PROVE  /\ \A p \in Mem : 0 <= p /\ p < rlen' => buf'[p] = Byte(In, p + 1)
              /\ Covers(rxf', rlen', Len(bus), 4, In)
  <2>0. CeilDiv(Len(bus) - rlen, 4) \in Int
    <3>1. Len(bus) - rlen \in Int
      BY <1>3, <1>8
    <3> QED
      BY <3>1, CeilWords
  <2>1. Len(rxf) = CeilDiv(Len(bus) - rlen, 4)
    BY <1>8, <1>9, <1>12, <1>17, <2>0
  <2>2. Covers(rxf, rlen, Len(bus), 4, In)
    BY <1>7, <2>1, Zenon DEF Contents
  <2>3. \A p \in Mem : 0 <= p /\ p < rlen => buf[p] = Byte(In, p + 1)
    BY <1>7, <2>1, Zenon DEF Contents
  <2>4. First + Taken <= Len(rxf) /\ Len(bus) = rlen + adj + 4 * (Len(rxf) - First)
    BY <1>4, <1>8, <1>9, <2>1
  <2>5. \A q \in Mem : rlen <= q /\ q < rlen + adj + 4 * Taken => Served[q] = Byte(In, q + 1)
    BY <1>2, <2>2, <2>4, ServedBytes
  <2>6. \A p \in Mem : 0 <= p /\ p < rlen' => buf'[p] = Byte(In, p + 1)
    <3>1. SUFFICES ASSUME NEW p \in Mem, 0 <= p, p < rlen' PROVE Served[p] = Byte(In, p + 1)
      BY <1>1
    <3>2. p < rlen \/ rlen <= p
      BY <1>3, <1>10
    <3> QED
      BY <1>1, <1>11, <2>3, <2>5, <3>1, <3>2
  <2>7. Covers(rxf', rlen', Len(bus), 4, In)
    <3>1. rlen \in Int /\ rlen' \in Int /\ In \in Ways /\ count \in 0 .. Len(rxf)
      BY <1>3, <1>8, <1>9, WayFact
    <3> QED
      BY <1>8, <1>9, <1>12, <1>17, <2>2, <3>1, CoversRest
  <2> QED
    BY <2>6, <2>7
<1> QED
  <2>1. In' = In
    BY DEF IsrServe, lengths, thread, In
  <2> QED
    BY <1>1, <1>13, <1>15, <1>16, <1>17, <2>1 DEF Contents


(* The burst is at its end ... *)
LEMMA ServeBurstDone ==
  ASSUME EcspiInv, IsrServe, burst, ~late, rlen' >= BurstTo
  PROVE  Rest' /\ pulses' > 0
<1>1. /\ ipc = "serve" /\ ipc' = "idle" /\ adj' = 0 /\ rxf' = Left(First + Taken)
      /\ tlen' = tlen + 4 * Refill /\ bus' = bus /\ tpc' = tpc /\ tc' = tc /\ left' = left
  BY ServeBurstEffect
<1>2. brlen' >= bxlen \/ rlen' >= xlen
  BY ServeBurstCounts
<1>3. inten' = FALSE /\ pulses' = Least(pulses + 1, MaxPulses)
  BY <1>2, ServeBurstEffect
<1>4. tpc = "wait" /\ pulses = 0 /\ Work(4) /\ BurstWork
  BY <1>1, ServeBurstState
<1>5. pulses' = 1
  BY <1>3, <1>4, SizeFact DEF Least
<1>6. BurstNext(BurstTo, rlen, adj, Len(bus), tlen, count, Len(rxf), Len(txf), Refill, rlen')
  BY ServeBurstCounts
<1>7. /\ rlen' = Len(bus) /\ Len(bus) = tlen /\ tlen = BurstTo /\ Refill = 0 /\ Len(txf) = 0
      /\ count = Len(rxf) /\ Len(rxf) = CeilDiv(Len(bus) - rlen, 4)
  BY <1>6, Zenon DEF BurstNext
<1>8. /\ tlen \in Int /\ Stores' /\ Len(txf') = Len(txf) + Refill
  BY ServeBurstStores
<1>9. tlen' = tlen /\ Len(txf') = 0
  BY <1>1, <1>7, <1>8
<1>10. Len(rxf') = 0
  <2>1. First + Taken = count
    BY <1>1, ServeBurstTaken
  <2>2. rxf \in Seq(Cell) /\ Len(rxf) \in Nat
    BY DEF EcspiInv, Stores
  <2> QED
    BY <1>1, <1>7, <2>1, <2>2, LeftFact
<1>11. txf' = << >> /\ rxf' = << >>
  BY <1>8, <1>9, <1>10, EmptyFact DEF Stores
<1>12. ~tc
  <2>1. tc => count < Len(rxf) \/ Len(rxf) # CeilDiv(Len(bus) - rlen, 4)
    BY <1>1, <1>4, Zenon DEF Work
  <2>2. Len(rxf) \in Nat
    BY DEF EcspiInv, Stores
  <2>3. ~(count < Len(rxf))
    BY <1>7, <2>2
  <2> QED
    BY <1>7, <2>1, <2>3
<1>13. left = 0
  <2>1. left = IF Len(bus) = BurstFrom THEN 0 ELSE BurstTo - Len(bus)
    BY <1>4, Zenon DEF BurstWork
  <2> QED
    BY <1>7, <1>8, <2>1
<1> QED
  BY <1>1, <1>3, <1>4, <1>5, <1>7, <1>9, <1>11, <1>12, <1>13 DEF Rest

(* ... or not. *)
LEMMA ServeBurstGoesOn ==
  ASSUME EcspiInv, IsrServe, burst, ~late, ~(rlen' >= BurstTo)
  PROVE  Work(4)' /\ BurstWork' /\ ~(pulses' > 0)
<1>1. /\ ipc = "serve" /\ ipc' = "idle" /\ adj' = 0 /\ rxf' = Left(First + Taken)
      /\ tlen' = tlen + 4 * Refill /\ bus' = bus /\ tpc' = tpc /\ tc' = tc /\ left' = left
      /\ bcnt' = bcnt /\ bxlen' = bxlen
  BY ServeBurstEffect
<1>2. ~(brlen' >= bxlen \/ rlen' >= xlen)
  BY ServeBurstCounts
<1>3. xch' = TRUE /\ inten' = inten /\ pulses' = pulses
  BY <1>2, ServeBurstEffect
<1>4. /\ pulses = 0 /\ inten = TRUE /\ Work(4) /\ BurstWork /\ rlen \in Nat
      /\ BurstAt(BurstFrom, BurstTo, xlen, rlen, adj, Len(bus), tlen, count, Len(rxf), Len(txf))
  BY <1>1, ServeBurstState
<1>5. /\ BurstNext(BurstTo, rlen, adj, Len(bus), tlen, count, Len(rxf), Len(txf), Refill, rlen')
      /\ BurstTo' = BurstTo /\ BurstFrom' = BurstFrom /\ rlen' - brlen' = BurstFrom
  BY ServeBurstCounts
<1>6. /\ rlen' \in Nat /\ rlen' <= Len(bus)
      /\ CeilDiv(Len(bus) - rlen', 4) = CeilDiv(Len(bus) - rlen, 4) - count
      /\ CeilDiv(tlen + 4 * Refill - Len(bus), 4) = Len(txf) + Refill
      /\ (BurstTo - rlen') % 4 = 0 /\ (tlen + 4 * Refill - rlen') % 4 = 0
  BY <1>5, Zenon DEF BurstNext
<1>7. /\ BurstTo \in Int /\ BurstFrom \in Int /\ Len(bus) \in Nat /\ tlen \in Nat
      /\ BurstFrom < Len(bus) /\ Len(bus) <= tlen
      /\ count \in Nat /\ Len(rxf) \in Nat /\ count <= Len(rxf)
      /\ Len(rxf) <= CeilDiv(Len(bus) - rlen, 4)
  BY <1>4 DEF BurstAt
<1>8. (BurstTo - Len(bus)) % 4 = 0
  BY <1>4 DEF BurstAt
<1>9. Refill \in Nat /\ Len(txf') = Len(txf) + Refill
  BY ServeBurstStores
<1>10. Len(rxf') = Len(rxf) - count
  <2>1. First + Taken = count
    BY <1>1, ServeBurstTaken
  <2>2. rxf \in Seq(Cell)
    BY DEF EcspiInv, Stores
  <2> QED
    BY <1>1, <1>7, <2>1, <2>2, LeftFact
<1>11. CeilDiv(Len(bus) - rlen, 4) \in Int
  <2>1. Len(bus) - rlen \in Int
    BY <1>4, <1>7
  <2> QED
    BY <2>1, CeilWords
<1>12. Work(4)'
  <2>1. Len(bus') = Len(bus) /\ inten' /\ rlen' <= Len(bus)
    BY <1>1, <1>3, <1>4, <1>6
  <2>2. Len(bus) <= tlen'
    BY <1>1, <1>7, <1>9
  <2>3. Len(txf') = CeilDiv(tlen' - Len(bus), 4)
    <3>1. tlen' = tlen + 4 * Refill
      BY <1>1
    <3>2. CeilDiv(tlen' - Len(bus), 4) = CeilDiv(tlen + 4 * Refill - Len(bus), 4)
      <4> DEFINE t == tlen'
      <4>1. t = tlen + 4 * Refill /\ tlen \in Int /\ Refill \in Int /\ Len(bus) \in Int
        BY <1>7, <1>9, <3>1
      <4> HIDE DEF t
      <4>2. t - Len(bus) = tlen + 4 * Refill - Len(bus)
        BY <4>1
      <4>3. CeilDiv(t - Len(bus), 4) = CeilDiv(tlen + 4 * Refill - Len(bus), 4)
        BY <4>2, Zenon
      <4> QED
        BY <4>3, Zenon DEF t
    <3>3. CeilDiv(tlen + 4 * Refill - Len(bus), 4) = Len(txf')
      BY <1>6, <1>9
    <3> QED
      BY <3>2, <3>3, Zenon
  <2>4. Len(rxf') <= CeilDiv(Len(bus) - rlen', 4)
    BY <1>6, <1>7, <1>10, <1>11
  <2>5. ipc' # "read" /\ ipc' # "serve" /\ xch'
    BY <1>1, <1>3
  <2> QED
    BY <2>1, <2>2, <2>3, <2>4, <2>5, Zenon DEF Work
<1>13. InStep'
  <2>1. rlen' + adj' <= tlen'
    <3> DEFINE r == rlen'
               t == tlen'
    <3>1. r \in Nat /\ r <= Len(bus) /\ t = tlen + 4 * Refill /\ adj' = 0
      BY <1>1, <1>6
    <3>2. Len(bus) \in Nat /\ tlen \in Nat /\ Refill \in Nat /\ Len(bus) <= tlen
      BY <1>7, <1>9
    <3> HIDE DEF r, t
    <3>3. r + 0 <= t
      BY <3>1, <3>2
    <3> QED
      BY <3>1, <3>3 DEF r, t
  <2>2. tlen' - rlen' - adj' = tlen + 4 * Refill - rlen'
    BY <1>1, <1>6, <1>7, <1>9
  <2> QED
    BY <1>6, <2>1, <2>2 DEF InStep
<1>14. BurstWork'
  <2>1. rlen' < BurstTo' /\ rlen' - brlen' = BurstFrom' /\ bcnt' = bxlen'
    <3>1. bcnt = bxlen
      BY <1>4, Zenon DEF BurstWork
    <3> QED
      BY <1>1, <1>5, <1>6, <1>7, <3>1
  <2>2. (BurstTo' - rlen' - adj') % 4 = 0
    <3>1. BurstTo' - rlen' - adj' = BurstTo - rlen'
      BY <1>1, <1>5, <1>6, <1>7
    <3> QED
      BY <1>6, <3>1
  <2>3. adj' = 0 /\ Len(bus') = Len(bus) /\ Len(bus) >= BurstFrom' /\ Len(bus) # BurstFrom'
    BY <1>1, <1>5, <1>7
  <2>4. left' = BurstTo' - Len(bus)
    <3>1. left = IF Len(bus) = BurstFrom THEN 0 ELSE BurstTo - Len(bus)
      BY <1>4, Zenon DEF BurstWork
    <3> QED
      BY <1>1, <1>5, <1>7, <3>1
  <2>5. (BurstTo' - Len(bus)) % 4 = 0
    BY <1>5, <1>8
  <2> QED
    BY <1>13, <2>1, <2>2, <2>3, <2>4, <2>5, Zenon DEF BurstWork
<1> QED
  BY <1>3, <1>4, <1>12, <1>14

(* The handler serves the interrupt, with bursts. *)
LEMMA ServeBurstStep ==
  ASSUME EcspiInv, IsrServe, burst
  PROVE  EcspiInv'
<1>1. /\ ipc = "serve" /\ ipc' = "idle" /\ count' = 0 /\ adj' = 0
      /\ UNCHANGED <<tpc, burst, nx, result, xlen, dlen, bxlen, tc, bcnt, left>>
      /\ UNCHANGED <<hung, late>>
  BY ServeBurstEffect
<1>2. \/ inten' = FALSE /\ pulses' = Least(pulses + 1, MaxPulses) /\ xch' = xch
      \/ xch' = TRUE /\ inten' = inten /\ pulses' = pulses
  BY ServeBurstEffect
<1>3. Flags /\ Numbers /\ Started /\ Stores /\ BurstInv
  BY DEF EcspiInv
<1>4. /\ BurstShape' /\ rlen' \in -1 .. MaxLen + 3 /\ tlen' \in 0 .. MaxLen + 3
      /\ brlen' \in 0 .. BurstMax /\ btlen' \in 0 .. BurstMax
  BY ServeBurstShape
<1>5. Stores'
  BY ServeBurstStores
<1>6. Flags'
  BY <1>1, <1>2, <1>3 DEF Flags
<1>7. Started'
  BY <1>1, <1>3 DEF Started
<1>8. Numbers'
  <2>1. pulses' \in 0 .. MaxPulses
    BY <1>2, <1>3, SizeFact DEF Numbers, Least
  <2>2. count' \in 0 .. FifoSize /\ adj' \in 0 .. 3
    BY <1>1, SizeFact
  <2> QED
    BY <1>1, <1>3, <1>4, <2>1, <2>2 DEF Numbers
<1>9. ASSUME ~late
      PROVE  /\ IF tpc' # "wait" \/ pulses' > 0 THEN Rest' ELSE Work(4)' /\ BurstWork'
             /\ tpc' = "wait" /\ Contents(4)'
  <2>1. tpc' = "wait"
    BY <1>1, <1>9, ServeBurstState
  <2>2. Contents(4)'
    BY <1>9, ServeBurstContents
  <2>3. CASE rlen' >= BurstTo
    BY <1>9, <2>1, <2>2, <2>3, ServeBurstDone
  <2>4. CASE ~(rlen' >= BurstTo)
    BY <1>9, <2>1, <2>2, <2>4, ServeBurstGoesOn
  <2> QED
    BY <2>3, <2>4
<1>10. BurstInv'
  <2>1. ~late
    BY DEF EcspiInv, BurstInv
  <2> QED
    BY <1>1, <1>4, <1>9, <2>1 DEF BurstInv
<1>11. Exchange'
  BY <1>1, <1>9 DEF Exchange, Unit
<1> QED
  BY <1>1, <1>5, <1>6, <1>7, <1>8, <1>10, <1>11 DEF EcspiInv

-----------------------------------------------------------------------------
(***************************************************************************)
(* The invariant and what follows from it.                                 *)
(***************************************************************************)
(* With bursts and after a time-out nothing is claimed. *)
Claimed == ~(burst /\ late)

(* Every step keeps the invariant. *)
LEMMA NextStep ==
  ASSUME EcspiInv, [Next]_vars, Claimed'
  PROVE  EcspiInv'
<1>1. ASSUME NEW x \in Lens, NEW d \in DLens, Xfer(x, d) PROVE EcspiInv'
  BY <1>1, XferStep DEF Claimed
<1>2. CASE Loop
  <2>1. CASE ~(rlen < xlen /\ tlen < xlen)
    BY <1>2, <2>1, LoopReturnStep
  <2>2. CASE rlen < xlen /\ tlen < xlen /\ burst
    BY <1>2, <2>2, StartBurstStep
  <2>3. CASE rlen < xlen /\ tlen < xlen /\ ~burst
    BY <1>2, <2>3, StartUnitsStep
  <2> QED
    BY <2>1, <2>2, <2>3
<1>3. CASE WaitPulse
  BY <1>3, WaitPulseStep
<1>4. CASE WaitTimeout
  BY <1>4, WaitTimeoutStep
<1>5. CASE IsrEnter
  BY <1>5, IsrEnterStep
<1>6. CASE IsrRead
  BY <1>6, IsrReadStep
<1>7. CASE IsrServe
  <2>1. CASE burst
    BY <1>7, <2>1, ServeBurstStep
  <2>2. CASE ~burst
    BY <1>7, <2>2, ServeUnitsStep
  <2> QED
    BY <2>1, <2>2
<1>8. CASE HwShift
  BY <1>8, HwShiftStep
<1>9. CASE HwHang
  BY <1>9, HwHangStep
<1>11. CASE SizeBurst \/ CutBurst \/ FillBurst
  BY <1>11, Zenon DEF SizeBurst, CutBurst, FillBurst, EcspiInv, Numbers
<1>10. CASE UNCHANGED vars
  <2>1. /\ UNCHANGED <<tpc, burst, nx, result, xlen, dlen, bxlen, rlen, tlen, brlen, btlen>>
        /\ UNCHANGED <<adj, pulses, ipc, count, inten, tc, xch, bcnt, left, hung>>
        /\ UNCHANGED <<txf, rxf, buf, bus, late>>
    BY <1>10 DEF vars, thread, lengths, handler, ctrl
  <2>2. Flags' /\ Started'
    BY <2>1 DEF EcspiInv, Flags, Started
  <2>3. Numbers'
    BY <2>1 DEF EcspiInv, Numbers
  <2>4. Stores'
    BY <2>1 DEF EcspiInv, Stores
  <2>5. Rest' <=> Rest
    BY <2>1 DEF Rest, Stride
  <2>7. ~burst => UnitsInv'
    BY <2>1, Zenon DEF EcspiInv, UnitsInv, Dead, Stride, RxMark, Work, UnitsWork, Rest
  <2>8. burst => BurstInv'
    <3>1. burst => BurstShape'
      BY <2>1, Zenon DEF EcspiInv, BurstInv, BurstShape
    <3>2. BurstWork' <=> BurstWork
      BY <2>1, Zenon DEF BurstWork, InStep, BurstFrom, BurstTo
    <3>3. Work(4)' <=> Work(4)
      BY <2>1, Zenon DEF Work, RxMark
    <3> QED
      BY <2>1, <2>5, <3>1, <3>2, <3>3 DEF EcspiInv, BurstInv
  <2>9. Exchange'
    BY <2>1, Zenon DEF EcspiInv, Exchange, Contents, Unit, In, Stride
  <2> QED
    BY <2>1, <2>2, <2>3, <2>4, <2>7, <2>8, <2>9 DEF EcspiInv
<1> QED
  BY <1>1, <1>2, <1>3, <1>4, <1>5, <1>6, <1>7, <1>8, <1>9, <1>10, <1>11 DEF Next, Thread, Isr

(* A transfer that has timed out does not report a length. *)
Reported == tpc = "idle" /\ rlen < 0 => result <= 0

LEMMA ReportedStep ==
  ASSUME EcspiInv, Reported, [Next]_vars, Claimed'
  PROVE  Reported'
<1>0. rlen \in Int /\ result \in Int
  BY MaxLenFact DEF EcspiInv, Numbers
<1>1. ASSUME NEW x \in Lens, NEW d \in DLens, Xfer(x, d) PROVE Reported'
  BY <1>1 DEF Xfer, Reported
<1>2. CASE Loop
  <2>1. CASE ~(rlen < xlen /\ tlen < xlen)
    BY <1>0, <1>2, <2>1 DEF Loop, Return, Reported
  <2>2. CASE rlen < xlen /\ tlen < xlen /\ burst
    BY <1>2, <2>2 DEF Loop, BeginBurst, StartBurst, Return, Reported
  <2>3. CASE rlen < xlen /\ tlen < xlen /\ ~burst
    BY <1>2, <2>3 DEF Loop, Overtaken, StartUnits, Reported
  <2> QED
    BY <2>1, <2>2, <2>3
<1>3. CASE WaitPulse
  BY <1>3 DEF WaitPulse, Reported
<1>4. CASE WaitTimeout
  BY <1>4 DEF WaitTimeout, Reported
<1>5. CASE IsrEnter
  BY <1>5 DEF IsrEnter, thread, Reported
<1>6. CASE IsrRead
  BY <1>6 DEF IsrRead, thread, Reported
<1>7. CASE IsrServe
  <2>1. tpc' = tpc /\ result' = result
    BY <1>7 DEF IsrServe, thread
  <2>2. rlen <= rlen'
    <3>1. CASE burst
      <4>1. rlen' = rlen + adj + 4 * Taken
        BY <1>7, <3>1, ServeBurstEffect
      <4>2. Taken \in Nat /\ adj \in Nat
        BY TakenFact DEF EcspiInv, Numbers
      <4> QED
        BY <1>0, <4>1, <4>2
    <3>2. CASE ~burst
      <4>1. rlen' = rlen + count * Stride
        BY <1>7, <3>2 DEF IsrServe, IsrUnits
      <4>2. count \in Nat /\ Stride \in Strides
        BY SizeFact, StrideFact DEF EcspiInv, Numbers
      <4>3. count * Stride \in Nat
        BY <4>2 DEF Strides
      <4> QED
        BY <1>0, <4>1, <4>3
    <3> QED
      BY <3>1, <3>2
  <2>3. rlen' \in Int
    BY <1>7, NextStep, MaxLenFact DEF EcspiInv, Numbers
  <2> QED
    BY <1>0, <2>1, <2>2, <2>3 DEF Reported
<1>8. CASE HwShift
  BY <1>8 DEF HwShift, thread, Reported
<1>9. CASE HwHang
  BY <1>9 DEF HwHang, thread, Reported
<1>10. CASE UNCHANGED vars
  BY <1>10 DEF vars, thread, Reported
<1>11. CASE SizeBurst \/ CutBurst \/ FillBurst
  BY <1>11, Zenon DEF SizeBurst, CutBurst, FillBurst, EcspiInv, Numbers
<1> QED
  BY <1>1, <1>2, <1>3, <1>4, <1>5, <1>6, <1>7, <1>8, <1>9, <1>10, <1>11 DEF Next, Thread, Isr

(* After a time-out with bursts there is no way back. *)
LEMMA LateStep == [Next]_vars /\ Claimed' => Claimed
<1> SUFFICES ASSUME [Next]_vars, burst, late PROVE burst' /\ late'
  BY DEF Claimed
<1>1. ASSUME NEW x \in Lens, NEW d \in DLens, Xfer(x, d) PROVE burst' /\ late'
  BY <1>1 DEF Xfer
<1>2. CASE Loop \/ SizeBurst \/ CutBurst \/ FillBurst
  BY <1>2 DEF Loop, SizeBurst, CutBurst, FillBurst
<1>3. CASE WaitPulse \/ WaitTimeout
  BY <1>3 DEF WaitPulse, WaitTimeout
<1>4. CASE Isr
  BY <1>4 DEF Isr, IsrEnter, IsrRead, IsrServe, thread
<1>5. CASE HwShift \/ HwHang
  BY <1>5 DEF HwShift, HwHang, thread
<1>6. CASE UNCHANGED vars
  BY <1>6 DEF vars, thread
<1> QED
  BY <1>1, <1>2, <1>3, <1>4, <1>5, <1>6 DEF Next, Thread

(***************************************************************************)
(* The counters of mx51_xfer and of spi_intr, the FIFOs, the buffer and    *)
(* the bus fit together in every state: without bursts in all of them,     *)
(* with bursts up to the end of the first transfer that times out.         *)
(***************************************************************************)
THEOREM EcspiInvariant == Spec => [](Claimed => EcspiInv /\ Reported)
<1> DEFINE I == Claimed => EcspiInv /\ Reported
<1>1. Init => I
  BY InitInv DEF Init, Reported
<1>2. I /\ [Next]_vars => I'
  BY NextStep, ReportedStep, LateStep
<1> HIDE DEF I
<1>3. Spec => []I
  BY <1>1, <1>2, PTL DEF Spec
<1> QED
  BY <1>3 DEF I

(* The values of tpc, ipc and the flags, which no order of steps leaves. *)
States ==
  /\ tpc \in {"idle", "loop", "size", "cut", "fill", "wait"}
  /\ burst \in BOOLEAN /\ inten \in BOOLEAN /\ hung \in BOOLEAN /\ late \in BOOLEAN
  /\ ipc \in {"idle", "read", "serve"}

LEMMA StatesStep == States /\ [Next]_vars => States'
<1> SUFFICES ASSUME States, [Next]_vars PROVE States'
  OBVIOUS
<1> USE DEF States
<1>1. ASSUME NEW x \in Lens, NEW d \in DLens, Xfer(x, d) PROVE States'
  BY <1>1 DEF Xfer, handler
<1>2. CASE Loop
  BY <1>2 DEF Loop, BeginBurst, StartBurst, StartUnits, Return, handler
<1>3. CASE SizeBurst
  BY <1>3 DEF SizeBurst, handler, ctrl
<1>4. CASE CutBurst
  BY <1>4 DEF CutBurst, Return, handler
<1>5. CASE FillBurst
  BY <1>5 DEF FillBurst, Return, handler
<1>6. CASE WaitPulse \/ WaitTimeout
  BY <1>6 DEF WaitPulse, WaitTimeout, handler, ctrl
<1>7. CASE IsrEnter
  BY <1>7 DEF IsrEnter, thread, ctrl
<1>8. CASE IsrRead
  BY <1>8 DEF IsrRead, thread
<1>9. CASE IsrServe
  BY <1>9 DEF IsrServe, IsrBurst, IsrUnits, Finish, thread
<1>10. CASE HwShift \/ HwHang
  BY <1>10 DEF HwShift, HwHang, thread, handler
<1>11. CASE UNCHANGED vars
  BY <1>11 DEF vars, thread, handler, ctrl
<1> QED
  BY <1>1, <1>2, <1>3, <1>4, <1>5, <1>6, <1>7, <1>8, <1>9, <1>10, <1>11
     DEF Next, Thread, Isr

(***************************************************************************)
(* Every variable of the driver and of the controller keeps its type; in   *)
(* particular no burst of mx51_xfer is longer than MX51_CSPI_BURST_MAX, up *)
(* to the end of the first transfer that times out.                        *)
(***************************************************************************)
THEOREM EcspiTypeCorrect == Spec => []TypeOK
<1>1. Init => States
  BY DEF Init, States
<1>2. (Claimed => EcspiInv /\ Reported) /\ States => TypeOK
  BY DEF Claimed, States, EcspiInv, Flags, Numbers, Stores, TypeOK
<1> QED
  BY <1>1, <1>2, StatesStep, EcspiInvariant, PTL DEF Spec

(***************************************************************************)
(* For every length, unit length, FIFO size and order of interrupts, with  *)
(* cut first words and refills, spi_intr writes what it receives only      *)
(* where data has been sent, and neither it nor mx51_xfer leaves the       *)
(* client's buffer - with bursts up to the end of the first transfer that  *)
(* times out, without when the length is a number of whole units.          *)
(***************************************************************************)
THEOREM EcspiStaysInBuffer == Spec => []StaysInBuffer
<1>1. (Claimed => EcspiInv /\ Reported) => StaysInBuffer
  <2> SUFFICES ASSUME EcspiInv, IF burst THEN ~late ELSE xlen % Stride = 0
               PROVE  rlen <= tlen /\ tlen <= xlen
    BY DEF StaysInBuffer, Claimed
  <2>1. /\ rlen \in Int /\ tlen \in Nat /\ xlen \in Nat /\ bxlen \in Int /\ brlen \in Int
        /\ adj \in Nat /\ Stride \in Strides /\ Len(bus) \in Nat
    BY SizeFact, MaxLenFact, StrideFact DEF EcspiInv, Numbers, Stores
  <2>2. CASE burst
    <3>1. tlen <= xlen /\ (rlen >= 0 => Rest \/ InStep)
      BY <2>2 DEF EcspiInv, BurstInv, BurstShape, BurstWork
    <3>2. InStep => rlen <= tlen
      BY <2>1 DEF InStep
    <3>3. Rest => rlen <= tlen
      BY <2>1 DEF Rest
    <3> QED
      BY <2>1, <3>1, <3>2, <3>3
  <2>3. CASE ~burst
    <3>1. UnitsInv /\ xlen % Stride = 0
      BY <2>3 DEF EcspiInv
    <3>2. tlen % Stride = 0 /\ tlen < xlen + Stride
      BY <3>1 DEF UnitsInv
    <3>3. tlen <= xlen
      BY <2>1, <3>1, <3>2 DEF Strides
    <3>4. (late \/ rlen < 0) => rlen <= 0
      BY <3>1 DEF UnitsInv
    <3>5. ~late /\ rlen >= 0 => Rest \/ Work(Stride)
      BY <3>1 DEF UnitsInv
    <3>6. Rest => rlen <= tlen
      BY <2>1 DEF Rest
    <3>7. Work(Stride) => rlen <= Len(bus) /\ Len(bus) <= tlen
      BY Zenon DEF Work
    <3> QED
      BY <2>1, <3>3, <3>4, <3>5, <3>6, <3>7
  <2> QED
    BY <2>2, <2>3
<1> QED
  BY <1>1, EcspiInvariant, PTL

(***************************************************************************)
(* What mx51_xfer reports as transferred has been exchanged, byte by byte, *)
(* although the receive FIFO may overflow without being looked at: a burst *)
(* that has lost a word does not come to its end.  As long as no transfer  *)
(* has timed out.                                                          *)
(***************************************************************************)
THEOREM EcspiSuccessIsExchange == Spec => []SuccessIsExchange
<1>1. (Claimed => EcspiInv /\ Reported) => SuccessIsExchange
  <2> SUFFICES ASSUME EcspiInv, Reported, tpc = "idle", ~late, result > 0
               PROVE  Exchanged(Least(result, xlen))
    BY DEF SuccessIsExchange, Claimed
  <2>1. /\ rlen \in Int /\ result \in Int /\ xlen \in Int /\ rlen <= MaxLen + 3
        /\ MaxLen \in Nat /\ Stride \in Strides /\ Len(bus) \in Nat
    BY MaxLenFact, StrideFact DEF EcspiInv, Numbers, Stores
  <2>2. rlen >= 0
    BY <2>1 DEF Reported
  <2>3. Rest
    BY <2>2 DEF EcspiInv, UnitsInv, BurstInv
  <2>4. Contents(Unit) /\ result = rlen
    BY <2>2 DEF EcspiInv, Exchange
  <2>5. Len(bus) = rlen /\ rxf = << >>
    BY <2>3 DEF Rest
  <2>6. Len(rxf) = 0 /\ CeilDiv(Len(bus) - rlen, Unit) = 0
    BY <2>1, <2>5 DEF CeilDiv
  <2>7. \A p \in Mem : 0 <= p /\ p < rlen => buf[p] = Byte(In, p + 1)
    BY <2>4, <2>6, Zenon DEF Contents
  <2>8. \A p \in 1 .. Len(bus) : bus[p] = -Byte(In, p)
    BY <2>4, Zenon DEF Contents
  <2>9. Least(result, xlen) \in Int /\ Least(result, xlen) <= rlen
    BY <2>1, <2>4, LeastFact
  <2>10. ASSUME NEW p \in 0 .. Least(result, xlen) - 1
         PROVE  p < Len(bus) /\ (~Skipped(p) => bus[p + 1] = p + 1 /\ buf[p] = -(p + 1))
    <3>1. p \in Int /\ 0 <= p /\ p < rlen /\ p + 1 \in 1 .. Len(bus) /\ p < Len(bus)
      BY <2>1, <2>5, <2>9
    <3>2. p \in Mem
      BY <2>1, <3>1 DEF Mem
    <3>3. bus[p + 1] = -Byte(In, p + 1) /\ buf[p] = Byte(In, p + 1)
      BY <2>7, <2>8, <3>1, <3>2
    <3>4. ~Skipped(p) => Byte(In, p + 1) = -(p + 1)
      <4>1. (p + 1) % 4 = 1 <=> p % 4 = 0
        BY <3>1
      <4> QED
        BY <3>1, <4>1 DEF Skipped, In, Byte
    <3> QED
      BY <3>1, <3>3, <3>4
  <2> QED
    BY <2>10 DEF Exchanged
<1> QED
  BY <1>1, EcspiInvariant, PTL
=============================================================================
