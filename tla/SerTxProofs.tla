----------------------------- MODULE SerTxProofs -----------------------------
(***************************************************************************)
(* Proofs about SerTx, for every size of the transfer buffer and of the    *)
(* FIFO, every number of characters, stops and injected characters, on one *)
(* processor and on several: the types and that the output leaves in       *)
(* order, each character once.                                             *)
(***************************************************************************)
EXTENDS SerTx, SequenceTheorems, TLAPS

(* Two characters are in the order in which clients wrote them. *)
Later(x, y) == x # Cntl /\ y # Cntl => x < y

Ordered(s) == \A i, j \in 1 .. Len(s) : i < j => Later(s[i], s[j])

(* Every character of one sequence was written before those of the other. *)
Ahead(s, t) == \A i \in 1 .. Len(s), j \in 1 .. Len(t) : Later(s[i], t[j])

(***************************************************************************)
(* What is known of a transfer: who may touch tx_dma.buf and when.  While  *)
(* tx_xfer_active is set the transfer has been filled and nothing has been *)
(* put in the buffer since; tto fills it, starts it or gives it up only as *)
(* Test found tx_xfer_active and usedma.                                   *)
(***************************************************************************)
Transfer ==
  /\ dma # << >> \/ pulse => active
  /\ pulse => dma = << >>
  /\ active => usedma /\ buf = << >>
  /\ ~usedma => buf = << >>
  /\ tpc \in {"timed", "cleanup"} => usedma /\ buf = << >>
  /\ tpc \in {"fill", "start", "go"} => usedma /\ ~active
  /\ tpc \in {"flags", "pio", "pioend"} => ~usedma

(* The output is in order, and complete but for what has been given up, *)
(* which has been written before.                                       *)
StreamOK ==
  /\ Ordered(Stream)
  /\ ToSet(Stream) \ {Cntl} = (1 .. nw) \ lost
  /\ lost \subseteq Cntl .. nw

SerInv == TypeOK /\ Transfer /\ StreamOK
-----------------------------------------------------------------------------
(***************************************************************************)
(* Sequences.                                                              *)
(***************************************************************************)
(* s \o t, under a name that hides from the provers what it is made of. *)
Cat(s, t) == s \o t

(* The rules of concatenation that the proofs below use. *)
LEMMA CatRules ==
  ASSUME NEW S, NEW s \in Seq(S), NEW t \in Seq(S)
  PROVE  Cat(s, t) \in Seq(S) /\ Cat(s, << >>) = s /\ Cat(<< >>, s) = s
  BY ConcatProperties, ConcatEmptySeq DEF Cat

(* Concatenation is associative. *)
LEMMA CatAssoc ==
  ASSUME NEW S, NEW s \in Seq(S), NEW t \in Seq(S), NEW u \in Seq(S)
  PROVE  Cat(Cat(s, t), u) = Cat(s, Cat(t, u))
  BY ConcatAssociative DEF Cat

(* The elements of a sequence c that is made of s and t are theirs. *)
MadeOf(c, s, t) ==
  /\ Len(s) \in Nat
  /\ \A i \in 1 .. Len(s) : i \in 1 .. Len(c) /\ c[i] = s[i]
  /\ \A i \in 1 .. Len(t) : i + Len(s) \in 1 .. Len(c) /\ c[i + Len(s)] = t[i]
  /\ \A i \in 1 .. Len(c) :
       i \in 1 .. Len(s) \/ (i - Len(s) \in 1 .. Len(t) /\ i > Len(s))

(* A concatenation is made of its parts. *)
LEMMA CatIndex ==
  ASSUME NEW S, NEW s \in Seq(S), NEW t \in Seq(S)
  PROVE  Len(Cat(s, t)) = Len(s) + Len(t) /\ MadeOf(Cat(s, t), s, t)
<1>1. /\ Cat(s, t) \in Seq(S) /\ Len(Cat(s, t)) = Len(s) + Len(t)
      /\ \A i \in 1 .. Len(s) + Len(t) :
           Cat(s, t)[i] = IF i <= Len(s) THEN s[i] ELSE t[i - Len(s)]
  BY ConcatProperties DEF Cat
<1>2. Len(s) \in Nat /\ Len(t) \in Nat
  BY LenProperties
<1>3. ASSUME NEW i \in 1 .. Len(s)
      PROVE  i \in 1 .. Len(Cat(s, t)) /\ Cat(s, t)[i] = s[i]
  BY <1>1, <1>2
<1>4. ASSUME NEW i \in 1 .. Len(t)
      PROVE  /\ i + Len(s) \in 1 .. Len(Cat(s, t))
             /\ Cat(s, t)[i + Len(s)] = t[i]
  <2>1. /\ i + Len(s) \in 1 .. Len(s) + Len(t) /\ ~(i + Len(s) <= Len(s))
        /\ (i + Len(s)) - Len(s) = i
    BY <1>2
  <2> QED
    BY <1>1, <2>1
<1>5. ASSUME NEW i \in 1 .. Len(Cat(s, t))
      PROVE  i \in 1 .. Len(s) \/ (i - Len(s) \in 1 .. Len(t) /\ i > Len(s))
  BY <1>1, <1>2
<1> QED
  BY <1>1, <1>2, <1>3, <1>4, <1>5 DEF MadeOf

(* The set of a concatenation. *)
LEMMA CatSet ==
  ASSUME NEW S, NEW s \in Seq(S), NEW t \in Seq(S)
  PROVE  ToSet(Cat(s, t)) = ToSet(s) \cup ToSet(t)
<1> DEFINE c == Cat(s, t)
<1>0. MadeOf(c, s, t) /\ c \in Seq(S)
  BY CatIndex, CatRules
<1> HIDE DEF c
<1>1. /\ Len(s) \in Nat /\ c \in Seq(S)
      /\ \A i \in 1 .. Len(s) : i \in 1 .. Len(c) /\ c[i] = s[i]
      /\ \A i \in 1 .. Len(t) : i + Len(s) \in 1 .. Len(c) /\ c[i + Len(s)] = t[i]
      /\ \A i \in 1 .. Len(c) :
           i \in 1 .. Len(s) \/ (i - Len(s) \in 1 .. Len(t) /\ i > Len(s))
  BY <1>0 DEF MadeOf
<1>2. /\ DOMAIN s = 1 .. Len(s) /\ DOMAIN t = 1 .. Len(t)
      /\ DOMAIN c = 1 .. Len(c)
  BY <1>1, LenProperties
<1>3. ASSUME NEW i \in 1 .. Len(c)
      PROVE  c[i] \in ToSet(s) \cup ToSet(t)
  <2>1. CASE i \in 1 .. Len(s)
    BY <1>1, <1>2, <2>1 DEF ToSet
  <2>2. CASE i - Len(s) \in 1 .. Len(t)
    <3>1. (i - Len(s)) + Len(s) = i
      BY <1>1
    <3>2. c[i] = t[i - Len(s)]
      BY <1>1, <2>2, <3>1
    <3> QED
      BY <1>2, <2>2, <3>2 DEF ToSet
  <2> QED
    BY <1>1, <2>1, <2>2
<1>4. ToSet(c) \subseteq ToSet(s) \cup ToSet(t)
  BY <1>2, <1>3 DEF ToSet
<1>5. ToSet(s) \subseteq ToSet(c) /\ ToSet(t) \subseteq ToSet(c)
  BY <1>1, <1>2 DEF ToSet
<1> QED
  BY <1>4, <1>5 DEF c

(* A concatenation is in order if its parts are. *)
LEMMA CatOrder ==
  ASSUME NEW S, NEW s \in Seq(S), NEW t \in Seq(S)
  PROVE  Ordered(Cat(s, t)) <=> Ordered(s) /\ Ordered(t) /\ Ahead(s, t)
<1> DEFINE c == Cat(s, t)
<1>0. MadeOf(c, s, t)
  BY CatIndex, CatRules
<1> HIDE DEF c
<1>1. /\ Len(s) \in Nat
      /\ \A i \in 1 .. Len(s) : i \in 1 .. Len(c) /\ c[i] = s[i]
      /\ \A i \in 1 .. Len(t) : i + Len(s) \in 1 .. Len(c) /\ c[i + Len(s)] = t[i]
      /\ \A i \in 1 .. Len(c) :
           i \in 1 .. Len(s) \/ (i - Len(s) \in 1 .. Len(t) /\ i > Len(s))
  BY <1>0 DEF MadeOf
<1>2. ASSUME Ordered(c) PROVE Ordered(s)
  BY <1>1, <1>2 DEF Ordered
<1>3. ASSUME Ordered(c) PROVE Ordered(t)
  <2>1. \A i, j \in 1 .. Len(t) : i < j => i + Len(s) < j + Len(s)
    BY <1>1
  <2> QED
    BY <1>1, <1>3, <2>1 DEF Ordered
<1>4. ASSUME Ordered(c) PROVE Ahead(s, t)
  <2>1. \A i \in 1 .. Len(s), j \in 1 .. Len(t) : i < j + Len(s)
    BY <1>1
  <2> QED
    BY <1>1, <1>4, <2>1 DEF Ordered, Ahead
<1>5. ASSUME Ordered(s), Ordered(t), Ahead(s, t),
             NEW i \in 1 .. Len(c), NEW j \in 1 .. Len(c), i < j
      PROVE  Later(c[i], c[j])
  <2>1. ASSUME NEW n \in 1 .. Len(c), n - Len(s) \in 1 .. Len(t)
        PROVE  c[n] = t[n - Len(s)]
    <3>1. (n - Len(s)) + Len(s) = n
      BY <1>1
    <3> QED
      BY <1>1, <2>1, <3>1
  <2>2. CASE i \in 1 .. Len(s)
    <3>1. CASE j \in 1 .. Len(s)
      BY <1>1, <1>5, <2>2, <3>1 DEF Ordered
    <3>2. CASE j - Len(s) \in 1 .. Len(t)
      BY <1>1, <1>5, <2>1, <2>2, <3>2 DEF Ahead
    <3> QED
      BY <1>1, <3>1, <3>2
  <2>3. CASE i - Len(s) \in 1 .. Len(t) /\ i > Len(s)
    <3>1. ~(j \in 1 .. Len(s)) /\ i - Len(s) < j - Len(s)
      BY <1>1, <1>5, <2>3
    <3>2. j - Len(s) \in 1 .. Len(t)
      BY <1>1, <3>1
    <3> QED
      BY <1>5, <2>1, <2>3, <3>1, <3>2 DEF Ordered
  <2> QED
    BY <1>1, <2>2, <2>3
<1>6. ASSUME Ordered(s), Ordered(t), Ahead(s, t) PROVE Ordered(c)
  BY <1>5, <1>6 DEF Ordered
<1> QED
  BY <1>2, <1>3, <1>4, <1>6 DEF c

(* A character goes from the front of one queue to the end of another. *)
LEMMA MoveOne ==
  ASSUME NEW S, NEW s \in Seq(S), NEW t \in Seq(S), t # << >>
  PROVE  /\ Append(s, Head(t)) \in Seq(S) /\ Tail(t) \in Seq(S)
         /\ Len(Append(s, Head(t))) = Len(s) + 1
         /\ Len(Tail(t)) = Len(t) - 1
         /\ Cat(Append(s, Head(t)), Tail(t)) = Cat(s, t)
<1> DEFINE h == Head(t)
           r == Tail(t)
<1>1. /\ h \in S /\ r \in Seq(S) /\ Len(r) = Len(t) - 1
      /\ Cat(<<h>>, r) = t
  BY HeadTailProperties, EmptySeq DEF Cat
<1> HIDE DEF h, r
<1>2. /\ Append(s, h) \in Seq(S) /\ Len(Append(s, h)) = Len(s) + 1
      /\ Append(s, h) = Cat(s, <<h>>)
  BY <1>1, AppendIsConcat, AppendProperties DEF Cat
<1>3. <<h>> \in Seq(S)
  BY <1>1
<1>4. Cat(Cat(s, <<h>>), r) = Cat(s, Cat(<<h>>, r))
  <2> DEFINE o == <<h>>
  <2>1. o \in Seq(S)
    BY <1>3
  <2> HIDE DEF o
  <2>2. Cat(Cat(s, o), r) = Cat(s, Cat(o, r))
    BY <1>1, <2>1, CatAssoc
  <2> QED
    BY <2>2 DEF o
<1> QED
  BY <1>1, <1>2, <1>4 DEF h, r

(* A transfer of one character is over when it has been moved. *)
LEMMA TailOfOne ==
  ASSUME NEW S, NEW s \in Seq(S), Len(s) = 1 PROVE Tail(s) = << >>
<1>1. s # << >>
  BY EmptySeq
<1>2. Tail(s) \in Seq(S) /\ Len(Tail(s)) = 0
  BY <1>1, MoveOne
<1> QED
  BY <1>2, EmptySeq

(* The first k characters of a queue, and the rest of it. *)
First(t, k) == SubSeq(t, 1, k)
Rest(t, k)  == SubSeq(t, k + 1, Len(t))

(* The first k characters go from one queue to the other. *)
LEMMA MovePrefix ==
  ASSUME NEW S, NEW s \in Seq(S), NEW t \in Seq(S), NEW k \in 0 .. Len(t)
  PROVE  /\ Cat(s, First(t, k)) \in Seq(S)
         /\ Len(Cat(s, First(t, k))) = Len(s) + k
         /\ Rest(t, k) \in Seq(S)
         /\ Cat(Cat(s, First(t, k)), Rest(t, k)) = Cat(s, t)
<1>1. /\ Len(t) \in Nat /\ k \in Int /\ k <= Len(t) /\ k >= 0
      /\ \A i \in 1 .. Len(t) : t[i] \in S
  BY LenProperties, ElementOfSeq
<1>2. First(t, k) \in Seq(S) /\ Len(First(t, k)) = k /\ Rest(t, k) \in Seq(S)
  BY <1>1, SubSeqProperties DEF First, Rest
<1>3. Cat(First(t, k), Rest(t, k)) = t
  <2>1. /\ 1 \in 1 .. Len(t) + 1 /\ k \in (1 - 1) .. Len(t)
        /\ Len(t) \in k .. Len(t)
    BY <1>1
  <2>2. First(t, k) \o Rest(t, k) = SubSeq(t, 1, Len(t))
    BY <2>1, ConcatAdjacentSubSeq, Zenon DEF First, Rest
  <2> QED
    BY <2>2, SubSeqFull DEF Cat
<1>4. Cat(s, First(t, k)) \in Seq(S) /\ Len(Cat(s, First(t, k))) = Len(s) + k
  BY <1>2, CatIndex, CatRules
<1>5. Cat(Cat(s, First(t, k)), Rest(t, k)) = Cat(s, Cat(First(t, k), Rest(t, k)))
  BY <1>2, CatAssoc
<1> QED
  BY <1>2, <1>3, <1>4, <1>5

(* Ahead is about the sets only. *)
LEMMA AheadSets ==
  ASSUME NEW S, NEW s \in Seq(S), NEW t \in Seq(S)
  PROVE  Ahead(s, t) <=> \A x \in ToSet(s), y \in ToSet(t) : Later(x, y)
<1>1. DOMAIN s = 1 .. Len(s) /\ DOMAIN t = 1 .. Len(t)
  BY LenProperties
<1> QED
  BY <1>1 DEF Ahead, ToSet

(* The sequence of one character. *)
LEMMA OneChar ==
  ASSUME NEW S, NEW e \in S
  PROVE  <<e>> \in Seq(S) /\ ToSet(<<e>>) = {e} /\ Ordered(<<e>>)
<1>1. <<e>> \in Seq(S) /\ Len(<<e>>) = 1 /\ <<e>>[1] = e
  OBVIOUS
<1> QED
  BY <1>1 DEF ToSet, Ordered

(* The end of the output grows by a character later than all before it. *)
LEMMA AppendOrdered ==
  ASSUME NEW S, NEW s \in Seq(S), NEW e \in S, Ordered(s),
         \A x \in ToSet(s) : Later(x, e)
  PROVE  /\ Ordered(Cat(s, <<e>>))
         /\ ToSet(Cat(s, <<e>>)) = ToSet(s) \cup {e}
         /\ Cat(s, <<e>>) \in Seq(S)
<1> DEFINE o == <<e>>
<1>1. o \in Seq(S) /\ ToSet(o) = {e} /\ Ordered(o)
  BY OneChar
<1> HIDE DEF o
<1>2. Ahead(s, o)
  BY <1>1, AheadSets
<1>3. Ordered(Cat(s, o))
  BY <1>1, <1>2, CatOrder
<1>4. ToSet(Cat(s, o)) = ToSet(s) \cup ToSet(o)
  BY <1>1, CatSet
<1>5. Cat(s, o) \in Seq(S)
  BY <1>1, CatRules
<1> QED
  BY <1>1, <1>3, <1>4, <1>5 DEF o

(* An injected character disturbs nothing. *)
LEMMA InjectOrdered ==
  ASSUME NEW S, Cntl \in S, NEW s \in Seq(S), NEW t \in Seq(S),
         Ordered(Cat(s, t))
  PROVE  /\ Ordered(Cat(s, Cat(<<Cntl>>, t)))
         /\ ToSet(Cat(s, Cat(<<Cntl>>, t))) = ToSet(Cat(s, t)) \cup {Cntl}
<1> DEFINE o == <<Cntl>>
           x == Cat(s, o)
<1>1. Ordered(s) /\ Ordered(t) /\ Ahead(s, t)
  BY CatOrder
<1>2. \A y : Later(y, Cntl) /\ Later(Cntl, y)
  BY DEF Later
<1>3. Ordered(x) /\ x \in Seq(S) /\ ToSet(x) = ToSet(s) \cup {Cntl}
  BY <1>1, <1>2, AppendOrdered
<1>4. o \in Seq(S)
  BY OneChar
<1> HIDE DEF o
<1>5. Cat(s, Cat(o, t)) = Cat(x, t)
  BY <1>4, CatAssoc
<1> HIDE DEF x
<1>6. Ahead(x, t)
  BY <1>1, <1>2, <1>3, AheadSets
<1>7. Ordered(Cat(x, t))
  BY <1>1, <1>3, <1>6, CatOrder
<1>8. ToSet(Cat(x, t)) = ToSet(x) \cup ToSet(t)
  BY <1>3, CatSet
<1>9. ToSet(Cat(s, t)) = ToSet(s) \cup ToSet(t)
  BY CatSet
<1> QED
  BY <1>3, <1>5, <1>7, <1>8, <1>9 DEF o

(* Giving up the middle of the output loses its characters and no others. *)
LEMMA DropOrdered ==
  ASSUME NEW S, S \subseteq Nat,
         NEW s \in Seq(S), NEW d \in Seq(S), NEW t \in Seq(S),
         Ordered(Cat(Cat(s, d), t))
  PROVE  /\ Ordered(Cat(s, t))
         /\ ToSet(Cat(Cat(s, d), t)) = ToSet(Cat(s, t)) \cup ToSet(d)
         /\ ToSet(Cat(s, t)) \cap ToSet(d) \subseteq {Cntl}
<1>1. Cat(s, d) \in Seq(S)
  BY CatRules
<1>2. Ordered(Cat(s, d)) /\ Ordered(t) /\ Ahead(Cat(s, d), t)
  BY <1>1, CatOrder
<1>3. Ordered(s) /\ Ahead(s, d)
  BY <1>2, CatOrder
<1>4. /\ ToSet(Cat(s, d)) = ToSet(s) \cup ToSet(d)
      /\ ToSet(Cat(Cat(s, d), t)) = ToSet(Cat(s, d)) \cup ToSet(t)
      /\ ToSet(Cat(s, t)) = ToSet(s) \cup ToSet(t)
  BY <1>1, CatSet
<1>5. /\ \A x \in ToSet(s) \cup ToSet(d), y \in ToSet(t) : Later(x, y)
      /\ \A x \in ToSet(s), y \in ToSet(d) : Later(x, y)
  BY <1>1, <1>2, <1>3, <1>4, AheadSets
<1>6. Ahead(s, t)
  BY <1>5, AheadSets
<1>7. \A x \in ToSet(d) : x \in Nat
  BY ElementOfSeq, LenProperties DEF ToSet
<1>8. \A x \in ToSet(d) : Later(x, x) => x = Cntl
  BY <1>7 DEF Later
<1>9. Ordered(Cat(s, t))
  BY <1>2, <1>3, <1>6, CatOrder
<1> QED
  BY <1>4, <1>5, <1>8, <1>9
-----------------------------------------------------------------------------
(***************************************************************************)
(* The types, in parts.                                                    *)
(***************************************************************************)
SeqOK ==
  /\ obuf \in Seq(Chars) /\ out \in Seq(Chars)
  /\ buf \in Seq(Chars) /\ Len(buf) <= XferSize
  /\ dma \in Seq(Chars) /\ Len(dma) <= XferSize
  /\ fifo \in Seq(Chars) /\ Len(fifo) <= FifoSize

CountOK ==
  /\ nw \in 0 .. MaxOut /\ ninj \in 0 .. MaxInject /\ nstop \in 0 .. MaxStops
  /\ lost \subseteq Chars

ModeOK ==
  /\ smp \in BOOLEAN /\ ovr \in BOOLEAN /\ pulse \in BOOLEAN
  /\ usedma \in BOOLEAN /\ active \in BOOLEAN /\ tmr \in BOOLEAN

FlagOK ==
  /\ evt \in BOOLEAN /\ paged \in BOOLEAN /\ reg \in BOOLEAN \X BOOLEAN
  /\ txmpty \in BOOLEAN /\ stopped \in BOOLEAN /\ rtsd \in BOOLEAN

GhostOK ==
  /\ hung \in BOOLEAN /\ aborted \in BOOLEAN /\ untimed \in BOOLEAN
  /\ torn \in BOOLEAN /\ missed \in BOOLEAN

PlaceOK ==
  /\ tpc \in {"idle", "test", "timed", "cleanup", "flags", "fill", "start",
             "go", "pio", "pioend"}
  /\ act \in {"data", "event"}
  /\ hpc \in {"idle", "timer", "event"}
  /\ sr1 \in {"none", "stop", "cont"}

(* The type invariant is its parts. *)
LEMMA TypeParts ==
  TypeOK <=> SeqOK /\ CountOK /\ ModeOK /\ FlagOK /\ GhostOK /\ PlaceOK
  BY DEF TypeOK, SeqOK, CountOK, ModeOK, FlagOK, GhostOK, PlaceOK

(* Every step keeps the modes of the transfer Boolean. *)
LEMMA ModeStep == ASSUME ModeOK, [Next]_vars PROVE ModeOK'
<1> USE DEF ModeOK, io, xfer, mode, flags, tto, uart, line, ghost
<1>1. CASE Write
  BY <1>1 DEF Write, Calls
<1>2. CASE Inject
  BY <1>2 DEF Inject, Calls
<1>3. CASE Timer
  BY <1>3 DEF Timer, Calls
<1>4. CASE Event
  BY <1>4 DEF Event, Calls
<1>5. CASE Test
  BY <1>5 DEF Test, Step
<1>6. CASE Timed
  BY <1>6 DEF Timed, Step
<1>7. CASE Cleanup
  BY <1>7 DEF Cleanup, Step
<1>8. CASE SetLosesTxIntr
  BY <1>8 DEF SetLosesTxIntr, Step
<1>9. CASE Fill
  BY <1>9 DEF Fill, Step
<1>10. CASE Start
  BY <1>10 DEF Start, Step
<1>11. CASE Go
  BY <1>11 DEF Go, Step
<1>12. CASE Pio
  BY <1>12 DEF Pio, Step
<1>13. CASE PioEnd
  BY <1>13 DEF PioEnd, Step
<1>14. CASE HdlrActive
  BY <1>14 DEF HdlrActive
<1>15. CASE HdlrTimer
  BY <1>15 DEF HdlrTimer
<1>16. CASE HdlrEvent
  BY <1>16 DEF HdlrEvent
<1>17. CASE TxInterrupt
  BY <1>17 DEF TxInterrupt
<1>18. CASE MsRead \/ MsClear
  BY <1>18 DEF MsRead, MsClear
<1>19. CASE DmaMove
  BY <1>19 DEF DmaMove
<1>20. CASE DmaHang
  BY <1>20 DEF DmaHang
<1>21. CASE Shift
  BY <1>21 DEF Shift
<1>22. CASE Receiver
  BY <1>22 DEF Receiver
<1>23. CASE UNCHANGED vars
  BY <1>23 DEF vars
<1> QED
  BY <1>1, <1>2, <1>3, <1>4, <1>5, <1>6, <1>7, <1>8, <1>9, <1>10, <1>11,
     <1>12, <1>13, <1>14, <1>15, <1>16, <1>17, <1>18, <1>19, <1>20, <1>21,
     <1>22, <1>23 DEF Next, Tto, Hdlr, Isr

(* Every step keeps the flags of the device Boolean. *)
LEMMA FlagStep == ASSUME FlagOK, [Next]_vars PROVE FlagOK'
<1> USE DEF FlagOK, io, xfer, mode, flags, tto, uart, line, ghost
<1>1. CASE Write
  BY <1>1 DEF Write, Calls
<1>2. CASE Inject
  BY <1>2 DEF Inject, Calls
<1>3. CASE Timer
  BY <1>3 DEF Timer, Calls
<1>4. CASE Event
  BY <1>4 DEF Event, Calls
<1>5. CASE Test
  BY <1>5 DEF Test, Step
<1>6. CASE Timed
  BY <1>6 DEF Timed, Step
<1>7. CASE Cleanup
  BY <1>7 DEF Cleanup, Step
<1>8. CASE SetLosesTxIntr
  BY <1>8 DEF SetLosesTxIntr, Step
<1>9. CASE Fill
  BY <1>9 DEF Fill, Step
<1>10. CASE Start
  BY <1>10 DEF Start, Step
<1>11. CASE Go
  BY <1>11 DEF Go, Step
<1>12. CASE Pio
  BY <1>12 DEF Pio, Step
<1>13. CASE PioEnd
  BY <1>13 DEF PioEnd, Step
<1>14. CASE HdlrActive
  BY <1>14 DEF HdlrActive
<1>15. CASE HdlrTimer
  BY <1>15 DEF HdlrTimer
<1>16. CASE HdlrEvent
  BY <1>16 DEF HdlrEvent
<1>17. CASE TxInterrupt
  BY <1>17 DEF TxInterrupt
<1>18. CASE MsRead \/ MsClear
  BY <1>18 DEF MsRead, MsClear
<1>19. CASE DmaMove
  BY <1>19 DEF DmaMove
<1>20. CASE DmaHang
  BY <1>20 DEF DmaHang
<1>21. CASE Shift
  BY <1>21 DEF Shift
<1>22. CASE Receiver
  BY <1>22 DEF Receiver
<1>23. CASE UNCHANGED vars
  BY <1>23 DEF vars
<1> QED
  BY <1>1, <1>2, <1>3, <1>4, <1>5, <1>6, <1>7, <1>8, <1>9, <1>10, <1>11,
     <1>12, <1>13, <1>14, <1>15, <1>16, <1>17, <1>18, <1>19, <1>20, <1>21,
     <1>22, <1>23 DEF Next, Tto, Hdlr, Isr

(* Every step keeps what is recorded of the past Boolean. *)
LEMMA GhostStep == ASSUME GhostOK, [Next]_vars PROVE GhostOK'
<1> USE DEF GhostOK, io, xfer, mode, flags, tto, uart, line, ghost
<1>1. CASE Write
  BY <1>1 DEF Write, Calls
<1>2. CASE Inject
  BY <1>2 DEF Inject, Calls
<1>3. CASE Timer
  BY <1>3 DEF Timer, Calls
<1>4. CASE Event
  BY <1>4 DEF Event, Calls
<1>5. CASE Test
  BY <1>5 DEF Test, Step
<1>6. CASE Timed
  BY <1>6 DEF Timed, Step
<1>7. CASE Cleanup
  BY <1>7 DEF Cleanup, Step
<1>8. CASE SetLosesTxIntr
  BY <1>8 DEF SetLosesTxIntr, Step
<1>9. CASE Fill
  BY <1>9 DEF Fill, Step
<1>10. CASE Start
  BY <1>10 DEF Start, Step
<1>11. CASE Go
  BY <1>11 DEF Go, Step
<1>12. CASE Pio
  BY <1>12 DEF Pio, Step
<1>13. CASE PioEnd
  BY <1>13 DEF PioEnd, Step
<1>14. CASE HdlrActive
  BY <1>14 DEF HdlrActive
<1>15. CASE HdlrTimer
  BY <1>15 DEF HdlrTimer
<1>16. CASE HdlrEvent
  BY <1>16 DEF HdlrEvent
<1>17. CASE TxInterrupt
  BY <1>17 DEF TxInterrupt
<1>18. CASE MsRead \/ MsClear
  BY <1>18 DEF MsRead, MsClear
<1>19. CASE DmaMove
  BY <1>19 DEF DmaMove
<1>20. CASE DmaHang
  BY <1>20 DEF DmaHang
<1>21. CASE Shift
  BY <1>21 DEF Shift
<1>22. CASE Receiver
  BY <1>22 DEF Receiver
<1>23. CASE UNCHANGED vars
  BY <1>23 DEF vars
<1> QED
  BY <1>1, <1>2, <1>3, <1>4, <1>5, <1>6, <1>7, <1>8, <1>9, <1>10, <1>11,
     <1>12, <1>13, <1>14, <1>15, <1>16, <1>17, <1>18, <1>19, <1>20, <1>21,
     <1>22, <1>23 DEF Next, Tto, Hdlr, Isr

(* Every step leaves tto and the pulse handler at one of their places. *)
LEMMA PlaceStep == ASSUME PlaceOK, [Next]_vars PROVE PlaceOK'
<1> USE DEF PlaceOK, io, xfer, mode, flags, tto, uart, line, ghost
<1>1. CASE Write
  BY <1>1 DEF Write, Calls
<1>2. CASE Inject
  BY <1>2 DEF Inject, Calls
<1>3. CASE Timer
  BY <1>3 DEF Timer, Calls
<1>4. CASE Event
  BY <1>4 DEF Event, Calls
<1>5. CASE Test
  BY <1>5 DEF Test, Step
<1>6. CASE Timed
  BY <1>6 DEF Timed, Step
<1>7. CASE Cleanup
  BY <1>7 DEF Cleanup, Step
<1>8. CASE SetLosesTxIntr
  BY <1>8 DEF SetLosesTxIntr, Step
<1>9. CASE Fill
  BY <1>9 DEF Fill, Step
<1>10. CASE Start
  BY <1>10 DEF Start, Step
<1>11. CASE Go
  BY <1>11 DEF Go, Step
<1>12. CASE Pio
  BY <1>12 DEF Pio, Step
<1>13. CASE PioEnd
  BY <1>13 DEF PioEnd, Step
<1>14. CASE HdlrActive
  BY <1>14 DEF HdlrActive
<1>15. CASE HdlrTimer
  BY <1>15 DEF HdlrTimer
<1>16. CASE HdlrEvent
  BY <1>16 DEF HdlrEvent
<1>17. CASE TxInterrupt
  BY <1>17 DEF TxInterrupt
<1>18. CASE MsRead \/ MsClear
  BY <1>18 DEF MsRead, MsClear
<1>19. CASE DmaMove
  BY <1>19 DEF DmaMove
<1>20. CASE DmaHang
  BY <1>20 DEF DmaHang
<1>21. CASE Shift
  BY <1>21 DEF Shift
<1>22. CASE Receiver
  BY <1>22 DEF Receiver
<1>23. CASE UNCHANGED vars
  BY <1>23 DEF vars
<1> QED
  BY <1>1, <1>2, <1>3, <1>4, <1>5, <1>6, <1>7, <1>8, <1>9, <1>10, <1>11,
     <1>12, <1>13, <1>14, <1>15, <1>16, <1>17, <1>18, <1>19, <1>20, <1>21,
     <1>22, <1>23 DEF Next, Tto, Hdlr, Isr

(* The characters of a queue. *)
LEMMA SetOfChars ==
  ASSUME NEW S, NEW s \in Seq(S) PROVE ToSet(s) \subseteq S
  BY LenProperties, ElementOfSeq DEF ToSet

(* An empty queue is a queue within every size. *)
LEMMA EmptyOK ==
  ASSUME NEW n \in Nat PROVE << >> \in Seq(Chars) /\ Len(<< >>) <= n
  OBVIOUS

(* The injected character is a character; characters are numbers. *)
LEMMA CharsFacts == Cntl \in Chars /\ Chars \subseteq Nat
  BY SerTxAssumption DEF Chars, Cntl

(* The loop moves as many characters as are there and as there is room for. *)
LEMMA FillMoves ==
  ASSUME SeqOK, Fill
  PROVE  \/ UNCHANGED <<buf, obuf>>
         \/ \E k \in 0 .. Len(obuf) :
              /\ k <= XferSize - Len(buf)
              /\ buf' = Cat(buf, First(obuf, k)) /\ obuf' = Rest(obuf, k)
<1>1. /\ Len(obuf) \in Nat /\ Len(buf) \in Nat /\ XferSize \in Nat
      /\ obuf # << >> => Len(obuf) >= 1
  BY SerTxAssumption, LenProperties, EmptySeq DEF SeqOK
<1> DEFINE room == XferSize - Len(buf)
           fits == IF Len(obuf) < room THEN Len(obuf) ELSE room
<1>2. CASE UNCHANGED <<buf, obuf>>
  BY <1>2
<1>3. ASSUME obuf # << >>, Len(buf) < XferSize,
             NEW k \in {1, fits},
             buf' = buf \o SubSeq(obuf, 1, k),
             obuf' = SubSeq(obuf, k + 1, Len(obuf))
      PROVE  k \in 0 .. Len(obuf) /\ k <= XferSize - Len(buf)
  BY <1>1, <1>3
<1> QED
  BY <1>2, <1>3 DEF Fill, Cat, First, Rest

(* Every step keeps the counters within their bounds. *)
LEMMA CountStep == ASSUME CountOK, SeqOK, [Next]_vars PROVE CountOK'
<1> USE SerTxAssumption DEF CountOK, io, xfer, mode, flags, tto, uart, line,
  ghost
<1>1. CASE Write
  BY <1>1 DEF Write, Calls
<1>2. CASE Inject
  BY <1>2 DEF Inject, Calls
<1>3. CASE Timer
  BY <1>3 DEF Timer, Calls
<1>4. CASE Event
  BY <1>4 DEF Event, Calls
<1>5. CASE Test
  BY <1>5 DEF Test, Step
<1>6. CASE Timed
  BY <1>6 DEF Timed, Step
<1>7. CASE Cleanup
  <2>1. ToSet(dma) \subseteq Chars
    BY SetOfChars DEF SeqOK
  <2> QED
    BY <1>7, <2>1 DEF Cleanup, Step
<1>8. CASE SetLosesTxIntr
  BY <1>8 DEF SetLosesTxIntr, Step
<1>9. CASE Fill
  BY <1>9 DEF Fill, Step
<1>10. CASE Start
  BY <1>10 DEF Start, Step
<1>11. CASE Go
  BY <1>11 DEF Go, Step
<1>12. CASE Pio
  BY <1>12 DEF Pio, Step
<1>13. CASE PioEnd
  BY <1>13 DEF PioEnd, Step
<1>14. CASE HdlrActive
  BY <1>14 DEF HdlrActive
<1>15. CASE HdlrTimer
  BY <1>15 DEF HdlrTimer
<1>16. CASE HdlrEvent
  BY <1>16 DEF HdlrEvent
<1>17. CASE TxInterrupt
  BY <1>17 DEF TxInterrupt
<1>18. CASE MsRead \/ MsClear
  BY <1>18 DEF MsRead, MsClear
<1>19. CASE DmaMove
  BY <1>19 DEF DmaMove
<1>20. CASE DmaHang
  BY <1>20 DEF DmaHang
<1>21. CASE Shift
  BY <1>21 DEF Shift
<1>22. CASE Receiver
  BY <1>22 DEF Receiver
<1>23. CASE UNCHANGED vars
  BY <1>23 DEF vars
<1> QED
  BY <1>1, <1>2, <1>3, <1>4, <1>5, <1>6, <1>7, <1>8, <1>9, <1>10, <1>11,
     <1>12, <1>13, <1>14, <1>15, <1>16, <1>17, <1>18, <1>19, <1>20, <1>21,
     <1>22, <1>23 DEF Next, Tto, Hdlr, Isr

(* Every step keeps the queues queues of characters, within their sizes. *)
LEMMA SeqStep == ASSUME SeqOK, CountOK, [Next]_vars PROVE SeqOK'
<1> USE DEF io, xfer, mode, flags, tto, uart, line, ghost
<1>1. CASE Write
  <2>1. nw' \in Chars
    BY <1>1, SerTxAssumption DEF Write, CountOK, Chars, Cntl
  <2>2. Append(obuf, nw') \in Seq(Chars)
    BY <2>1 DEF SeqOK
  <2> QED
    BY <1>1, <2>2 DEF SeqOK, Write
<1>2. CASE Inject
  <2>1. <<Cntl>> \o obuf \in Seq(Chars)
    BY CharsFacts, ConcatProperties DEF SeqOK
  <2> QED
    BY <1>2, <2>1 DEF SeqOK, Inject
<1>3. CASE Timer
  BY <1>3 DEF SeqOK, Timer, Calls
<1>4. CASE Event
  BY <1>4 DEF SeqOK, Event, Calls
<1>5. CASE Test
  BY <1>5 DEF SeqOK, Test, Step
<1>6. CASE Timed
  BY <1>6 DEF SeqOK, Timed, Step
<1>7. CASE Cleanup
  <2>1. << >> \in Seq(Chars) /\ Len(<< >>) <= XferSize
    BY SerTxAssumption, EmptyOK
  <2> QED
    BY <1>7, <2>1 DEF SeqOK, Cleanup
<1>8. CASE SetLosesTxIntr
  BY <1>8 DEF SeqOK, SetLosesTxIntr, Step
<1>9. CASE Fill
  <2>1. \/ UNCHANGED <<buf, obuf>>
        \/ \E k \in 0 .. Len(obuf) :
             /\ k <= XferSize - Len(buf)
             /\ buf' = Cat(buf, First(obuf, k)) /\ obuf' = Rest(obuf, k)
    BY <1>9, FillMoves
  <2>2. CASE UNCHANGED <<buf, obuf>>
    BY <1>9, <2>2 DEF SeqOK, Fill
  <2>3. ASSUME NEW k \in 0 .. Len(obuf), k <= XferSize - Len(buf),
               buf' = Cat(buf, First(obuf, k)), obuf' = Rest(obuf, k)
        PROVE  SeqOK'
    <3>1. /\ buf' \in Seq(Chars) /\ Len(buf') = Len(buf) + k
          /\ obuf' \in Seq(Chars)
      BY <2>3, MovePrefix DEF SeqOK
    <3>2. Len(buf') <= XferSize
      BY <2>3, <3>1, SerTxAssumption, LenProperties DEF SeqOK
    <3> QED
      BY <1>9, <3>1, <3>2 DEF SeqOK, Fill
  <2> QED
    BY <2>1, <2>2, <2>3
<1>10. CASE Start
  BY <1>10 DEF SeqOK, Start, Step
<1>11. CASE Go
  <2>1. << >> \in Seq(Chars) /\ Len(<< >>) <= XferSize
    BY SerTxAssumption, EmptyOK
  <2> QED
    BY <1>11, <2>1 DEF SeqOK, Go
<1>12. CASE Pio
  <2>1. /\ fifo' \in Seq(Chars) /\ Len(fifo') = Len(fifo) + 1
        /\ obuf' \in Seq(Chars) /\ Len(fifo) < FifoSize
    BY <1>12, MoveOne DEF SeqOK, Pio
  <2>2. Len(fifo') <= FifoSize
    BY <2>1, SerTxAssumption, LenProperties DEF SeqOK
  <2> QED
    BY <1>12, <2>1, <2>2 DEF SeqOK, Pio
<1>13. CASE PioEnd
  BY <1>13 DEF SeqOK, PioEnd, Step
<1>14. CASE HdlrActive
  BY <1>14 DEF SeqOK, HdlrActive
<1>15. CASE HdlrTimer
  BY <1>15 DEF SeqOK, HdlrTimer
<1>16. CASE HdlrEvent
  BY <1>16 DEF SeqOK, HdlrEvent
<1>17. CASE TxInterrupt
  BY <1>17 DEF SeqOK, TxInterrupt
<1>18. CASE MsRead \/ MsClear
  BY <1>18 DEF SeqOK, MsRead, MsClear
<1>19. CASE DmaMove
  <2>1. /\ fifo' \in Seq(Chars) /\ Len(fifo') = Len(fifo) + 1
        /\ dma' \in Seq(Chars) /\ Len(dma') = Len(dma) - 1
        /\ Len(fifo) < FifoSize
    BY <1>19, MoveOne DEF SeqOK, DmaMove
  <2>2. Len(fifo') <= FifoSize /\ Len(dma') <= XferSize
    BY <2>1, SerTxAssumption, LenProperties DEF SeqOK
  <2> QED
    BY <1>19, <2>1, <2>2 DEF SeqOK, DmaMove
<1>20. CASE DmaHang
  BY <1>20 DEF SeqOK, DmaHang
<1>21. CASE Shift
  <2>1. /\ out' \in Seq(Chars)
        /\ fifo' \in Seq(Chars) /\ Len(fifo') = Len(fifo) - 1
    BY <1>21, MoveOne DEF SeqOK, Shift
  <2>2. Len(fifo') <= FifoSize
    BY <2>1, SerTxAssumption, LenProperties DEF SeqOK
  <2> QED
    BY <1>21, <2>1, <2>2 DEF SeqOK, Shift
<1>22. CASE Receiver
  BY <1>22 DEF SeqOK, Receiver
<1>23. CASE UNCHANGED vars
  BY <1>23 DEF vars, SeqOK
<1> QED
  BY <1>1, <1>2, <1>3, <1>4, <1>5, <1>6, <1>7, <1>8, <1>9, <1>10, <1>11,
     <1>12, <1>13, <1>14, <1>15, <1>16, <1>17, <1>18, <1>19, <1>20, <1>21,
     <1>22, <1>23 DEF Next, Tto, Hdlr, Isr

-----------------------------------------------------------------------------
(***************************************************************************)
(* Who may touch the transfer buffer.                                      *)
(***************************************************************************)
LEMMA TransferStep ==
  ASSUME SeqOK, ModeOK, PlaceOK, Transfer, [Next]_vars PROVE Transfer'
<1> USE DEF ModeOK, PlaceOK, Transfer, io, xfer, mode, flags, tto, uart, line,
            ghost
<1>1. CASE Write
  BY <1>1 DEF Write, Calls
<1>2. CASE Inject
  BY <1>2 DEF Inject, Calls
<1>3. CASE Timer
  BY <1>3 DEF Timer, Calls
<1>4. CASE Event
  BY <1>4 DEF Event, Calls
<1>5. CASE Test
  BY <1>5 DEF Test, Step
<1>6. CASE Timed
  BY <1>6 DEF Timed, Step
<1>7. CASE Cleanup
  BY <1>7 DEF Cleanup, Step
<1>8. CASE SetLosesTxIntr
  BY <1>8 DEF SetLosesTxIntr, Step
<1>9. CASE Fill
  BY <1>9 DEF Fill, Step
<1>10. CASE Start
  BY <1>10 DEF Start, Step
<1>11. CASE Go
  BY <1>11 DEF Go, Step
<1>12. CASE Pio
  BY <1>12 DEF Pio, Step
<1>13. CASE PioEnd
  BY <1>13 DEF PioEnd, Step
<1>14. CASE HdlrActive
  BY <1>14 DEF HdlrActive
<1>15. CASE HdlrTimer
  BY <1>15 DEF HdlrTimer
<1>16. CASE HdlrEvent
  BY <1>16 DEF HdlrEvent
<1>17. CASE TxInterrupt
  BY <1>17 DEF TxInterrupt
<1>18. CASE MsRead \/ MsClear
  BY <1>18 DEF MsRead, MsClear
<1>19. CASE DmaMove
  <2>1. ASSUME Len(dma) = 1 PROVE Tail(dma) = << >>
    BY <2>1, TailOfOne DEF SeqOK
  <2>2. /\ UNCHANGED <<active, usedma, buf, tpc>> /\ dma # << >>
        /\ dma' = Tail(dma) /\ pulse' = (Len(dma) = 1)
    BY <1>19 DEF DmaMove
  <2> QED
    BY <2>1, <2>2
<1>20. CASE DmaHang
  BY <1>20 DEF DmaHang
<1>21. CASE Shift
  BY <1>21 DEF Shift
<1>22. CASE Receiver
  BY <1>22 DEF Receiver
<1>23. CASE UNCHANGED vars
  BY <1>23 DEF vars
<1> QED
  BY <1>1, <1>2, <1>3, <1>4, <1>5, <1>6, <1>7, <1>8, <1>9, <1>10, <1>11,
     <1>12, <1>13, <1>14, <1>15, <1>16, <1>17, <1>18, <1>19, <1>20, <1>21,
     <1>22, <1>23 DEF Next, Tto, Hdlr, Isr

-----------------------------------------------------------------------------
(***************************************************************************)
(* The order of the output.                                                *)
(***************************************************************************)
(* Most steps only move characters along. *)
LEMMA StreamSame ==
  ASSUME StreamOK, Stream' = Stream, UNCHANGED <<nw, lost>>
  PROVE  StreamOK'
  BY DEF StreamOK

(* The queues, from the line to the clients. *)
LEMMA Parts ==
  ASSUME SeqOK
  PROVE  /\ Cat(out, fifo) \in Seq(Chars)
         /\ Cat(Cat(out, fifo), dma) \in Seq(Chars)
         /\ Cat(Cat(Cat(out, fifo), dma), buf) \in Seq(Chars)
         /\ Stream \in Seq(Chars)
         /\ Stream = Cat(Cat(Cat(Cat(out, fifo), dma), buf), obuf)
<1>1. Cat(out, fifo) \in Seq(Chars)
  BY CatRules DEF SeqOK
<1>2. Cat(Cat(out, fifo), dma) \in Seq(Chars)
  BY <1>1, CatRules DEF SeqOK
<1>3. Cat(Cat(Cat(out, fifo), dma), buf) \in Seq(Chars)
  BY <1>2, CatRules DEF SeqOK
<1>4. Cat(Cat(Cat(Cat(out, fifo), dma), buf), obuf) \in Seq(Chars)
  BY <1>3, CatRules DEF SeqOK
<1>5. Stream = Cat(Cat(Cat(Cat(out, fifo), dma), buf), obuf)
  BY DEF Stream, Cat
<1> QED
  BY <1>1, <1>2, <1>3, <1>4, <1>5

(* The same of the next state. *)
LEMMA StreamNext ==
  Stream' = Cat(Cat(Cat(Cat(out', fifo'), dma'), buf'), obuf')
  BY DEF Stream, Cat

(* A write appends a character later than all before it. *)
LEMMA StreamWrite ==
  ASSUME SeqOK, CountOK, StreamOK, Write PROVE StreamOK'
<1> DEFINE p == Cat(Cat(Cat(out, fifo), dma), buf)
           e == nw + 1
<1>1. /\ nw' = e /\ UNCHANGED <<lost, p>> /\ obuf' = Append(obuf, e)
      /\ nw \in Nat /\ e \in Chars
  BY SerTxAssumption DEF Write, CountOK, Chars, Cntl, xfer, uart, ghost
<1>2. p \in Seq(Chars) /\ obuf \in Seq(Chars) /\ Stream = Cat(p, obuf)
  BY Parts DEF SeqOK
<1>3. Stream' = Cat(p, Append(obuf, e))
  BY <1>1, StreamNext
<1> HIDE DEF p
<1>4. Stream' = Cat(Stream, <<e>>)
  <2>1. Append(obuf, e) = Cat(obuf, <<e>>) /\ <<e>> \in Seq(Chars)
    BY <1>1, <1>2, AppendIsConcat, OneChar DEF Cat
  <2>2. Cat(Cat(p, obuf), <<e>>) = Cat(p, Cat(obuf, <<e>>))
    <3> DEFINE o == <<e>>
    <3>1. o \in Seq(Chars)
      BY <2>1
    <3> HIDE DEF o
    <3>2. Cat(Cat(p, obuf), o) = Cat(p, Cat(obuf, o))
      BY <1>2, <3>1, CatAssoc
    <3> QED
      BY <3>2 DEF o
  <2> QED
    BY <1>2, <1>3, <2>1, <2>2
<1>5. \A x \in ToSet(Stream) : Later(x, e)
  BY <1>1 DEF StreamOK, Later
<1>6. /\ Ordered(Cat(Stream, <<e>>))
      /\ ToSet(Cat(Stream, <<e>>)) = ToSet(Stream) \cup {e}
  BY <1>1, <1>5, Parts, AppendOrdered DEF StreamOK
<1>7. /\ (ToSet(Stream) \cup {e}) \ {Cntl} = (1 .. e) \ lost
      /\ lost \subseteq Cntl .. e
  BY <1>1 DEF StreamOK, Cntl
<1> QED
  BY <1>1, <1>4, <1>6, <1>7 DEF StreamOK

(* An injected character overtakes io-char's buffer only. *)
LEMMA StreamInject ==
  ASSUME SeqOK, StreamOK, Inject PROVE StreamOK'
<1> DEFINE p == Cat(Cat(Cat(out, fifo), dma), buf)
<1>1. UNCHANGED <<nw, lost, p>> /\ obuf' = Cat(<<Cntl>>, obuf)
  BY DEF Inject, xfer, uart, ghost, Cat
<1>2. p \in Seq(Chars) /\ obuf \in Seq(Chars) /\ Stream = Cat(p, obuf)
  BY Parts DEF SeqOK
<1>3. Stream' = Cat(p, Cat(<<Cntl>>, obuf))
  BY <1>1, StreamNext
<1> HIDE DEF p
<1>4. /\ Ordered(Cat(p, Cat(<<Cntl>>, obuf)))
      /\ ToSet(Cat(p, Cat(<<Cntl>>, obuf))) = ToSet(Cat(p, obuf)) \cup {Cntl}
  BY <1>2, CharsFacts, InjectOrdered DEF StreamOK
<1> QED
  BY <1>1, <1>2, <1>3, <1>4 DEF StreamOK

(* dev_cleanup loses the characters of the transfer and no others. *)
LEMMA StreamCleanup ==
  ASSUME SeqOK, CountOK, Transfer, StreamOK, Cleanup PROVE StreamOK'
<1> DEFINE p == Cat(out, fifo)
<1>1. /\ UNCHANGED <<nw, p, buf, obuf>> /\ buf = << >> /\ dma' = << >>
      /\ lost' = lost \cup ToSet(dma)
  BY DEF Cleanup, Step, Transfer, io, uart
<1>2. /\ p \in Seq(Chars) /\ obuf \in Seq(Chars) /\ dma \in Seq(Chars)
      /\ Cat(p, dma) \in Seq(Chars)
  BY Parts DEF SeqOK
<1>3. /\ Stream = Cat(Cat(Cat(p, dma), << >>), obuf)
      /\ Stream' = Cat(Cat(Cat(p, << >>), << >>), obuf)
  BY <1>1, Parts, StreamNext
<1> HIDE DEF p
<1>4. Stream = Cat(Cat(p, dma), obuf)
  BY <1>2, <1>3, CatRules
<1>5. Stream' = Cat(p, obuf)
  BY <1>2, <1>3, CatRules
<1>6. /\ Ordered(Cat(p, obuf))
      /\ ToSet(Cat(Cat(p, dma), obuf)) = ToSet(Cat(p, obuf)) \cup ToSet(dma)
      /\ ToSet(Cat(p, obuf)) \cap ToSet(dma) \subseteq {Cntl}
  BY <1>2, <1>4, CharsFacts, DropOrdered DEF StreamOK
<1>7. nw \in Nat
  BY SerTxAssumption DEF CountOK
<1>8. ToSet(Cat(p, obuf)) \ {Cntl} = (1 .. nw) \ lost'
  BY <1>1, <1>4, <1>6 DEF StreamOK
<1>9. lost' \subseteq Cntl .. nw
  <2>1. /\ ToSet(dma) \ {Cntl} \subseteq (1 .. nw) \ lost
        /\ lost \subseteq Cntl .. nw
    BY <1>4, <1>6 DEF StreamOK
  <2>2. 1 .. nw \subseteq Cntl .. nw /\ Cntl \in Cntl .. nw
    BY <1>7 DEF Cntl
  <2> QED
    BY <1>1, <2>1, <2>2
<1> QED
  BY <1>1, <1>5, <1>6, <1>8, <1>9 DEF StreamOK

(* The transfer takes over the buffer. *)
LEMMA StreamGo ==
  ASSUME SeqOK, Transfer, Go PROVE Stream' = Stream
<1> DEFINE p == Cat(out, fifo)
<1>1. UNCHANGED <<p, obuf>> /\ dma = << >> /\ dma' = buf /\ buf' = << >>
  BY DEF Go, Step, Transfer, io, uart
<1>2. p \in Seq(Chars) /\ buf \in Seq(Chars)
  BY Parts DEF SeqOK
<1>3. /\ Stream = Cat(Cat(Cat(p, << >>), buf), obuf)
      /\ Stream' = Cat(Cat(Cat(p, buf), << >>), obuf)
  BY <1>1, Parts, StreamNext
<1> HIDE DEF p
<1>4. Cat(p, << >>) = p
  BY <1>2, CatRules
<1>5. Cat(Cat(p, buf), << >>) = Cat(p, buf)
  <2>1. Cat(p, buf) \in Seq(Chars)
    BY <1>2, CatRules
  <2> QED
    BY <2>1, CatRules
<1> QED
  BY <1>3, <1>4, <1>5

(* The UART moves a character from the FIFO to the line. *)
LEMMA StreamShift ==
  ASSUME SeqOK, Shift PROVE Stream' = Stream
<1>1. Cat(Append(out, Head(fifo)), Tail(fifo)) = Cat(out, fifo)
  BY MoveOne DEF SeqOK, Shift
<1>2. Cat(out', fifo') = Cat(out, fifo) /\ UNCHANGED <<dma, buf, obuf>>
  BY <1>1 DEF Shift, io, xfer
<1> QED
  BY <1>2, Parts, StreamNext

(* The SDMA moves a character from the transfer to the FIFO. *)
LEMMA StreamDmaMove ==
  ASSUME SeqOK, SeqOK', DmaMove PROVE Stream' = Stream
<1>1. /\ out \in Seq(Chars) /\ fifo \in Seq(Chars) /\ dma \in Seq(Chars)
      /\ fifo' \in Seq(Chars) /\ dma' \in Seq(Chars)
  BY DEF SeqOK
<1>2. Cat(Append(fifo, Head(dma)), Tail(dma)) = Cat(fifo, dma)
  BY <1>1, MoveOne DEF DmaMove
<1>3. Cat(fifo', dma') = Cat(fifo, dma) /\ UNCHANGED <<out, buf, obuf>>
  BY <1>2 DEF DmaMove, io
<1>4. /\ Cat(Cat(out, fifo'), dma') = Cat(out, Cat(fifo', dma'))
      /\ Cat(Cat(out, fifo), dma) = Cat(out, Cat(fifo, dma))
  BY <1>1, CatAssoc
<1> QED
  BY <1>3, <1>4, Parts, StreamNext

(* tto moves characters from io-char's buffer to the transfer buffer. *)
LEMMA StreamFill ==
  ASSUME SeqOK, SeqOK', Fill PROVE Stream' = Stream
<1> DEFINE p == Cat(Cat(out, fifo), dma)
<1>1. UNCHANGED p
  BY DEF Fill, uart
<1>2. Cat(buf', obuf') = Cat(buf, obuf)
  <2>1. CASE UNCHANGED <<buf, obuf>>
    BY <2>1
  <2>2. ASSUME NEW k \in 0 .. Len(obuf),
               buf' = Cat(buf, First(obuf, k)), obuf' = Rest(obuf, k)
        PROVE  Cat(buf', obuf') = Cat(buf, obuf)
    <3>1. Cat(Cat(buf, First(obuf, k)), Rest(obuf, k)) = Cat(buf, obuf)
      BY MovePrefix DEF SeqOK
    <3> QED
      BY <2>2, <3>1
  <2> QED
    BY <2>1, <2>2, FillMoves
<1>3. /\ p \in Seq(Chars) /\ buf \in Seq(Chars) /\ obuf \in Seq(Chars)
      /\ buf' \in Seq(Chars) /\ obuf' \in Seq(Chars)
  BY Parts DEF SeqOK
<1>4. Stream = Cat(Cat(p, buf), obuf) /\ Stream' = Cat(Cat(p, buf'), obuf')
  BY <1>1, Parts, StreamNext
<1> HIDE DEF p
<1>5. /\ Cat(Cat(p, buf'), obuf') = Cat(p, Cat(buf', obuf'))
      /\ Cat(Cat(p, buf), obuf) = Cat(p, Cat(buf, obuf))
  BY <1>3, CatAssoc
<1> QED
  BY <1>2, <1>4, <1>5

(* Without DMA tto moves a character from io-char's buffer to the FIFO. *)
LEMMA StreamPio ==
  ASSUME SeqOK, SeqOK', Transfer, Pio PROVE Stream' = Stream
<1>1. /\ out \in Seq(Chars) /\ fifo \in Seq(Chars) /\ obuf \in Seq(Chars)
      /\ fifo' \in Seq(Chars) /\ obuf' \in Seq(Chars)
  BY DEF SeqOK
<1>2. Cat(Append(fifo, Head(obuf)), Tail(obuf)) = Cat(fifo, obuf)
  BY <1>1, MoveOne DEF Pio
<1>3. /\ Cat(fifo', obuf') = Cat(fifo, obuf) /\ UNCHANGED <<out, buf, dma>>
      /\ dma = << >> /\ buf = << >>
  BY <1>2 DEF Pio, Step, Transfer, xfer
<1>4. /\ Cat(Cat(out, fifo'), obuf') = Cat(out, Cat(fifo', obuf'))
      /\ Cat(Cat(out, fifo), obuf) = Cat(out, Cat(fifo, obuf))
  BY <1>1, CatAssoc
<1>5. ASSUME NEW f \in Seq(Chars)
      PROVE  Cat(Cat(Cat(out, f), << >>), << >>) = Cat(out, f)
  <2>1. Cat(out, f) \in Seq(Chars)
    BY <1>1, CatRules
  <2> QED
    BY <2>1, CatRules
<1>6. Stream = Cat(Cat(out, fifo), obuf)
  BY <1>1, <1>3, <1>5, Parts
<1>7. Stream' = Cat(Cat(out, fifo'), obuf')
  BY <1>1, <1>3, <1>5, StreamNext
<1> QED
  BY <1>3, <1>4, <1>6, <1>7

(* Every step keeps the order of the output. *)
LEMMA StreamStep ==
  ASSUME SeqOK, SeqOK', CountOK, Transfer, StreamOK, [Next]_vars
  PROVE  StreamOK'
<1> USE DEF io, xfer, mode, flags, tto, uart, line, ghost
<1>1. CASE Write
  BY <1>1, StreamWrite
<1>2. CASE Inject
  BY <1>2, StreamInject
<1>3. CASE Timer
  BY <1>3, StreamSame DEF Timer, Stream
<1>4. CASE Event
  BY <1>4, StreamSame DEF Event, Stream
<1>5. CASE Test
  BY <1>5, StreamSame DEF Test, Stream
<1>6. CASE Timed
  BY <1>6, StreamSame DEF Timed, Stream
<1>7. CASE Cleanup
  BY <1>7, StreamCleanup
<1>8. CASE SetLosesTxIntr
  BY <1>8, StreamSame DEF SetLosesTxIntr, Stream
<1>9. CASE Fill
  BY <1>9, StreamFill, StreamSame DEF Fill
<1>10. CASE Start
  BY <1>10, StreamSame DEF Start, Stream
<1>11. CASE Go
  BY <1>11, StreamGo, StreamSame DEF Go
<1>12. CASE Pio
  BY <1>12, StreamPio, StreamSame DEF Pio
<1>13. CASE PioEnd
  BY <1>13, StreamSame DEF PioEnd, Stream
<1>14. CASE HdlrActive
  BY <1>14, StreamSame DEF HdlrActive, Stream
<1>15. CASE HdlrTimer
  BY <1>15, StreamSame DEF HdlrTimer, Stream
<1>16. CASE HdlrEvent
  BY <1>16, StreamSame DEF HdlrEvent, Stream
<1>17. CASE TxInterrupt
  BY <1>17, StreamSame DEF TxInterrupt, Stream
<1>18. CASE MsRead \/ MsClear
  BY <1>18, StreamSame DEF MsRead, MsClear, Stream
<1>19. CASE DmaMove
  BY <1>19, StreamDmaMove, StreamSame DEF DmaMove
<1>20. CASE DmaHang
  BY <1>20, StreamSame DEF DmaHang, Stream
<1>21. CASE Shift
  BY <1>21, StreamShift, StreamSame DEF Shift
<1>22. CASE Receiver
  BY <1>22, StreamSame DEF Receiver, Stream
<1>23. CASE UNCHANGED vars
  BY <1>23, StreamSame DEF vars, Stream
<1> QED
  BY <1>1, <1>2, <1>3, <1>4, <1>5, <1>6, <1>7, <1>8, <1>9, <1>10, <1>11,
     <1>12, <1>13, <1>14, <1>15, <1>16, <1>17, <1>18, <1>19, <1>20, <1>21,
     <1>22, <1>23 DEF Next, Tto, Hdlr, Isr
-----------------------------------------------------------------------------
(* The inductive invariant holds in every reachable state of tto, the pulse *)
(* handler, the interrupt handler and the SDMA.                             *)
THEOREM SerInvariant == Spec => []SerInv
<1>1. Init => SerInv
  <2> SUFFICES ASSUME Init PROVE SerInv
    OBVIOUS
  <2>1. << >> \in Seq(Chars) /\ Len(<< >>) = 0
    OBVIOUS
  <2>2. SeqOK
    BY <2>1, SerTxAssumption DEF Init, SeqOK
  <2>3. CountOK
    BY SerTxAssumption DEF Init, CountOK
  <2>4. ModeOK /\ FlagOK /\ GhostOK /\ PlaceOK
    BY DEF Init, ModeOK, FlagOK, GhostOK, PlaceOK
  <2>5. Transfer
    BY DEF Init, Transfer
  <2>6. Stream = << >>
    BY ConcatEmptySeq, <2>1 DEF Init, Stream
  <2>7. StreamOK
    <3>1. Ordered(<< >>) /\ ToSet(<< >>) = {} /\ 1 .. 0 = {}
      BY DEF Ordered, ToSet
    <3> QED
      BY <2>6, <3>1 DEF Init, StreamOK
  <2> QED
    BY <2>2, <2>3, <2>4, <2>5, <2>7, TypeParts DEF SerInv
<1>2. SerInv /\ [Next]_vars => SerInv'
  <2> SUFFICES ASSUME SerInv, [Next]_vars PROVE SerInv'
    OBVIOUS
  <2>1. /\ SeqOK /\ CountOK /\ ModeOK /\ FlagOK /\ GhostOK /\ PlaceOK
        /\ Transfer /\ StreamOK
    BY TypeParts DEF SerInv
  <2>2. SeqOK' /\ CountOK'
    BY <2>1, SeqStep, CountStep
  <2>3. ModeOK' /\ FlagOK' /\ GhostOK' /\ PlaceOK'
    BY <2>1, ModeStep, FlagStep, GhostStep, PlaceStep
  <2>4. Transfer'
    BY <2>1, TransferStep
  <2>5. StreamOK'
    BY <2>1, <2>2, StreamStep
  <2>6. TypeOK'
    <3>1. TypeOK'
            <=> (SeqOK /\ CountOK /\ ModeOK /\ FlagOK /\ GhostOK /\ PlaceOK)'
      BY DEF TypeOK, SeqOK, CountOK, ModeOK, FlagOK, GhostOK, PlaceOK
    <3> QED
      BY <2>2, <2>3, <3>1
  <2> QED
    BY <2>4, <2>5, <2>6 DEF SerInv
<1> QED
  BY <1>1, <1>2, PTL DEF Spec

(* The variables of SerTx keep their types; tx_dma.buf and the FIFO are *)
(* never filled beyond their size.                                      *)
THEOREM SerTypeCorrect == Spec => []TypeOK
<1>1. SerInv => TypeOK
  BY DEF SerInv
<1> QED
  BY <1>1, SerInvariant, PTL

(* The characters leave in the order in which clients wrote them, each once, *)
(* but for those that a time-out finds in the transfer, whatever the sizes,  *)
(* and however tto, the pulse handler, the interrupts and the SDMA           *)
(* interleave, on several processors too.                                    *)
THEOREM SerOutputInOrder == Spec => []OutputInOrder
<1>1. SerInv => OutputInOrder
  <2> SUFFICES ASSUME SerInv PROVE OutputInOrder
    OBVIOUS
  <2>1. dma # << >> => buf = << >>
    BY DEF SerInv, Transfer
  <2>2. DOMAIN Stream = 1 .. Len(Stream)
    BY Parts, TypeParts, LenProperties DEF SerInv
  <2>3. Ordered(Stream) /\ ToSet(Stream) \ {Cntl} = (1 .. nw) \ lost
    BY DEF SerInv, StreamOK
  <2> QED
    BY <2>1, <2>2, <2>3 DEF OutputInOrder, Ordered, Later
<1> QED
  BY <1>1, SerInvariant, PTL
=============================================================================
