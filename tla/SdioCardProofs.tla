--------------------------- MODULE SdioCardProofs ---------------------------
(***************************************************************************)
(* Proofs about SdioCard, for every number of cards and every choice of    *)
(* cards that cannot be identified: the types, the refinement of           *)
(* SdioDevice, and that no command succeeds on a foreign card but through  *)
(* one of the three holes that NoForeignCard names.                        *)
(***************************************************************************)
EXTENDS SdioCard, TLAPS

(***************************************************************************)
(* Where the card-detect thread is tells what exists: a device belongs to  *)
(* a card that is present, but for the time in which it is being removed.  *)
(* The use count is the command in progress.                               *)
(***************************************************************************)
DeviceShape ==
  /\ device => present \/ cpc \in {"lock", "wait", "detach", "join"}
  /\ cpc \in {"off", "ident", "load", "store", "attach", "invalid"} => ~device
  /\ cpc = "attach" => present
  /\ cpc \in {"wait", "detach", "join"} => device /\ rmv
  /\ cpc \in {"detach", "join"} => usage = 0
  /\ dpc # "none" \/ rmv => device
  /\ usage = IF dpc = "cmd" THEN 1 ELSE 0

(***************************************************************************)
(* An edge is on its way, or the next one will be noticed: with a card in  *)
(* the slot the pin waits for its removal, unless an edge is latched.      *)
(***************************************************************************)
PinArmed ==
  /\ masked <=> isr
  /\ slot # 0 => icr = "rise" \/ isr \/ missed
  /\ cpc = "arm" => (cd <=> slot # 0) \/ missed

(* The card-detect thread has begun to remove the device. *)
Removing == rmv \/ cpc \in {"remove", "lock"}

(* The device stands for a card, or is about to. *)
Identified == device \/ cpc \in {"load", "store", "attach"}

(***************************************************************************)
(* If the slot does not hold the identified card, this is known or about   *)
(* to be; the reset after a time-out may then have initialised another     *)
(* card, but no command is in progress on it.                              *)
(***************************************************************************)
ChangeSeen ==
  /\ Identified => ident # 0
  /\ Identified /\ slot # ident =>
       hcq \/ mc \/ Removing \/ missed \/ mclost
  /\ cpc \in {"load", "store", "attach"} => inited \in {0, ident}
  /\ device /\ inited \notin {0, ident} =>
       mc \/ Removing \/ missed \/ mclost \/ gap
  /\ dpc = "cmd" /\ inited \notin {0, ident} => missed \/ mclost \/ gap

CardInv == TypeOK /\ DeviceShape /\ PinArmed /\ ChangeSeen /\ NoForeignCard
-----------------------------------------------------------------------------
USE SdioCardAssumption

(* TypeOK in parts, for the provers: numbers, places and flags. *)
NumbersOK ==
  /\ slot \in 0 .. Cards /\ ncards \in 0 .. Cards
  /\ pulses \in Nat /\ usage \in 0 .. 1
  /\ ident \in 0 .. Cards /\ inited \in 0 .. Cards

PlacesOK ==
  /\ icr \in {"rise", "fall"}
  /\ cpc \in {"idle", "read", "arm", "test", "remove", "lock", "wait", "detach",
             "join", "off", "insert", "ident", "load", "store", "attach",
             "invalid"}
  /\ dpc \in {"none", "idle", "sync", "cmd"}

ThreadFlagsOK ==
  /\ isr \in BOOLEAN /\ masked \in BOOLEAN /\ hcq \in BOOLEAN
  /\ cd \in BOOLEAN /\ reg \in BOOLEAN /\ signalled \in BOOLEAN

CardFlagsOK ==
  /\ mc \in BOOLEAN /\ present \in BOOLEAN /\ invalid \in BOOLEAN
  /\ device \in BOOLEAN /\ rmv \in BOOLEAN /\ chan \in BOOLEAN

GhostsOK ==
  /\ missed \in BOOLEAN /\ mclost \in BOOLEAN /\ gap \in BOOLEAN
  /\ foreign \in BOOLEAN

(* A card goes in: the slot was empty, so no identified card can be in it; *)
(* the edge is latched, or missed by imx6_gpio_cd.                         *)
LEMMA StepInsert == CardInv /\ Insert => CardInv'
<1> SUFFICES ASSUME CardInv, Insert PROVE CardInv'
  OBVIOUS
<1> USE DEF CardInv, Insert, Edge, Raise, pin, cdth, flags, card, devs,
  driver, ghost
<1>1. TypeOK'
  <2>1. NumbersOK'
    BY DEF TypeOK, NumbersOK, DeviceShape
  <2>2. PlacesOK'
    BY DEF TypeOK, PlacesOK
  <2>3. ThreadFlagsOK'
    BY DEF TypeOK, ThreadFlagsOK
  <2>4. CardFlagsOK'
    BY DEF TypeOK, CardFlagsOK
  <2>5. GhostsOK'
    BY DEF TypeOK, GhostsOK
  <2> QED
    BY <2>1, <2>2, <2>3, <2>4, <2>5
       DEF TypeOK, NumbersOK, PlacesOK, ThreadFlagsOK, CardFlagsOK, GhostsOK
<1>2. DeviceShape'
  BY DEF TypeOK, DeviceShape
<1>3. PinArmed'
  BY DEF TypeOK, PinArmed
<1>4. ChangeSeen'
  BY DEF TypeOK, DeviceShape, PinArmed, ChangeSeen, Removing, Identified
<1>5. NoForeignCard'
  BY DEF TypeOK, ChangeSeen, NoForeignCard
<1> QED
  BY <1>1, <1>2, <1>3, <1>4, <1>5

(* The card is pulled out: the pin was armed for it or the edge is missed. *)
LEMMA StepPullOut == CardInv /\ PullOut => CardInv'
<1> SUFFICES ASSUME CardInv, PullOut PROVE CardInv'
  OBVIOUS
<1> USE DEF CardInv, PullOut, Edge, Raise, pin, cdth, flags, card, devs,
  driver, ghost
<1>1. TypeOK'
  <2>1. NumbersOK'
    BY DEF TypeOK, NumbersOK, DeviceShape
  <2>2. PlacesOK'
    BY DEF TypeOK, PlacesOK
  <2>3. ThreadFlagsOK'
    BY DEF TypeOK, ThreadFlagsOK
  <2>4. CardFlagsOK'
    BY DEF TypeOK, CardFlagsOK
  <2>5. GhostsOK'
    BY DEF TypeOK, GhostsOK
  <2> QED
    BY <2>1, <2>2, <2>3, <2>4, <2>5
       DEF TypeOK, NumbersOK, PlacesOK, ThreadFlagsOK, CardFlagsOK, GhostsOK
<1>2. DeviceShape'
  BY DEF TypeOK, DeviceShape
<1>3. PinArmed'
  BY DEF TypeOK, PinArmed
<1>4. ChangeSeen'
  BY DEF TypeOK, DeviceShape, PinArmed, ChangeSeen, Removing, Identified
<1>5. NoForeignCard'
  BY DEF TypeOK, ChangeSeen, NoForeignCard
<1> QED
  BY <1>1, <1>2, <1>3, <1>4, <1>5

(* bs_event passes a latched edge on as MEDIA_CHANGE. *)
LEMMA StepHcEvent == CardInv /\ HcEvent => CardInv'
<1> SUFFICES ASSUME CardInv, HcEvent PROVE CardInv'
  OBVIOUS
<1> USE DEF CardInv, HcEvent, Notify, pin, cdth, flags, card, devs, driver,
  ghost
<1>1. TypeOK'
  <2>1. NumbersOK'
    BY DEF TypeOK, NumbersOK, DeviceShape
  <2>2. PlacesOK'
    BY DEF TypeOK, PlacesOK
  <2>3. ThreadFlagsOK'
    BY DEF TypeOK, ThreadFlagsOK
  <2>4. CardFlagsOK'
    BY DEF TypeOK, CardFlagsOK
  <2>5. GhostsOK'
    BY DEF TypeOK, GhostsOK
  <2> QED
    BY <2>1, <2>2, <2>3, <2>4, <2>5
       DEF TypeOK, NumbersOK, PlacesOK, ThreadFlagsOK, CardFlagsOK, GhostsOK
<1>2. DeviceShape'
  BY DEF TypeOK, DeviceShape
<1>3. PinArmed'
  BY DEF TypeOK, PinArmed
<1>4. ChangeSeen'
  BY DEF TypeOK, DeviceShape, PinArmed, ChangeSeen, Removing, Identified
<1>5. NoForeignCard'
  BY DEF TypeOK, ChangeSeen, NoForeignCard
<1> QED
  BY <1>1, <1>2, <1>3, <1>4, <1>5

(* sdio_cd_thread takes a pulse. *)
LEMMA StepCdPulse == CardInv /\ CdPulse => CardInv'
BY DEF CdPulse, Goto, CardInv, TypeOK, DeviceShape, PinArmed, ChangeSeen,
   NoForeignCard, Removing, Identified, pin, cdth, flags, card, devs, driver,
   ghost

(* imx6_gpio_cd reads the pin: what it read is what is in the slot. *)
LEMMA StepCdRead == CardInv /\ CdRead => CardInv'
<1> SUFFICES ASSUME CardInv, CdRead PROVE CardInv'
  OBVIOUS
<1> USE DEF CardInv, CdRead, Goto, pin, cdth, flags, card, devs, driver, ghost
<1>1. TypeOK'
  <2>1. NumbersOK'
    BY DEF TypeOK, NumbersOK, DeviceShape
  <2>2. PlacesOK'
    BY DEF TypeOK, PlacesOK
  <2>3. ThreadFlagsOK'
    BY DEF TypeOK, ThreadFlagsOK
  <2>4. CardFlagsOK'
    BY DEF TypeOK, CardFlagsOK
  <2>5. GhostsOK'
    BY DEF TypeOK, GhostsOK
  <2> QED
    BY <2>1, <2>2, <2>3, <2>4, <2>5
       DEF TypeOK, NumbersOK, PlacesOK, ThreadFlagsOK, CardFlagsOK, GhostsOK
<1>2. DeviceShape'
  BY DEF TypeOK, DeviceShape
<1>3. PinArmed'
  BY DEF TypeOK, PinArmed
<1>4. ChangeSeen'
  BY DEF TypeOK, DeviceShape, PinArmed, ChangeSeen, Removing, Identified
<1>5. NoForeignCard'
  BY DEF TypeOK, ChangeSeen, NoForeignCard
<1> QED
  BY <1>1, <1>2, <1>3, <1>4, <1>5

(* imx6_gpio_cd arms the pin for the other edge. *)
LEMMA StepCdArm == CardInv /\ CdArm => CardInv'
BY DEF CdArm, Goto, Arm, Raise, CardInv, TypeOK, DeviceShape, PinArmed,
   ChangeSeen, NoForeignCard, Removing, Identified, pin, cdth, flags, card,
   devs, driver, ghost

(* sdio_cd clears MEDIA_CHANGE: from here a device is being removed. *)
LEMMA StepCdTest == CardInv /\ CdTest => CardInv'
<1> SUFFICES ASSUME CardInv, CdTest PROVE CardInv'
  OBVIOUS
<1> USE DEF CardInv, CdTest, Goto, pin, cdth, flags, card, devs, driver, ghost
<1>1. TypeOK'
  <2>1. NumbersOK'
    BY DEF TypeOK, NumbersOK, DeviceShape
  <2>2. PlacesOK'
    BY DEF TypeOK, PlacesOK
  <2>3. ThreadFlagsOK'
    BY DEF TypeOK, ThreadFlagsOK
  <2>4. CardFlagsOK'
    BY DEF TypeOK, CardFlagsOK
  <2>5. GhostsOK'
    BY DEF TypeOK, GhostsOK
  <2> QED
    BY <2>1, <2>2, <2>3, <2>4, <2>5
       DEF TypeOK, NumbersOK, PlacesOK, ThreadFlagsOK, CardFlagsOK, GhostsOK
<1>2. DeviceShape'
  BY DEF TypeOK, DeviceShape
<1>3. PinArmed'
  BY DEF TypeOK, PinArmed
<1>4. ChangeSeen'
  BY DEF TypeOK, DeviceShape, PinArmed, ChangeSeen, Removing, Identified
<1>5. NoForeignCard'
  BY DEF TypeOK, ChangeSeen, NoForeignCard
<1> QED
  BY <1>1, <1>2, <1>3, <1>4, <1>5

(* sdio_cd clears PRESENT and goes to the removal callbacks. *)
LEMMA StepCdClearPresent == CardInv /\ CdClearPresent => CardInv'
<1> SUFFICES ASSUME CardInv, CdClearPresent PROVE CardInv'
  OBVIOUS
<1> USE DEF CardInv, CdClearPresent, Goto, pin, cdth, flags, card, devs,
  driver, ghost
<1>1. TypeOK'
  <2>1. NumbersOK'
    BY DEF TypeOK, NumbersOK, DeviceShape
  <2>2. PlacesOK'
    BY DEF TypeOK, PlacesOK
  <2>3. ThreadFlagsOK'
    BY DEF TypeOK, ThreadFlagsOK
  <2>4. CardFlagsOK'
    BY DEF TypeOK, CardFlagsOK
  <2>5. GhostsOK'
    BY DEF TypeOK, GhostsOK
  <2> QED
    BY <2>1, <2>2, <2>3, <2>4, <2>5
       DEF TypeOK, NumbersOK, PlacesOK, ThreadFlagsOK, CardFlagsOK, GhostsOK
<1>2. DeviceShape'
  BY DEF TypeOK, DeviceShape
<1>3. PinArmed'
  BY DEF TypeOK, PinArmed
<1>4. ChangeSeen'
  BY DEF TypeOK, DeviceShape, PinArmed, ChangeSeen, Removing, Identified
<1>5. NoForeignCard'
  BY DEF TypeOK, ChangeSeen, NoForeignCard
<1> QED
  BY <1>1, <1>2, <1>3, <1>4, <1>5

(* sdio_cd sets RMV_PENDING and waits while the device is in use. *)
LEMMA StepCdMark == CardInv /\ CdMark => CardInv'
<1> SUFFICES ASSUME CardInv, CdMark PROVE CardInv'
  OBVIOUS
<1> USE DEF CardInv, CdMark, Goto, pin, cdth, flags, card, devs, driver, ghost
<1>1. TypeOK'
  <2>1. NumbersOK'
    BY DEF TypeOK, NumbersOK, DeviceShape
  <2>2. PlacesOK'
    BY DEF TypeOK, PlacesOK
  <2>3. ThreadFlagsOK'
    BY DEF TypeOK, ThreadFlagsOK
  <2>4. CardFlagsOK'
    BY DEF TypeOK, CardFlagsOK
  <2>5. GhostsOK'
    BY DEF TypeOK, GhostsOK
  <2> QED
    BY <2>1, <2>2, <2>3, <2>4, <2>5
       DEF TypeOK, NumbersOK, PlacesOK, ThreadFlagsOK, CardFlagsOK, GhostsOK
<1>2. DeviceShape'
  BY DEF TypeOK, DeviceShape
<1>3. PinArmed'
  BY DEF TypeOK, PinArmed
<1>4. ChangeSeen'
  BY DEF TypeOK, DeviceShape, PinArmed, ChangeSeen, Removing, Identified
<1>5. NoForeignCard'
  BY DEF TypeOK, ChangeSeen, NoForeignCard
<1> QED
  BY <1>1, <1>2, <1>3, <1>4, <1>5

(* sdio_cd wakes up and looks at the use count again. *)
LEMMA StepCdWakeUp == CardInv /\ CdWakeUp => CardInv'
<1> SUFFICES ASSUME CardInv, CdWakeUp PROVE CardInv'
  OBVIOUS
<1> USE DEF CardInv, CdWakeUp, Goto, pin, cdth, flags, card, devs, driver,
  ghost
<1>1. TypeOK'
  <2>1. NumbersOK'
    BY DEF TypeOK, NumbersOK, DeviceShape
  <2>2. PlacesOK'
    BY DEF TypeOK, PlacesOK
  <2>3. ThreadFlagsOK'
    BY DEF TypeOK, ThreadFlagsOK
  <2>4. CardFlagsOK'
    BY DEF TypeOK, CardFlagsOK
  <2>5. GhostsOK'
    BY DEF TypeOK, GhostsOK
  <2> QED
    BY <2>1, <2>2, <2>3, <2>4, <2>5
       DEF TypeOK, NumbersOK, PlacesOK, ThreadFlagsOK, CardFlagsOK, GhostsOK
<1>2. DeviceShape'
  BY DEF TypeOK, DeviceShape
<1>3. PinArmed'
  BY DEF TypeOK, PinArmed
<1>4. ChangeSeen'
  BY DEF TypeOK, DeviceShape, PinArmed, ChangeSeen, Removing, Identified
<1>5. NoForeignCard'
  BY DEF TypeOK, ChangeSeen, NoForeignCard
<1> QED
  BY <1>1, <1>2, <1>3, <1>4, <1>5

(* sdmmc_detach destroys the channel of the driver thread. *)
LEMMA StepCdDetach == CardInv /\ CdDetach => CardInv'
<1> SUFFICES ASSUME CardInv, CdDetach PROVE CardInv'
  OBVIOUS
<1> USE DEF CardInv, CdDetach, Goto, pin, cdth, flags, card, devs, driver,
  ghost
<1>1. TypeOK'
  <2>1. NumbersOK'
    BY DEF TypeOK, NumbersOK, DeviceShape
  <2>2. PlacesOK'
    BY DEF TypeOK, PlacesOK
  <2>3. ThreadFlagsOK'
    BY DEF TypeOK, ThreadFlagsOK
  <2>4. CardFlagsOK'
    BY DEF TypeOK, CardFlagsOK
  <2>5. GhostsOK'
    BY DEF TypeOK, GhostsOK
  <2> QED
    BY <2>1, <2>2, <2>3, <2>4, <2>5
       DEF TypeOK, NumbersOK, PlacesOK, ThreadFlagsOK, CardFlagsOK, GhostsOK
<1>2. DeviceShape'
  BY DEF TypeOK, DeviceShape
<1>3. PinArmed'
  BY DEF TypeOK, PinArmed
<1>4. ChangeSeen'
  BY DEF TypeOK, DeviceShape, PinArmed, ChangeSeen, Removing, Identified
<1>5. NoForeignCard'
  BY DEF TypeOK, ChangeSeen, NoForeignCard
<1> QED
  BY <1>1, <1>2, <1>3, <1>4, <1>5

(* sdio_detach gives the device back: it is not in use. *)
LEMMA StepCdFree == CardInv /\ CdFree => CardInv'
<1> SUFFICES ASSUME CardInv, CdFree PROVE CardInv'
  OBVIOUS
<1> USE DEF CardInv, CdFree, Goto, pin, cdth, flags, card, devs, driver, ghost
<1>1. TypeOK'
  <2>1. NumbersOK'
    BY DEF TypeOK, NumbersOK, DeviceShape
  <2>2. PlacesOK'
    BY DEF TypeOK, PlacesOK
  <2>3. ThreadFlagsOK'
    BY DEF TypeOK, ThreadFlagsOK
  <2>4. CardFlagsOK'
    BY DEF TypeOK, CardFlagsOK
  <2>5. GhostsOK'
    BY DEF TypeOK, GhostsOK
  <2> QED
    BY <2>1, <2>2, <2>3, <2>4, <2>5
       DEF TypeOK, NumbersOK, PlacesOK, ThreadFlagsOK, CardFlagsOK, GhostsOK
<1>2. DeviceShape'
  BY DEF TypeOK, DeviceShape
<1>3. PinArmed'
  BY DEF TypeOK, PinArmed
<1>4. ChangeSeen'
  BY DEF TypeOK, DeviceShape, PinArmed, ChangeSeen, Removing, Identified
<1>5. NoForeignCard'
  BY DEF TypeOK, ChangeSeen, NoForeignCard
<1> QED
  BY <1>1, <1>2, <1>3, <1>4, <1>5

(* sdio_cd powers the slot off, with no device left. *)
LEMMA StepCdPowerOff == CardInv /\ CdPowerOff => CardInv'
BY DEF CdPowerOff, Goto, CardInv, TypeOK, DeviceShape, PinArmed, ChangeSeen,
   NoForeignCard, Removing, Identified, pin, cdth, flags, card, devs, driver,
   ghost

(* sdio_cd looks for a new card; the memset of _sdio_attach loses           *)
(* MEDIA_CHANGE.                                                            *)
LEMMA StepCdInsert == CardInv /\ CdInsert => CardInv'
<1> SUFFICES ASSUME CardInv, CdInsert PROVE CardInv'
  OBVIOUS
<1> USE DEF CardInv, CdInsert, Goto, pin, cdth, flags, card, devs, driver,
  ghost
<1>1. TypeOK'
  <2>1. NumbersOK'
    BY DEF TypeOK, NumbersOK, DeviceShape
  <2>2. PlacesOK'
    BY DEF TypeOK, PlacesOK
  <2>3. ThreadFlagsOK'
    BY DEF TypeOK, ThreadFlagsOK
  <2>4. CardFlagsOK'
    BY DEF TypeOK, CardFlagsOK
  <2>5. GhostsOK'
    BY DEF TypeOK, GhostsOK
  <2> QED
    BY <2>1, <2>2, <2>3, <2>4, <2>5
       DEF TypeOK, NumbersOK, PlacesOK, ThreadFlagsOK, CardFlagsOK, GhostsOK
<1>2. DeviceShape'
  BY DEF TypeOK, DeviceShape
<1>3. PinArmed'
  BY DEF TypeOK, PinArmed
<1>4. ChangeSeen'
  BY DEF TypeOK, DeviceShape, PinArmed, ChangeSeen, Removing, Identified
<1>5. NoForeignCard'
  BY DEF TypeOK, ChangeSeen, NoForeignCard
<1> QED
  BY <1>1, <1>2, <1>3, <1>4, <1>5

(* _sdio_attach identifies the card in the slot. *)
LEMMA StepCdIdent == CardInv /\ CdIdent => CardInv'
BY DEF CdIdent, Goto, CardInv, TypeOK, DeviceShape, PinArmed, ChangeSeen,
   NoForeignCard, Removing, Identified, pin, cdth, flags, card, devs, driver,
   ghost

(* The first half of dev->flags |= DEV_FLAG_PRESENT. *)
LEMMA StepCdLoad == CardInv /\ CdLoad => CardInv'
BY DEF CdLoad, Goto, CardInv, TypeOK, DeviceShape, PinArmed, ChangeSeen,
   NoForeignCard, Removing, Identified, pin, cdth, flags, card, devs, driver,
   ghost

(* The second half of it, which may lose MEDIA_CHANGE. *)
LEMMA StepCdStore == CardInv /\ CdStore => CardInv'
<1> SUFFICES ASSUME CardInv, CdStore PROVE CardInv'
  OBVIOUS
<1> USE DEF CardInv, CdStore, Goto, pin, cdth, flags, card, devs, driver, ghost
<1>1. TypeOK'
  <2>1. NumbersOK'
    BY DEF TypeOK, NumbersOK, DeviceShape
  <2>2. PlacesOK'
    BY DEF TypeOK, PlacesOK
  <2>3. ThreadFlagsOK'
    BY DEF TypeOK, ThreadFlagsOK
  <2>4. CardFlagsOK'
    BY DEF TypeOK, CardFlagsOK
  <2>5. GhostsOK'
    BY DEF TypeOK, GhostsOK
  <2> QED
    BY <2>1, <2>2, <2>3, <2>4, <2>5
       DEF TypeOK, NumbersOK, PlacesOK, ThreadFlagsOK, CardFlagsOK, GhostsOK
<1>2. DeviceShape'
  BY DEF TypeOK, DeviceShape
<1>3. PinArmed'
  BY DEF TypeOK, PinArmed
<1>4. ChangeSeen'
  BY DEF TypeOK, DeviceShape, PinArmed, ChangeSeen, Removing, Identified
<1>5. NoForeignCard'
  BY DEF TypeOK, ChangeSeen, NoForeignCard
<1> QED
  BY <1>1, <1>2, <1>3, <1>4, <1>5

(* sdmmc_attach creates the device of an identified card. *)
LEMMA StepCdAttach == CardInv /\ CdAttach => CardInv'
<1> SUFFICES ASSUME CardInv, CdAttach PROVE CardInv'
  OBVIOUS
<1> USE DEF CardInv, CdAttach, Goto, pin, cdth, flags, card, devs, driver,
  ghost
<1>1. TypeOK'
  <2>1. NumbersOK'
    BY DEF TypeOK, NumbersOK, DeviceShape
  <2>2. PlacesOK'
    BY DEF TypeOK, PlacesOK
  <2>3. ThreadFlagsOK'
    BY DEF TypeOK, ThreadFlagsOK
  <2>4. CardFlagsOK'
    BY DEF TypeOK, CardFlagsOK
  <2>5. GhostsOK'
    BY DEF TypeOK, GhostsOK
  <2> QED
    BY <2>1, <2>2, <2>3, <2>4, <2>5
       DEF TypeOK, NumbersOK, PlacesOK, ThreadFlagsOK, CardFlagsOK, GhostsOK
<1>2. DeviceShape'
  BY DEF TypeOK, DeviceShape
<1>3. PinArmed'
  BY DEF TypeOK, PinArmed
<1>4. ChangeSeen'
  BY DEF TypeOK, DeviceShape, PinArmed, ChangeSeen, Removing, Identified
<1>5. NoForeignCard'
  BY DEF TypeOK, ChangeSeen, NoForeignCard
<1> QED
  BY <1>1, <1>2, <1>3, <1>4, <1>5

(* _sdio_attach refuses a card. *)
LEMMA StepCdInvalid == CardInv /\ CdInvalid => CardInv'
BY DEF CdInvalid, Goto, CardInv, TypeOK, DeviceShape, PinArmed, ChangeSeen,
   NoForeignCard, Removing, Identified, pin, cdth, flags, card, devs, driver,
   ghost

(* sdmmc_driver_thread takes a request. *)
LEMMA StepRequest == CardInv /\ Request => CardInv'
BY DEF Request, Goto, CardInv, TypeOK, DeviceShape, PinArmed, ChangeSeen,
   NoForeignCard, Removing, Identified, pin, cdth, flags, card, devs, driver,
   ghost

(* sdmmc_driver_thread ends, its channel destroyed. *)
LEMMA StepExit == CardInv /\ Exit => CardInv'
BY DEF Exit, Goto, CardInv, TypeOK, DeviceShape, PinArmed, ChangeSeen,
   NoForeignCard, Removing, Identified, pin, cdth, flags, card, devs, driver,
   ghost

(* _sdio_synchronize lets a command begin unless MEDIA_CHANGE or            *)
(* RMV_PENDING is set: then another card may have been initialised.         *)
LEMMA StepBegin == CardInv /\ Begin => CardInv'
<1> SUFFICES ASSUME CardInv, Begin PROVE CardInv'
  OBVIOUS
<1> USE DEF CardInv, Begin, Goto, pin, cdth, flags, card, devs, driver, ghost
<1>1. TypeOK'
  <2>1. NumbersOK'
    BY DEF TypeOK, NumbersOK, DeviceShape
  <2>2. PlacesOK'
    BY DEF TypeOK, PlacesOK
  <2>3. ThreadFlagsOK'
    BY DEF TypeOK, ThreadFlagsOK
  <2>4. CardFlagsOK'
    BY DEF TypeOK, CardFlagsOK
  <2>5. GhostsOK'
    BY DEF TypeOK, GhostsOK
  <2> QED
    BY <2>1, <2>2, <2>3, <2>4, <2>5
       DEF TypeOK, NumbersOK, PlacesOK, ThreadFlagsOK, CardFlagsOK, GhostsOK
<1>2. DeviceShape'
  BY DEF TypeOK, DeviceShape
<1>3. PinArmed'
  BY DEF TypeOK, PinArmed
<1>4. ChangeSeen'
  BY DEF TypeOK, DeviceShape, PinArmed, ChangeSeen, Removing, Identified
<1>5. NoForeignCard'
  BY DEF TypeOK, ChangeSeen, NoForeignCard
<1> QED
  BY <1>1, <1>2, <1>3, <1>4, <1>5

(* A command succeeds: the card that answered is the identified one. *)
LEMMA StepCmdOk == CardInv /\ CmdOk => CardInv'
BY DEF CmdOk, Done, CardInv, TypeOK, DeviceShape, PinArmed, ChangeSeen,
   NoForeignCard, Removing, Identified, pin, cdth, flags, card, devs, driver,
   ghost

(* A command fails and imx6_gpio_cd arms the pin anew. *)
LEMMA StepCmdError == CardInv /\ CmdError => CardInv'
BY DEF CmdError, Done, Arm, Raise, CardInv, TypeOK, DeviceShape, PinArmed,
   ChangeSeen, NoForeignCard, Removing, Identified, pin, cdth, flags, card,
   devs, driver, ghost

(* _sdio_send_cmd resets the card after a time-out: a foreign card is then  *)
(* initialised only while MEDIA_CHANGE is set or an edge has been missed.   *)
LEMMA StepCmdTimeout == CardInv /\ CmdTimeout => CardInv'
<1> SUFFICES ASSUME CardInv, CmdTimeout PROVE CardInv'
  OBVIOUS
<1> USE DEF CardInv, CmdTimeout, Done, Notify, pin, cdth, flags, card, devs,
  driver, ghost
<1>1. TypeOK'
  <2>1. NumbersOK'
    BY DEF TypeOK, NumbersOK, DeviceShape
  <2>2. PlacesOK'
    BY DEF TypeOK, PlacesOK
  <2>3. ThreadFlagsOK'
    BY DEF TypeOK, ThreadFlagsOK
  <2>4. CardFlagsOK'
    BY DEF TypeOK, CardFlagsOK
  <2>5. GhostsOK'
    BY DEF TypeOK, GhostsOK
  <2> QED
    BY <2>1, <2>2, <2>3, <2>4, <2>5
       DEF TypeOK, NumbersOK, PlacesOK, ThreadFlagsOK, CardFlagsOK, GhostsOK
<1>2. DeviceShape'
  BY DEF TypeOK, DeviceShape
<1>3. PinArmed'
  BY DEF TypeOK, PinArmed
<1>4. ChangeSeen'
  BY DEF TypeOK, DeviceShape, PinArmed, ChangeSeen, Removing, Identified
<1>5. NoForeignCard'
  BY DEF TypeOK, ChangeSeen, NoForeignCard
<1> QED
  BY <1>1, <1>2, <1>3, <1>4, <1>5

-----------------------------------------------------------------------------
(* A step of sdio_cd_thread preserves the invariant. *)
LEMMA StepCd == CardInv /\ Cd => CardInv'
BY StepCdPulse, StepCdRead, StepCdArm, StepCdTest, StepCdClearPresent,
   StepCdMark, StepCdWakeUp, StepCdDetach, StepCdFree, StepCdPowerOff,
   StepCdInsert, StepCdIdent, StepCdLoad, StepCdStore, StepCdAttach,
   StepCdInvalid
   DEF Cd

(* A step of sdmmc_driver_thread preserves the invariant. *)
LEMMA StepDriver == CardInv /\ Driver => CardInv'
BY StepExit, StepBegin, StepCmdOk, StepCmdError, StepCmdTimeout DEF Driver

(***************************************************************************)
(* The inductive invariant of the card-detect protocol (sdio_cd,           *)
(* _sdio_attach, _sdio_synchronize and _sdio_reset) holds at all times.    *)
(***************************************************************************)
THEOREM CardInvariant == Spec => []CardInv
<1>1. Init => CardInv
  <2> SUFFICES ASSUME Init PROVE CardInv
    OBVIOUS
  <2> USE DEF Init
  <2>1. NumbersOK /\ PlacesOK
    BY DEF NumbersOK, PlacesOK
  <2>2. ThreadFlagsOK /\ CardFlagsOK
    BY DEF ThreadFlagsOK, CardFlagsOK
  <2>3. GhostsOK
    BY DEF GhostsOK
  <2>4. TypeOK
    BY <2>1, <2>2, <2>3
       DEF TypeOK, NumbersOK, PlacesOK, ThreadFlagsOK, CardFlagsOK, GhostsOK
  <2>5. DeviceShape /\ PinArmed
    BY DEF DeviceShape, PinArmed
  <2>6. ChangeSeen /\ NoForeignCard
    BY DEF ChangeSeen, NoForeignCard, Removing, Identified
  <2> QED
    BY <2>4, <2>5, <2>6 DEF CardInv
<1>2. CardInv /\ [Next]_vars => CardInv'
  <2> SUFFICES ASSUME CardInv, [Next]_vars PROVE CardInv'
    OBVIOUS
  <2>1. CASE Next
    BY <2>1, StepInsert, StepPullOut, StepHcEvent, StepCd, StepRequest,
       StepDriver
       DEF Next
  <2>2. CASE UNCHANGED vars
    BY <2>2 DEF CardInv, TypeOK, DeviceShape, PinArmed, ChangeSeen,
       NoForeignCard, Removing, Identified, vars, pin, cdth, flags, card,
       devs, driver, ghost
  <2> QED
    BY <2>1, <2>2
<1> QED
  BY <1>1, <1>2, PTL DEF Spec

(* The threads of devb-sdmmc keep every variable in its type; the use count *)
(* that _sdio_synchronize keeps is 0 or 1.                                  *)
THEOREM CardTypeCorrect == Spec => []TypeOK
<1>1. CardInv => TypeOK
  BY DEF CardInv
<1> QED
  BY <1>1, CardInvariant, PTL

(***************************************************************************)
(* A command succeeds on a card other than the one that _sdio_attach       *)
(* identified only through one of the three holes: an edge that            *)
(* imx6_gpio_cd missed, a MEDIA_CHANGE lost in _sdio_attach, a command     *)
(* that began between the clearing of MEDIA_CHANGE and RMV_PENDING.        *)
(***************************************************************************)
THEOREM CardNoForeign == Spec => []NoForeignCard
<1>1. CardInv => NoForeignCard
  BY DEF CardInv
<1> QED
  BY <1>1, CardInvariant, PTL
-----------------------------------------------------------------------------
(***************************************************************************)
(* The use count and RMV_PENDING (_sdio_synchronize, sdio_cd, sdio_detach) *)
(* implement the promise of the SDIO layer to its clients: every step is a *)
(* step of SdioDevice or leaves it alone.                                  *)
(***************************************************************************)
THEOREM CardKeepsPromise == Spec => KeepsPromise
<1>1. Init => Device!Init
  BY DEF Init, Device!Init
<1>2. CardInv /\ [Next]_vars => [Device!Next]_Device!vars
  <2> SUFFICES ASSUME CardInv, [Next]_vars
               PROVE  Device!Next \/ UNCHANGED Device!vars
    OBVIOUS
  <2> USE DEF Device!vars, pin, cdth, flags, card, devs, driver, ghost
  <2>1. CASE Insert \/ PullOut \/ HcEvent \/ Request
    BY <2>1 DEF Insert, PullOut, HcEvent, Request
  <2>2. CASE Exit
    BY <2>2 DEF Exit
  <2>3. CASE Begin
    <3>1. CASE UNCHANGED usage
      BY <2>3, <3>1 DEF Begin, CardInv, TypeOK
    <3>2. CASE ~(rmv \/ mc) /\ dpc' = "cmd"
      <4>1. Device!Begin
        BY <2>3, <3>2 DEF Begin, Device!Begin, CardInv, TypeOK, DeviceShape
      <4> QED
        BY <4>1 DEF Device!Next
    <3> QED
      BY <2>3, <3>1, <3>2 DEF Begin
  <2>4. CASE CmdOk \/ CmdError \/ CmdTimeout
    <3>1. Device!End
      BY <2>4 DEF CmdOk, CmdError, CmdTimeout, Done, Device!End
    <3> QED
      BY <3>1 DEF Device!Next
  <2>5. CASE CdMark
    <3>1. CASE device /\ ~rmv
      <4>1. Device!Close
        BY <2>5, <3>1 DEF CdMark, Device!Close
      <4> QED
        BY <4>1 DEF Device!Next
    <3>2. CASE ~device \/ rmv
      BY <2>5, <3>2 DEF CdMark, CardInv, TypeOK
    <3> QED
      BY <3>1, <3>2
  <2>6. CASE CdFree
    <3>1. Device!Free
      BY <2>6 DEF CdFree, Goto, Device!Free, CardInv, TypeOK, DeviceShape
    <3> QED
      BY <3>1 DEF Device!Next
  <2>7. CASE CdAttach
    <3>1. Device!Attach
      BY <2>7 DEF CdAttach, Goto, Device!Attach, CardInv, TypeOK, DeviceShape
    <3> QED
      BY <3>1 DEF Device!Next
  <2>8. CASE CdPulse \/ CdRead \/ CdArm \/ CdTest \/ CdClearPresent \/ CdWakeUp
    BY <2>8 DEF CdPulse, CdRead, CdArm, CdTest, CdClearPresent, CdWakeUp
  <2>9. CASE CdDetach \/ CdPowerOff \/ CdInsert \/ CdIdent \/ CdLoad \/ CdStore
             \/ CdInvalid
    BY <2>9 DEF CdDetach, CdPowerOff, CdInsert, CdIdent, CdLoad, CdStore,
                CdInvalid
  <2>10. CASE UNCHANGED vars
    BY <2>10 DEF vars
  <2> QED
    BY <2>1, <2>2, <2>3, <2>4, <2>5, <2>6, <2>7, <2>8, <2>9, <2>10
       DEF Next, Cd, Driver
<1> QED
  BY <1>1, <1>2, CardInvariant, PTL DEF Spec, KeepsPromise, Device!Spec
=============================================================================
