------------------------------ MODULE SdioCard ------------------------------
(***************************************************************************)
(* Card detection, attachment and removal in devb-sdmmc: sdio_cd and the   *)
(* card-detect thread (sdiodi/base.c), the use count of a device           *)
(* (sdiodi/card.c), the CAM callbacks and the driver thread                *)
(* (sim_sdmmc.c), with card detection through a GPIO pin of the board      *)
(* (arm/mx6_generic.le.v7/bs.c).                                           *)
(*                                                                         *)
(* The card-detect thread, the driver thread of the attached device, the   *)
(* host controller thread and the user who inserts and pulls out cards     *)
(* interleave.  The mutex sdio_ctrl.mutex protects the use count and the   *)
(* flag RMV_PENDING; a step that holds it is atomic.  The flags of the     *)
(* card (hc->device.flags) are changed by atomic operations, except for    *)
(* the memset and the setting of PRESENT in _sdio_attach.                  *)
(***************************************************************************)
EXTENDS Naturals

CONSTANTS
  Cards,  \* bound: how many cards are inserted one after the other
  Bad     \* those of them that cannot be identified

ASSUME SdioCardAssumption == Cards \in Nat \ {0} /\ Bad \subseteq 1 .. Cards

VARIABLES
  slot, ncards,  \* the card in the slot (0: none); cards inserted so far
  icr,           \* the edge of the pin that is latched: "rise" is removal
  isr, masked,   \* an edge is latched; the interrupt is masked
  hcq,           \* HC_EV_CD is queued to the host controller thread
  pulses,        \* SDIO_EV_CD pulses queued to the card-detect thread
  cpc, cd,       \* where the card-detect thread is, the pin it has read
  reg,           \* MEDIA_CHANGE as loaded by dev->flags |= DEV_FLAG_PRESENT
  signalled,     \* cd_cond has been signalled
  mc, present, invalid,  \* MEDIA_CHANGE, PRESENT, INVALID_CARD of dev->flags
  ident,         \* the card that _sdio_attach identified
  inited,        \* the card that is powered and initialised
  device,        \* the sdio_device of the attached client exists
  rmv, usage,    \* its flag RMV_PENDING and its use count
  chan,          \* the driver thread's channel exists
  dpc,           \* where the driver thread is
  missed,        \* a change of the pin has gone unnoticed
  mclost,        \* MEDIA_CHANGE has been lost to memset or to the store
  gap,           \* a command began between the clearing of MEDIA_CHANGE and
                 \* the setting of RMV_PENDING
  foreign        \* a command succeeded on another card than the identified

pin    == <<slot, ncards, icr, isr, masked, missed>>
cdth   == <<cpc, cd, reg, signalled>>
flags  == <<mc, present, invalid>>
card   == <<ident, inited>>
devs   == <<device, rmv, usage>>
driver == <<chan, dpc>>
ghost  == <<mclost, gap, foreign>>
vars   == <<pin, hcq, pulses, cdth, flags, card, devs, driver, ghost>>
-----------------------------------------------------------------------------
(***************************************************************************)
(* The GPIO pin.  An edge of the selected kind is latched in the interrupt *)
(* status until a one is written to it.  Latched and not masked, it raises *)
(* the interrupt, whose event goes to the host controller thread and masks *)
(* it.                                                                     *)
(***************************************************************************)
Raise(latched, off) ==
  /\ isr' = latched
  /\ masked' = (latched \/ off)
  /\ hcq' = (hcq \/ (latched /\ ~off))

(* Two edges go unnoticed: one that comes between the read and the          *)
(* re-arming of the pin (imx6_gpio_cd, see CdRead), and one that comes      *)
(* while the edge before it is latched, whose MEDIA_CHANGE has been used.   *)
Edge(kind) ==
  /\ Raise(isr \/ kind = icr, masked)
  /\ missed' = (missed \/ cpc = "arm" \/ (isr /\ ~hcq /\ ~mc))

Insert ==
  /\ slot = 0 /\ ncards < Cards
  /\ slot' = ncards + 1 /\ ncards' = ncards + 1
  /\ Edge("fall")
  /\ UNCHANGED <<icr, pulses, cdth, flags, card, devs, driver, ghost>>

PullOut ==
  /\ slot # 0
  /\ slot' = 0 /\ inited' = 0
  /\ Edge("rise")
  /\ UNCHANGED <<ncards, icr, pulses, cdth, flags, ident, devs, driver, ghost>>

(* The end of imx6_gpio_cd, having read the pin as in or out: select the    *)
(* other edge and unmask.  Only with a card in is the latched edge cleared. *)
Arm(in) ==
  /\ icr' = IF in THEN "rise" ELSE "fall"
  /\ Raise(isr /\ ~in, FALSE)

(* sdio_hc_event for HC_EV_CD. *)
Notify == mc' = TRUE /\ pulses' = pulses + 1

(* bs_event: the host controller thread passes the event on. *)
HcEvent ==
  /\ hcq /\ hcq' = FALSE
  /\ Notify
  /\ UNCHANGED <<pin, cdth, present, invalid, card, devs, driver, ghost>>
-----------------------------------------------------------------------------
(***************************************************************************)
(* The card-detect thread: sdio_cd_thread, sdio_cd.                        *)
(***************************************************************************)
Goto(a, b) == cpc = a /\ cpc' = b

CdPulse ==
  /\ pulses > 0 /\ pulses' = pulses - 1
  /\ Goto("idle", "read")
  /\ UNCHANGED <<pin, hcq, cd, reg, signalled, flags, card, devs, driver, ghost>>

(* imx6_gpio_cd in two steps. *)
CdRead ==
  /\ Goto("read", "arm")
  /\ cd' = (slot # 0)
  /\ UNCHANGED <<pin, hcq, pulses, reg, signalled, flags, card, devs, driver,
                 ghost>>

CdArm ==
  /\ Goto("arm", "test")
  /\ Arm(cd)
  /\ UNCHANGED <<slot, ncards, missed, pulses, cd, reg, signalled, flags, card, devs,
                 driver, ghost>>

(* Slip: only an empty slot is a removal. *)
CdTestNoMediaChange ==
  /\ cpc = "test"
  /\ mc' = FALSE /\ invalid' = (invalid /\ cd)
  /\ cpc' = IF ~cd /\ present THEN "remove" ELSE "insert"
  /\ UNCHANGED <<pin, hcq, pulses, cd, reg, signalled, present, card, devs,
                 driver, ghost>>

(* A changed medium or an empty slot: the old card is gone. *)
CdTest ==
  /\ cpc = "test"
  /\ \/ /\ mc \/ ~cd
        /\ mc' = FALSE /\ invalid' = FALSE
        /\ cpc' = IF present THEN "remove" ELSE "insert"
     \/ /\ ~mc /\ cd
        /\ cpc' = "insert" /\ UNCHANGED <<mc, invalid>>
  /\ UNCHANGED <<pin, hcq, pulses, cd, reg, signalled, present, card, devs,
                 driver, ghost>>

CdClearPresent ==
  /\ Goto("remove", "lock")
  /\ present' = FALSE
  /\ UNCHANGED <<pin, hcq, pulses, cd, reg, signalled, mc, invalid, card, devs,
                 driver, ghost>>

(* With the mutex: mark the device, wait while a command is in progress.    *)
(* Without a device there is nothing to call.                               *)
CdMark ==
  /\ cpc = "lock"
  /\ \/ device /\ rmv' = TRUE /\ cpc' = IF usage = 0 THEN "detach" ELSE "wait"
     \/ ~device /\ cpc' = "off" /\ UNCHANGED rmv
  /\ signalled' = FALSE
  /\ UNCHANGED <<pin, hcq, pulses, cd, reg, flags, card, device, usage, driver,
                 ghost>>

CdWakeUp ==
  /\ cpc = "wait" /\ signalled
  /\ signalled' = FALSE
  /\ cpc' = IF usage = 0 THEN "detach" ELSE "wait"
  /\ UNCHANGED <<pin, hcq, pulses, cd, reg, flags, card, devs, driver, ghost>>

(* sdmmc_sdio_removal, sdmmc_detach: the channel is destroyed ... *)
CdDetach ==
  /\ Goto("detach", "join")
  /\ chan' = FALSE
  /\ UNCHANGED <<pin, hcq, pulses, cd, reg, signalled, flags, card, devs, dpc,
                 ghost>>

(* ... and, the driver thread having ended, the device is given back, unless *)
(* it is in use (sdio_detach).                                               *)
CdFree ==
  /\ Goto("join", "off")
  /\ dpc = "none"
  /\ device' = (usage # 0) /\ rmv' = (rmv /\ usage # 0)
  /\ UNCHANGED <<pin, hcq, pulses, cd, reg, signalled, flags, card, usage,
                 driver, ghost>>

CdPowerOff ==
  /\ Goto("off", "insert")
  /\ inited' = IF cd THEN inited ELSE 0
  /\ UNCHANGED <<pin, hcq, pulses, cd, reg, signalled, flags, ident, devs,
                 driver, ghost>>

(* A card in the slot that is neither known nor refused; _sdio_attach       *)
(* begins with a memset of all that is known of the card, and power off.    *)
CdInsert ==
  /\ cpc = "insert"
  /\ \/ /\ cd /\ ~present /\ ~invalid
        /\ cpc' = "ident"
        /\ mc' = FALSE /\ mclost' = (mclost \/ mc)
        /\ inited' = 0
     \/ /\ ~(cd /\ ~present /\ ~invalid)
        /\ cpc' = "idle"
        /\ UNCHANGED <<mc, mclost, inited>>
  /\ UNCHANGED <<pin, hcq, pulses, cd, reg, signalled, present, invalid, ident,
                 devs, driver, gap, foreign>>

(* sd_ident, mmc_ident. *)
CdIdent ==
  /\ cpc = "ident"
  /\ \/ /\ slot \notin Bad \cup {0}
        /\ ident' = slot /\ inited' = slot /\ cpc' = "load"
     \/ cpc' = "invalid" /\ UNCHANGED card
  /\ UNCHANGED <<pin, hcq, pulses, cd, reg, signalled, flags, devs, driver,
                 ghost>>

(* dev->flags |= DEV_FLAG_PRESENT. *)
CdLoad ==
  /\ Goto("load", "store")
  /\ reg' = mc
  /\ UNCHANGED <<pin, hcq, pulses, cd, signalled, flags, card, devs, driver,
                 ghost>>

CdStore ==
  /\ Goto("store", "attach")
  /\ present' = TRUE /\ mc' = reg
  /\ mclost' = (mclost \/ mc # reg)
  /\ reg' = FALSE
  /\ UNCHANGED <<pin, hcq, pulses, cd, signalled, invalid, card, devs, driver, gap,
                 foreign>>

(* sdmmc_sdio_insertion: sdmmc_attach with sdio_attach and sdmmc_reg. *)
CdAttach ==
  /\ Goto("attach", "idle")
  /\ device' = TRUE /\ rmv' = FALSE /\ usage' = 0
  /\ chan' = TRUE /\ dpc' = "idle"
  /\ UNCHANGED <<pin, hcq, pulses, cd, reg, signalled, flags, card, ghost>>

CdInvalid ==
  /\ Goto("invalid", "idle")
  /\ invalid' = TRUE
  /\ UNCHANGED <<pin, hcq, pulses, cd, reg, signalled, mc, present, card, devs,
                 driver, ghost>>

Cd ==
  \/ CdPulse \/ CdRead \/ CdArm \/ CdTest \/ CdClearPresent \/ CdMark
  \/ CdWakeUp \/ CdDetach \/ CdFree \/ CdPowerOff \/ CdInsert \/ CdIdent
  \/ CdLoad \/ CdStore \/ CdAttach \/ CdInvalid
-----------------------------------------------------------------------------
(***************************************************************************)
(* The driver thread: sdmmc_driver_thread; a request is a series of        *)
(* commands, each within _sdio_synchronize.                                *)
(***************************************************************************)
Request ==
  /\ dpc = "idle" /\ chan
  /\ dpc' = "sync"
  /\ UNCHANGED <<pin, hcq, pulses, cdth, flags, card, devs, chan, ghost>>

(* MsgReceivePulse fails: the thread ends. *)
Exit ==
  /\ dpc = "idle" /\ ~chan
  /\ dpc' = "none"
  /\ UNCHANGED <<pin, hcq, pulses, cdth, flags, card, devs, chan, ghost>>

(* Slip: a device that is being removed is not refused. *)
BeginUnguarded ==
  /\ dpc = "sync"
  /\ \/ mc /\ dpc' = "idle" /\ UNCHANGED usage
     \/ ~mc /\ dpc' = "cmd" /\ usage' = usage + 1
  /\ UNCHANGED <<pin, hcq, pulses, cdth, flags, card, device, rmv, chan, ghost>>

(* Slip: a command that was refused drops a reference, too. *)
BeginRefusedDrops ==
  /\ dpc = "sync"
  /\ \/ (rmv \/ mc) /\ dpc' = "idle" /\ usage' = usage - 1
     \/ ~(rmv \/ mc) /\ dpc' = "cmd" /\ usage' = usage + 1
  /\ UNCHANGED <<pin, hcq, pulses, cdth, flags, card, device, rmv, chan, ghost>>

(* _sdio_synchronize before a command; ENXIO ends the request. *)
Begin ==
  /\ dpc = "sync"
  /\ \/ (rmv \/ mc) /\ dpc' = "idle" /\ UNCHANGED usage
     \/ ~(rmv \/ mc) /\ dpc' = "cmd" /\ usage' = usage + 1
  /\ gap' = (gap \/ cpc \in {"remove", "lock"})
  /\ UNCHANGED <<pin, hcq, pulses, cdth, flags, card, device, rmv, chan, mclost,
                 foreign>>

(* Slip: the card-detect thread is not told. *)
DoneNoSignal ==
  /\ usage' = usage - 1
  /\ UNCHANGED signalled
  /\ dpc' \in {"idle", "sync"}

(* _sdio_synchronize after a command. *)
Done ==
  /\ usage' = usage - 1
  /\ signalled' = (signalled \/ (usage = 1 /\ rmv))
  /\ dpc' \in {"idle", "sync"}

(* Only the card that has been initialised answers. *)
CmdOk ==
  /\ dpc = "cmd" /\ slot # 0 /\ slot = inited
  /\ foreign' = (foreign \/ slot # ident)
  /\ Done
  /\ UNCHANGED <<pin, hcq, pulses, cpc, cd, reg, flags, card, device, rmv, chan,
                 mclost, gap>>

(* A time-out error that the controller reports: the host controller thread *)
(* asks for the pin, which arms it anew, and the command fails.             *)
CmdError ==
  /\ dpc = "cmd"
  /\ Arm(slot # 0)
  /\ Done
  /\ UNCHANGED <<slot, ncards, missed, pulses, cpc, cd, reg, flags, card, device, rmv,
                 chan, ghost>>

(* sdio_wait_cmd times out and _sdio_send_cmd resets a card that is present: *)
(* whatever card is in the slot is initialised; with none the card-detect    *)
(* thread is told.  The time-out is a second or more: the host controller    *)
(* thread does not leave an event unread that long.                          *)
CmdTimeout ==
  /\ dpc = "cmd" /\ ~hcq
  /\ \/ present /\ slot \notin Bad \cup {0} /\ inited' = slot
        /\ UNCHANGED <<mc, pulses>>
     \/ present /\ slot = 0 /\ Notify /\ UNCHANGED inited
     \/ UNCHANGED <<inited, mc, pulses>>
  /\ Done
  /\ UNCHANGED <<pin, hcq, cpc, cd, reg, present, invalid, ident, device, rmv,
                 chan, ghost>>

Driver == Exit \/ Begin \/ CmdOk \/ CmdError \/ CmdTimeout
-----------------------------------------------------------------------------
(* After start-up with an empty slot: the first event is the insertion. *)
Init ==
  /\ slot = 0 /\ ncards = 0 /\ icr = "fall" /\ isr = FALSE /\ masked = FALSE
  /\ hcq = FALSE /\ pulses = 0
  /\ cpc = "idle" /\ cd = FALSE /\ reg = FALSE /\ signalled = FALSE
  /\ mc = FALSE /\ present = FALSE /\ invalid = FALSE
  /\ ident = 0 /\ inited = 0
  /\ device = FALSE /\ rmv = FALSE /\ usage = 0
  /\ chan = FALSE /\ dpc = "none"
  /\ missed = FALSE /\ mclost = FALSE /\ gap = FALSE /\ foreign = FALSE

Next == Insert \/ PullOut \/ HcEvent \/ Cd \/ Request \/ Driver

Spec == Init /\ [][Next]_vars

(* The threads run, and every command ends (SdioCmd).  Nothing is asked of *)
(* the user and of the clients.                                            *)
FairSpec == Spec /\ WF_vars(HcEvent) /\ WF_vars(Cd) /\ WF_vars(Driver)
-----------------------------------------------------------------------------
(* Every variable keeps its type. *)
TypeOK ==
  /\ slot \in 0 .. Cards /\ ncards \in 0 .. Cards
  /\ icr \in {"rise", "fall"} /\ isr \in BOOLEAN /\ masked \in BOOLEAN
  /\ hcq \in BOOLEAN /\ pulses \in Nat
  /\ cpc \in {"idle", "read", "arm", "test", "remove", "lock", "wait", "detach",
             "join", "off", "insert", "ident", "load", "store", "attach",
             "invalid"}
  /\ cd \in BOOLEAN /\ reg \in BOOLEAN /\ signalled \in BOOLEAN
  /\ mc \in BOOLEAN /\ present \in BOOLEAN /\ invalid \in BOOLEAN
  /\ ident \in 0 .. Cards /\ inited \in 0 .. Cards
  /\ device \in BOOLEAN /\ rmv \in BOOLEAN /\ usage \in 0 .. 1
  /\ chan \in BOOLEAN /\ dpc \in {"none", "idle", "sync", "cmd"}
  /\ missed \in BOOLEAN /\ mclost \in BOOLEAN /\ gap \in BOOLEAN /\ foreign \in BOOLEAN

(* The driver knows what is in the slot: nothing, the very card that it has  *)
(* identified, or a card that it has refused.                                *)
Known ==
  \/ slot = 0 /\ ~present
  \/ slot # 0 /\ present /\ ident = slot
  \/ slot # 0 /\ ~present /\ invalid

(***************************************************************************)
(* When the user leaves the slot alone the driver comes to know what is in *)
(* it and does not forget: no insertion or removal is missed, and no card  *)
(* is taken for the one before it, at whatever point of sdio_cd they come. *)
(* The exceptions are an edge that imx6_gpio_cd missed and a MEDIA_CHANGE  *)
(* that was lost in _sdio_attach.                                          *)
(***************************************************************************)
SlotKnown == \A s \in 0 .. Cards : <>[](slot = s) => <>[](Known \/ missed \/ mclost)

(***************************************************************************)
(* No command succeeds on another card than the one the device stands for, *)
(* although the reset after a time-out initialises whatever card is in the *)
(* slot (_sdio_reset): MEDIA_CHANGE, then RMV_PENDING keep commands off    *)
(* it.  There are three holes in that: imx6_gpio_cd may miss an edge,      *)
(* MEDIA_CHANGE may be lost in _sdio_attach, and sdio_cd clears it before  *)
(* it sets RMV_PENDING.                                                    *)
(***************************************************************************)
NoForeignCard == foreign => missed \/ mclost \/ gap

(***************************************************************************)
(* The card-detect thread never stays in sdio_cd: the commands that it     *)
(* waits for drop the use count and wake it, and the driver thread that it *)
(* joins has an end.                                                       *)
(***************************************************************************)
CdReturns == (cpc # "idle") ~> (cpc = "idle")

(* The device as a client sees it; a command counts from its start to its   *)
(* end, whatever the use count says.                                        *)
Device == INSTANCE SdioDevice WITH
  st   <- IF ~device THEN "none" ELSE IF rmv THEN "closing" ELSE "live",
  busy <- dpc = "cmd"

(***************************************************************************)
(* The removal protocol keeps the promise of the SDIO layer: no command    *)
(* begins on a device that is being removed, and none is in progress on a  *)
(* device that is given back.                                              *)
(***************************************************************************)
KeepsPromise == Device!Spec
=============================================================================
